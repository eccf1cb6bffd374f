--------------------------- MODULE MCAgentActions ---------------------------
(* A plan whose action needs an approval from a second source, and another   *)
(* plan (or its revision) whose action has no handler.                       *)
EXTENDS AgentActions, TLC

CONSTANTS p1, p2, a1, a2

MCPlanOf == a1 :> p1 @@ a2 :> p2
MCNeeds == a1 :> "slack" @@ a2 :> "none"
=============================================================================
