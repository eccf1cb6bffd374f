---------------------------- MODULE AgentBudget ----------------------------
(***************************************************************************)
(* The amounts of executeAction (kit-ai-agent, executor.ts), which         *)
(* AgentActions leaves out: the guard reads what remains of the tenant's   *)
(* budget before the run, and the cost is added to the usage after it.     *)
(* The budget is injected: what remains is the limit less the usage.  What *)
(* AgentActions has in full, the log and the statuses of an action that    *)
(* was begun, is one step here.                                            *)
(***************************************************************************)
EXTENDS Integers

CONSTANTS Action,    \* of one tenant, all of them approved
          Estimate,  \* what estimateCost says of each
          Cost,      \* what a handler may report, more than the estimate or less
          Limit,
          Exec       \* executions that may be under way at once

VARIABLES approved,   \* the actions that are still approved
          usage,
          exec,
          spent,      \* history: what the handlers that succeeded have cost
          unrecorded, \* history: what of it was not added to the usage
          excess,     \* history: the most that one run has cost beyond its estimate
          crossed     \* history: two executions were between that reading and their end at once

xvars == <<approved, usage, exec, spent, unrecorded, excess, crossed>>

NoExec == [pc |-> "idle"]
At(x, pc) == exec[x].pc = pc

TypeOK ==
  /\ approved \subseteq Action /\ crossed \in BOOLEAN
  /\ usage \in Nat /\ spent \in Nat /\ unrecorded \in Nat /\ excess \in Nat
  /\ \A x \in Exec : \/ At(x, "idle")
                     \/ /\ exec[x].pc \in {"remaining", "guard", "dispatch", "handler"} /\ exec[x].action \in Action
                     \/ At(x, "addUsage") /\ exec[x].cost \in Nat

Init ==
  /\ approved = Action
  /\ usage = 0 /\ spent = 0 /\ unrecorded = 0 /\ excess = 0 /\ crossed = FALSE
  /\ exec = [x \in Exec |-> NoExec]

Ends(x) == exec' = [exec EXCEPT ![x] = NoExec]
Goto(x, pc) == exec' = [exec EXCEPT ![x].pc = pc]

ExecuteAction(x, a) ==
  /\ At(x, "idle") /\ a \in approved
  /\ exec' = [exec EXCEPT ![x] = [pc |-> "remaining", action |-> a]]
  /\ UNCHANGED <<approved, usage, spent, unrecorded, excess, crossed>>

ReadRemaining(x) ==
  /\ At(x, "remaining")
  /\ exec' = [exec EXCEPT ![x] = [pc |-> "guard", action |-> @.action, remaining |-> Limit - usage]]
  /\ crossed' = (crossed \/ \E o \in Exec : exec[o].pc \in {"guard", "dispatch", "handler", "addUsage"})
  /\ UNCHANGED <<approved, usage, spent, unrecorded, excess>>

\* Mutant of Affordable: an action is begun as long as anything remains.
AffordableStill(x) == exec[x].remaining > 0

Affordable(x) == Estimate[exec[x].action] <= exec[x].remaining

GuardPasses(x) ==
  /\ At(x, "guard") /\ Affordable(x)
  /\ exec' = [exec EXCEPT ![x] = [pc |-> "dispatch", action |-> @.action]]
  /\ UNCHANGED <<approved, usage, spent, unrecorded, excess, crossed>>

\* The budget does not suffice, or the policy check says no.
Cancels(x) ==
  /\ (At(x, "guard") /\ ~Affordable(x)) \/ At(x, "dispatch")
  /\ approved' = approved \ {exec[x].action}
  /\ Ends(x)
  /\ UNCHANGED <<usage, spent, unrecorded, excess, crossed>>

\* After the policy check; the handler is called whatever the action's status is.
Dispatch(x) ==
  /\ At(x, "dispatch")
  /\ approved' = approved \ {exec[x].action}
  /\ Goto(x, "handler")
  /\ UNCHANGED <<usage, spent, unrecorded, excess, crossed>>

\* The estimate binds nothing: the cost is what the handler reports.
HandlerSucceeds(x) ==
  /\ At(x, "handler")
  /\ \E cost \in Cost :
       /\ spent' = spent + cost
       /\ excess' = IF cost > Estimate[exec[x].action] + excess THEN cost - Estimate[exec[x].action] ELSE excess
       /\ exec' = [exec EXCEPT ![x] = [pc |-> "addUsage", cost |-> cost]]
  /\ UNCHANGED <<approved, usage, unrecorded, crossed>>

\* The charge is made, whatever its answer.
AddUsage(x) ==
  /\ At(x, "addUsage")
  /\ usage' = usage + exec[x].cost
  /\ Ends(x)
  /\ UNCHANGED <<approved, spent, unrecorded, excess, crossed>>

\* Audit, log, store or addUsage itself rejects: the cost is not added, and the action
\* is said to have failed.
RejectsAfterRun(x) ==
  /\ At(x, "addUsage")
  /\ unrecorded' = unrecorded + exec[x].cost
  /\ Ends(x)
  /\ UNCHANGED <<approved, usage, spent, excess, crossed>>

\* Estimate, budget, policy check or store reject, or the handler throws.
Rejects(x) ==
  /\ ~At(x, "idle") /\ ~At(x, "addUsage")
  /\ Ends(x)
  /\ UNCHANGED <<approved, usage, spent, unrecorded, excess, crossed>>

Next ==
  \E x \in Exec :
    \/ ReadRemaining(x) \/ GuardPasses(x) \/ Cancels(x) \/ Dispatch(x) \/ HandlerSucceeds(x)
    \/ AddUsage(x) \/ RejectsAfterRun(x) \/ Rejects(x)
    \/ \E a \in Action : ExecuteAction(x, a)

-----------------------------------------------------------------------------
\* Unless an execution read what remains before another was charged, the tenant's
\* budget is overspent by no more than what could not be recorded and what one run cost
\* beyond its estimate: runs that cost more than was expected do not add up.
OverspentOnlyCrossed == ~crossed => spent <= Limit + unrecorded + excess
=============================================================================
