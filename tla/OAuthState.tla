----------------------------- MODULE OAuthState -----------------------------
(***************************************************************************)
(* oauth-state.ts (oauth-manager): states that are generated at the start  *)
(* of a login and consumed by its callback: read, compared, deleted.  A    *)
(* callback that opts in to allowStoreMissFallback accepts a state that    *)
(* the store does not have; it is off by default, which the package's      *)
(* README (line 59) and comments of its test still describe as the rule.   *)
(***************************************************************************)
CONSTANTS State,    \* nonces
          Type,
          Callback  \* calls of consumeOAuthState that may be under way at once

VARIABLES stored,    \* what the state store has for each nonce
          callback,
          valid,     \* history: the states that were found valid
          twice,     \* history: ... more than once
          crossed,   \* history: the states two callbacks had in hand at once
          trusted    \* history: the states that were accepted without the store having them

ovars == <<stored, callback, valid, twice, crossed, trusted>>

NoCallback == [pc |-> "idle"]
InHand(s) == {c \in Callback : callback[c] # NoCallback /\ callback[c].state = s}

TypeOK ==
  /\ stored \in [State -> Type \cup {"new", "gone"}]
  /\ callback \in [Callback -> {NoCallback}
                     \cup [pc : {"get", "del"}, state : State, type : Type, option : {"default", "fallback"}]]
  /\ twice \subseteq valid /\ valid \subseteq State /\ crossed \subseteq State /\ trusted \subseteq State

Init ==
  /\ stored = [s \in State |-> "new"]
  /\ callback = [c \in Callback |-> NoCallback]
  /\ valid = {} /\ twice = {} /\ crossed = {} /\ trusted = {}

Leaves(c) == callback' = [callback EXCEPT ![c] = NoCallback]

GenerateOAuthState(s, t) ==
  /\ stored[s] = "new"
  /\ stored' = [stored EXCEPT ![s] = t]
  /\ UNCHANGED <<callback, valid, twice, crossed, trusted>>

Expires(s) ==
  /\ stored[s] \in Type
  /\ stored' = [stored EXCEPT ![s] = "gone"]
  /\ UNCHANGED <<callback, valid, twice, crossed, trusted>>

\* A callback may come with any state and any type, and come again.
ConsumeOAuthState(c, s, t, option) ==
  /\ callback[c] = NoCallback
  /\ callback' = [callback EXCEPT ![c] = [pc |-> "get", state |-> s, type |-> t, option |-> option]]
  /\ crossed' = IF InHand(s) # {} THEN crossed \cup {s} ELSE crossed
  /\ UNCHANGED <<stored, valid, twice, trusted>>

Found(s) ==
  /\ valid' = valid \cup {s}
  /\ twice' = IF s \in valid THEN twice \cup {s} ELSE twice

\* A miss and another type are both invalid; the other type's state stays.
Get(c) ==
  /\ callback[c].pc = "get"
  /\ IF stored[callback[c].state] = callback[c].type
     THEN callback' = [callback EXCEPT ![c].pc = "del"] ELSE Leaves(c)
  /\ UNCHANGED <<stored, valid, twice, crossed, trusted>>

\* The type that is compared is then the one the state itself names.
FallsBack(c) ==
  /\ callback[c].pc = "get" /\ callback[c].option = "fallback"
  /\ stored[callback[c].state] \notin Type
  /\ Found(callback[c].state)
  /\ trusted' = trusted \cup {callback[c].state}
  /\ Leaves(c)
  /\ UNCHANGED <<stored, crossed>>

\* Mutant of Del: the answer does not wait for the deletion, which may fail.
DelUnawaited(c) ==
  /\ callback[c].pc = "del"
  /\ stored' \in {stored, [stored EXCEPT ![callback[c].state] = "gone"]}
  /\ Found(callback[c].state)
  /\ Leaves(c)
  /\ UNCHANGED <<crossed, trusted>>

\* Valid only when the deletion has been acknowledged.
Del(c) ==
  /\ callback[c].pc = "del"
  /\ stored' = [stored EXCEPT ![callback[c].state] = "gone"]
  /\ Found(callback[c].state)
  /\ Leaves(c)
  /\ UNCHANGED <<crossed, trusted>>

\* The store rejects; what it was asked to delete may be gone.
StoreRejects(c) ==
  /\ callback[c] # NoCallback
  /\ Leaves(c)
  /\ \/ UNCHANGED stored
     \/ callback[c].pc = "del" /\ stored' = [stored EXCEPT ![callback[c].state] = "gone"]
  /\ UNCHANGED <<valid, twice, crossed, trusted>>

Next ==
  \/ \E s \in State : Expires(s) \/ \E t \in Type : GenerateOAuthState(s, t)
  \/ \E c \in Callback : \/ Get(c) \/ FallsBack(c) \/ Del(c) \/ StoreRejects(c)
                         \/ \E s \in State, t \in Type, option \in {"default", "fallback"} :
                              ConsumeOAuthState(c, s, t, option)

-----------------------------------------------------------------------------
\* A state is good for one login ("single-use", oauth-state.ts), whatever is lost
\* or fails, unless two callbacks had it in hand at once or one of them opted in to
\* the fallback.
UsedOnceUnlessCrossed == twice \subseteq crossed \cup trusted
=============================================================================
