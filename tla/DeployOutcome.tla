---------------------------- MODULE DeployOutcome ----------------------------
(***************************************************************************)
(* What one autonomous deployment promises, whatever its adapters do:      *)
(* while it deploys, changes go live in the order of the walk; after the   *)
(* first failure nothing more goes live and every change is taken up       *)
(* again, the latest first; and a verdict is pronounced only when none is  *)
(* left, "failed" if and only if some channel failed.                      *)
(***************************************************************************)
EXTENDS Naturals

CONSTANT Place   \* the places in the walk, numbered in its order

VARIABLES live,     \* the places whose change went live and was not taken up again
          stuck,    \* those whose rollback was tried in vain
          phase     \* how far the deployment is

ovars == <<live, stuck, phase>>

Verdict == {"success", "partial", "failed"}

OutcomeInit == live = {} /\ stuck = {} /\ phase = "deploying"

GoLive(n) ==
  /\ phase = "deploying"
  /\ \A k \in live : k < n
  /\ live' = live \cup {n}
  /\ UNCHANGED <<stuck, phase>>

BreakOff ==
  /\ phase = "deploying"
  /\ phase' = "undoing"
  /\ UNCHANGED <<live, stuck>>

\* The latest change is taken up: it is gone, or reported as stuck.
TakeUp(n) ==
  /\ phase = "undoing"
  /\ n \in live /\ \A k \in live : k <= n
  /\ live' = live \ {n}
  /\ stuck' \in {stuck, stuck \cup {n}}
  /\ UNCHANGED phase

Pronounce ==
  /\ \/ phase = "deploying" /\ phase' = IF live = {} THEN "partial" ELSE "success"
     \/ phase = "undoing" /\ live = {} /\ phase' = "failed"
  /\ UNCHANGED <<live, stuck>>

OutcomeNext == BreakOff \/ Pronounce \/ \E n \in Place : GoLive(n) \/ TakeUp(n)

OutcomeSpec == OutcomeInit /\ [][OutcomeNext]_ovars
=============================================================================
