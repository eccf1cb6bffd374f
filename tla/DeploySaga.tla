----------------------------- MODULE DeploySaga -----------------------------
(***************************************************************************)
(* runAutonomousDeploy (autonomous-deploy and kit-devops-metrics): walk    *)
(* the channels of an approved submission in order, roll the successful    *)
(* ones back in reverse when one throws, append the steps to the deploy    *)
(* log that was read before the walk, audit and notify.  Nothing keeps two *)
(* deployments of a submission apart, so Run deployments may overlap.      *)
(* The packages differ in one point: autonomous-deploy swallows a failing  *)
(* save or notification, kit-devops-metrics rejects.                       *)
(***************************************************************************)
EXTENDS Naturals, Sequences, FiniteSets

CONSTANTS Run,        \* deployments of the submission
          Order,      \* the targets in the order they are walked
          Registered  \* the targets an adapter is registered for

Target == {Order[i] : i \in 1 .. Len(Order)}

ASSUME OrderAssumption ==
  /\ Order \in Seq(Target) /\ Registered \subseteq Target
  /\ \A i, k \in 1 .. Len(Order) : Order[i] = Order[k] => i = k

VARIABLES package,  \* which of the two implementations runs
          log,      \* the deploy log of the submission: the steps of one
                    \* deployment per entry
          run,      \* the deployments
          changed,  \* <<r, t>>: channel t may carry the change of deployment r
          audited,  \* <<r, status>>
          saves     \* history: the deployments in the order they saved the log

vars == <<package, log, run, changed, audited, saves>>

StepStatus == {"success", "skipped", "failed", "rolled_back"}
Step == [target : Target, status : StepStatus, stuck : BOOLEAN]
Entry == [run : Run, steps : Seq(Step)]
Verdicts == {"success", "partial", "failed"}

\* next: the target to walk; base, since: the log that was read and how many saves preceded the reading.
RunState ==
  [pc : {"idle", "fetch", "forced", "walk", "undo", "save", "audit", "notify",
         "skipped", "ended", "rejected"},
   next : 1 .. Len(Order) + 1, steps : Seq(Step), base : Seq(Entry), since : Nat]
IdleRun == [pc |-> "idle", next |-> 1, steps |-> <<>>, base |-> <<>>, since |-> 0]

TypeOK ==
  /\ package \in {"autonomous-deploy", "kit-devops-metrics"}
  /\ log \in Seq(Entry) /\ saves \in Seq(Run)
  /\ changed \subseteq Run \X Target /\ audited \subseteq Run \X Verdicts
  /\ run \in [Run -> RunState]
  /\ \A r \in Run : Len(run[r].steps) <= Len(Order) /\ run[r].since <= Len(saves)

Init ==
  /\ package \in {"autonomous-deploy", "kit-devops-metrics"}
  /\ log = <<>> /\ changed = {} /\ audited = {} /\ saves = <<>>
  /\ run = [r \in Run |-> IdleRun]

At(r, pc) == run[r].pc = pc
Goto(r, pc) == run' = [run EXCEPT ![r].pc = pc]

\* Without force, the feature flag is looked at before the submission is read.
Begin(r) ==
  /\ At(r, "idle")
  /\ \E pc \in {"forced", "fetch", "skipped"} : Goto(r, pc)
  /\ UNCHANGED <<package, log, changed, audited, saves>>

\* Others approve, reject and mark the submission at any time, so any approved
\* and optedIn may be read.  Force stands in for the marker, not the approval.
Fetch(r) ==
  /\ run[r].pc \in {"fetch", "forced"}
  /\ \E approved, optedIn \in BOOLEAN :
       run' = [run EXCEPT ![r] =
         [@ EXCEPT !.pc = IF approved /\ (At(r, "forced") \/ optedIn) THEN "walk" ELSE "skipped",
                   !.base = log, !.since = Len(saves)]]
  /\ UNCHANGED <<package, log, changed, audited, saves>>

\* The submission is missing, or the store rejects.
FetchFails(r) ==
  /\ run[r].pc \in {"fetch", "forced"}
  /\ Goto(r, "skipped")
  /\ UNCHANGED <<package, log, changed, audited, saves>>

-----------------------------------------------------------------------------
\* The walk.

Walking(r) == At(r, "walk") /\ run[r].next <= Len(Order)
Channel(r) == Order[run[r].next]
Record(r, status) == Append(run[r].steps, [target |-> Channel(r), status |-> status, stuck |-> FALSE])

Advance(r, status) ==
  run' = [run EXCEPT ![r] = [@ EXCEPT !.steps = Record(r, status), !.next = run[r].next + 1]]

Skips(r) ==
  /\ Walking(r)
  /\ Advance(r, "skipped")
  /\ UNCHANGED <<package, log, changed, audited, saves>>

Succeeds(r) ==
  /\ Walking(r) /\ Channel(r) \in Registered
  /\ Advance(r, "success")
  /\ changed' = changed \cup {<<r, Channel(r)>>}
  /\ UNCHANGED <<package, log, audited, saves>>

\* The adapter throws, and its change may have taken effect all the same.
Throws(r) ==
  /\ Walking(r) /\ Channel(r) \in Registered
  /\ run' = [run EXCEPT ![r] = [@ EXCEPT !.pc = "undo", !.steps = Record(r, "failed")]]
  /\ changed' = changed \cup {<<r, Channel(r)>>}
  /\ UNCHANGED <<package, log, audited, saves>>

WalkEnds(r) ==
  /\ At(r, "walk") /\ run[r].next > Len(Order)
  /\ Goto(r, "save")
  /\ UNCHANGED <<package, log, changed, audited, saves>>

-----------------------------------------------------------------------------
\* The rollback, from the latest change down.

Completed(r) ==
  {i \in 1 .. Len(run[r].steps) : run[r].steps[i].status = "success" /\ ~run[r].steps[i].stuck}
\* Mutant of Latest: the completed steps are not reversed.
LatestInOrder(r) == CHOOSE i \in Completed(r) : \A k \in Completed(r) : k >= i

Latest(r) == CHOOSE i \in Completed(r) : \A k \in Completed(r) : k <= i
Undoing(r) == At(r, "undo") /\ Completed(r) # {}

RollsBack(r) ==
  /\ Undoing(r)
  /\ LET i == Latest(r) IN
       /\ run' = [run EXCEPT ![r] = [@ EXCEPT !.steps[i].status = "rolled_back"]]
       /\ changed' = changed \ {<<r, run[r].steps[i].target>>}
  /\ UNCHANGED <<package, log, audited, saves>>

\* Mutant of RollbackThrows: the error is swallowed and the step marked.
RollbackThrowsSilently(r) ==
  /\ Undoing(r)
  /\ run' = [run EXCEPT ![r].steps[Latest(r)].status = "rolled_back"]
  /\ UNCHANGED <<package, log, changed, audited, saves>>

\* Mutant of RollbackThrows: the rejection is not caught.
RollbackThrowsUncaught(r) ==
  /\ Undoing(r)
  /\ Goto(r, "rejected")
  /\ UNCHANGED <<package, log, changed, audited, saves>>

\* The step keeps its status and only its error tells that the rollback failed.
RollbackThrows(r) ==
  /\ Undoing(r)
  /\ run' = [run EXCEPT ![r].steps[Latest(r)].stuck = TRUE]
  /\ UNCHANGED <<package, log, changed, audited, saves>>

UndoEnds(r) ==
  /\ At(r, "undo") /\ Completed(r) = {}
  /\ Goto(r, "save")
  /\ UNCHANGED <<package, log, changed, audited, saves>>

-----------------------------------------------------------------------------
\* The log is saved as a whole, then the verdict is audited and notified.

Has(r, status) == \E i \in 1 .. Len(run[r].steps) : run[r].steps[i].status = status
\* Mutant of OverallStatus: one success is enough.
OverallStatusLenient(r) == IF Has(r, "success") THEN "success" ELSE IF Has(r, "failed") THEN "failed" ELSE "partial"

OverallStatus(r) ==
  IF Has(r, "failed") THEN "failed" ELSE IF Has(r, "success") THEN "success" ELSE "partial"

\* Mutant of PersistDeployLog: only the new steps are written.
PersistDeployLogAlone(r) ==
  /\ At(r, "save")
  /\ log' = <<[run |-> r, steps |-> run[r].steps]>>
  /\ saves' = Append(saves, r)
  /\ Goto(r, "audit")
  /\ UNCHANGED <<package, changed, audited>>

PersistDeployLog(r) ==
  /\ At(r, "save")
  /\ log' = Append(run[r].base, [run |-> r, steps |-> run[r].steps])
  /\ saves' = Append(saves, r)
  /\ Goto(r, "audit")
  /\ UNCHANGED <<package, changed, audited>>

SideCallFails(r) ==
  /\ run[r].pc \in {"save", "audit", "notify"}
  /\ Goto(r, CASE package = "kit-devops-metrics" \/ At(r, "audit") -> "rejected"
               [] At(r, "save") -> "audit"
               [] OTHER -> "ended")
  /\ UNCHANGED <<package, log, changed, audited, saves>>

Audit(r) ==
  /\ At(r, "audit")
  /\ audited' = audited \cup {<<r, OverallStatus(r)>>}
  /\ Goto(r, "notify")
  /\ UNCHANGED <<package, log, changed, saves>>

Notify(r) ==
  /\ At(r, "notify")
  /\ Goto(r, "ended")
  /\ UNCHANGED <<package, log, changed, audited, saves>>

RunStep(r) ==
  \/ Fetch(r) \/ FetchFails(r) \/ Skips(r) \/ Succeeds(r) \/ Throws(r) \/ WalkEnds(r)
  \/ RollsBack(r) \/ RollbackThrows(r) \/ UndoEnds(r)
  \/ PersistDeployLog(r) \/ SideCallFails(r) \/ Audit(r) \/ Notify(r)

Next == \E r \in Run : Begin(r) \/ RunStep(r)

\* Adapters, store, audit and notification settle, one way or the other.
Fairness == \A r \in Run : WF_vars(RunStep(r))

Spec == Init /\ [][Next]_vars /\ Fairness

-----------------------------------------------------------------------------
(***************************************************************************)
(* Properties.                                                             *)
(***************************************************************************)
Over(r) == run[r].pc \in {"save", "audit", "notify", "ended", "rejected"}

\* A deployment that failed leaves a change in a channel only where its own
\* steps say so: at the step that failed, or at one whose rollback failed.
NothingLeftUnreported ==
  \A r \in Run : Over(r) /\ OverallStatus(r) = "failed" =>
    \A t \in Target : <<r, t>> \in changed =>
      \E i \in 1 .. Len(run[r].steps) : LET s == run[r].steps[i] IN
        s.target = t /\ (s.status = "failed" \/ s.stuck)

\* The steps a deployment saved disappear from the deploy log only by the save
\* of another one that had read the log before (the log is saved as a whole).
LogLosesOnlyOverlapped ==
  \A k \in 1 .. Len(saves) :
    \/ \E i \in 1 .. Len(log) : log[i].run = saves[k]
    \/ \E m \in k + 1 .. Len(saves) : run[saves[m]].since < k

\* What the deploy log and the audit log say of a deployment agrees.
LogAndAuditAgree ==
  \A r \in Run, i \in 1 .. Len(log), v \in Verdicts : <<r, v>> \in audited /\ log[i].run = r =>
    /\ v = "failed" <=> \E k \in 1 .. Len(log[i].steps) : log[i].steps[k].status = "failed"
    /\ v # "failed" => \A k \in 1 .. Len(log[i].steps) : log[i].steps[k].status # "rolled_back"

\* A deployment that was broken off deals with everything it had deployed, also
\* when a rollback throws, and comes to an end.
BrokenOffIsSettled ==
  \A r \in Run : At(r, "undo") ~>
    /\ run[r].pc \in {"ended", "rejected"}
    /\ \A i \in 1 .. Len(run[r].steps) : run[r].steps[i].status = "success" => run[r].steps[i].stuck

-----------------------------------------------------------------------------
(***************************************************************************)
(* Every deployment implements DeployOutcome: live are the steps that      *)
(* succeeded and that no rollback was tried for.                           *)
(***************************************************************************)
StuckOf(r) == {i \in 1 .. Len(run[r].steps) : run[r].steps[i].stuck}
PhaseOf(r) ==
  CASE At(r, "undo") -> "undoing"
    [] Over(r) -> OverallStatus(r)
    [] OTHER -> "deploying"

Outcome(r) == INSTANCE DeployOutcome
  WITH Place <- 1 .. Len(Order), live <- Completed(r), stuck <- StuckOf(r), phase <- PhaseOf(r)

\* Whatever the adapters do, a deployment goes live, breaks off, takes its
\* changes up again and pronounces its verdict as DeployOutcome promises.
\* (This is \A r \in Run : Outcome(r)!OutcomeSpec, in the form TLC takes.)
KeepsOutcome ==
  /\ \A r \in Run : Outcome(r)!OutcomeInit
  /\ [][\A r \in Run : [Outcome(r)!OutcomeNext]_(Outcome(r)!ovars)]_vars
=============================================================================
