-------------------------- MODULE DeploySagaProofs --------------------------
(***************************************************************************)
(* Proofs about DeploySaga for any order of any number of channels and any *)
(* number of overlapping deployments: the types, what a failed deployment  *)
(* leaves behind, what the deploy log loses and says, and that every       *)
(* deployment implements DeployOutcome.                                    *)
(***************************************************************************)
EXTENDS DeploySaga, SequenceTheorems, WellFoundedInduction, TLAPS

\* The inductive invariant, part by part.
Steps(r) == 1 .. Len(run[r].steps)
Clean(r) == \A i \in Steps(r) :
  run[r].steps[i].status \in {"success", "skipped"} /\ ~run[r].steps[i].stuck

\* A deployment has no steps before it walks, none but good ones while it
\* walks, a failed one when it is broken off; and when it is over it was
\* undone completely, or never broken off.
WalkIsClean(r) ==
  /\ run[r].pc \in {"idle", "fetch", "forced", "skipped"} => run[r].steps = <<>> /\ run[r].next = 1
  /\ At(r, "walk") => Len(run[r].steps) = run[r].next - 1 /\ Clean(r)
  /\ At(r, "undo") => Has(r, "failed")
  /\ Over(r) => IF Has(r, "failed") THEN Completed(r) = {} ELSE Clean(r)

\* What may still be live in a channel is a step that succeeded or failed.
ChangedIsAStep ==
  \A r \in Run, t \in Target : <<r, t>> \in changed =>
    \E i \in Steps(r) : run[r].steps[i].target = t /\ run[r].steps[i].status \in {"success", "failed"}

\* Who saved or was saved will not touch its steps again.
FinalPc == {"audit", "notify", "ended", "rejected"}
Final(r) == run[r].pc \in FinalPc
Settled(entries) ==
  \A i \in 1 .. Len(entries) : Final(entries[i].run) /\ entries[i].steps = run[entries[i].run].steps
LogsAreSettled ==
  /\ Settled(log) /\ \A r \in Run : Settled(run[r].base)
  /\ \A m \in 1 .. Len(saves) : Final(saves[m])

AuditedIsVerdict ==
  \A r \in Run, v \in Verdicts : <<r, v>> \in audited =>
    run[r].pc \in {"notify", "ended", "rejected"} /\ v = OverallStatus(r)

\* LogLosesOnlyOverlapped, of a log that was read after n saves.
Loses(entries, n) ==
  \A k \in 1 .. n :
    \/ \E i \in 1 .. Len(entries) : entries[i].run = saves[k]
    \/ \E m \in k + 1 .. n : run[saves[m]].since < k
LogsLose == Loses(log, Len(saves)) /\ \A r \in Run : Loses(run[r].base, run[r].since)

IInv ==
  /\ TypeOK
  /\ \A r \in Run : WalkIsClean(r)
  /\ ChangedIsAStep
  /\ LogsAreSettled
  /\ AuditedIsVerdict
  /\ LogsLose

-----------------------------------------------------------------------------
\* A nonempty set of positions of a sequence has a greatest member.
LEMMA Greatest ==
  ASSUME NEW n \in Nat, NEW S \in SUBSET (1 .. n), S # {}
  PROVE  \E i \in S : \A k \in S : k <= i
<1> DEFINE T == {m \in Nat : n - m \in S}
           R == {ss \in Nat \X Nat : ss[1] < ss[2]}
<1>1. T \subseteq Nat /\ T # {}
  <2>1. PICK x \in S : TRUE
    OBVIOUS
  <2>2. n - x \in Nat /\ n - (n - x) = x
    BY <2>1
  <2> QED
    BY <2>1, <2>2
<1>2. \A x, y \in Nat : x < y => <<x, y>> \in R
  OBVIOUS
<1>3. IsWellFoundedOn(R, Nat)
  BY NatLessThanWellFounded DEF OpToRel
<1> HIDE DEF R
<1>4. PICK m \in T : \A y \in T : ~ (<<y, m>> \in R)
  BY <1>1, <1>3, WFMin
<1>5. ASSUME NEW k \in S PROVE k <= n - m
  <2>1. n - k \in Nat /\ n - (n - k) = k
    OBVIOUS
  <2>2. ~ (n - k < m)
    BY <1>2, <1>4, <2>1
  <2> QED
    BY <2>1, <2>2
<1> QED
  BY <1>4, <1>5

\* So a deployment that has something to undo has a latest step to undo.
LEMMA LatestIsCompleted ==
  ASSUME TypeOK, NEW r \in Run, Completed(r) # {}
  PROVE  /\ Latest(r) \in Completed(r) /\ \A k \in Completed(r) : k <= Latest(r)
         /\ Latest(r) \in Steps(r) /\ run[r].steps[Latest(r)] \in Step
         /\ run[r].steps[Latest(r)].status = "success" /\ ~run[r].steps[Latest(r)].stuck
<1>1. run[r].steps \in Seq(Step) /\ Len(run[r].steps) \in Nat
  BY DEF TypeOK, RunState
<1>2. Completed(r) \in SUBSET (1 .. Len(run[r].steps))
  BY DEF Completed
<1>3. \E i \in Completed(r) : \A k \in Completed(r) : k <= i
  BY <1>1, <1>2, Greatest
<1>4. Latest(r) \in Completed(r) /\ \A k \in Completed(r) : k <= Latest(r)
  BY <1>3 DEF Latest
<1> QED
  BY <1>1, <1>4 DEF Completed, Steps

\* The channels in the order of the walk.
LEMMA ChannelIsTarget ==
  ASSUME TypeOK, NEW r \in Run, Walking(r)
  PROVE  /\ Channel(r) \in Target /\ run[r].next \in 1 .. Len(Order)
         /\ run[r].next + 1 \in 1 .. Len(Order) + 1 /\ Len(Order) \in Nat
<1>1. Len(Order) \in Nat
  BY OrderAssumption
<1>2. run[r].next \in 1 .. Len(Order) + 1
  BY DEF TypeOK, RunState
<1> QED
  BY <1>1, <1>2 DEF Walking, Channel, Target

Recorded(r, status) == [target |-> Channel(r), status |-> status, stuck |-> FALSE]
LEMMA RecordSteps ==
  ASSUME TypeOK, NEW r \in Run, Walking(r), NEW status \in StepStatus
  PROVE  /\ Record(r, status) \in Seq(Step)
         /\ Len(Record(r, status)) = Len(run[r].steps) + 1
         /\ \A i \in Steps(r) : Record(r, status)[i] = run[r].steps[i]
         /\ Record(r, status)[Len(run[r].steps) + 1] = Recorded(r, status)
<1>1. run[r].steps \in Seq(Step)
  BY DEF TypeOK, RunState
<1>2. Recorded(r, status) \in Step
  BY ChannelIsTarget DEF Step, Recorded
<1>3. Record(r, status) = Append(run[r].steps, Recorded(r, status))
  BY DEF Record, Recorded
<1> QED
  BY <1>1, <1>2, <1>3 DEF Steps

-----------------------------------------------------------------------------
\* What the rollback of a deployment does to its steps: the latest completed
\* one becomes s, and s is no longer completed.
LEMMA TakenUp ==
  ASSUME TypeOK, NEW r \in Run, Undoing(r), RollsBack(r) \/ RollbackThrows(r)
  PROVE  LET i == Latest(r) IN
         /\ run' = [run EXCEPT ![r] = [@ EXCEPT !.steps = run'[r].steps]]
         /\ run'[r].steps \in Seq(Step)
         /\ Len(run'[r].steps) = Len(run[r].steps)
         /\ \A k \in Steps(r) : k # i => run'[r].steps[k] = run[r].steps[k]
         /\ run'[r].steps[i].target = run[r].steps[i].target
         /\ \/ RollsBack(r) /\ run'[r].steps[i].status = "rolled_back" /\ ~run'[r].steps[i].stuck
            \/ RollbackThrows(r) /\ run'[r].steps[i].status = "success" /\ run'[r].steps[i].stuck
<1> DEFINE i == Latest(r)
           old == run[r].steps
<1>1. run \in [Run -> RunState] /\ run[r] \in RunState /\ old \in Seq(Step)
  BY DEF TypeOK, RunState
<1>2. i \in 1 .. Len(old) /\ old[i] \in Step /\ old[i].status = "success" /\ ~old[i].stuck
  BY LatestIsCompleted DEF Undoing, Steps
<1> HIDE DEF i
<1>3. CASE RollsBack(r)
  <2> DEFINE new == [old EXCEPT ![i] = [@ EXCEPT !.status = "rolled_back"]]
  <2>1. run' = [run EXCEPT ![r] = [@ EXCEPT !.steps = new]]
    BY <1>3 DEF RollsBack, i
  <2>2. new[i] = [old[i] EXCEPT !.status = "rolled_back"] /\ new[i] \in Step
    BY <1>1, <1>2 DEF Step, StepStatus
  <2>3. new \in Seq(Step) /\ Len(new) = Len(old)
    BY <1>1, <1>2, <2>2, ExceptSeq
  <2>4. run'[r].steps = new
    BY <1>1, <2>1 DEF RunState
  <2>5. \A k \in Steps(r) : k # i => new[k] = old[k]
    BY <1>1 DEF Steps
  <2>6. new[i].status = "rolled_back" /\ ~new[i].stuck /\ new[i].target = old[i].target
    BY <1>2, <2>2 DEF Step
  <2> HIDE DEF new
  <2> QED
    BY <1>3, <2>1, <2>3, <2>4, <2>5, <2>6 DEF i
<1>4. CASE RollbackThrows(r)
  <2> DEFINE new == [old EXCEPT ![i] = [@ EXCEPT !.stuck = TRUE]]
  <2>1. run' = [run EXCEPT ![r] = [@ EXCEPT !.steps = new]]
    BY <1>4 DEF RollbackThrows, i
  <2>2. new[i] = [old[i] EXCEPT !.stuck = TRUE] /\ new[i] \in Step
    <3>1. new[i] = [old[i] EXCEPT !.stuck = TRUE]
      BY <1>1, <1>2
    <3>2. [old[i] EXCEPT !.stuck = TRUE] \in Step
      BY <1>2, Zenon DEF Step
    <3> QED
      BY <3>1, <3>2
  <2>3. new \in Seq(Step) /\ Len(new) = Len(old)
    BY <1>1, <1>2, <2>2, ExceptSeq
  <2>4. run'[r].steps = new
    BY <1>1, <2>1 DEF RunState
  <2>5. \A k \in Steps(r) : k # i => new[k] = old[k]
    BY <1>1 DEF Steps
  <2>6. new[i].status = "success" /\ new[i].stuck /\ new[i].target = old[i].target
    BY <1>2, <2>2 DEF Step
  <2> HIDE DEF new
  <2> QED
    BY <1>4, <2>1, <2>3, <2>4, <2>5, <2>6 DEF i
<1> QED
  BY <1>3, <1>4

\* What a step does to the deployments: only the one that takes it changes, and
\* of that one either the program counter alone, or what it read of the log, or
\* its steps by one record, or one of its steps that is taken up.
Moves(r) ==
  /\ run'[r].steps = run[r].steps /\ run'[r].next = run[r].next
  /\ run'[r].base = run[r].base /\ run'[r].since = run[r].since
MovesOn(r) ==
  /\ Moves(r)
  /\ \/ Begin(r) /\ run'[r].pc \in {"fetch", "forced", "skipped"}
     \/ FetchFails(r) /\ run'[r].pc = "skipped"
     \/ WalkEnds(r) /\ run'[r].pc = "save"
     \/ UndoEnds(r) /\ run'[r].pc = "save"
     \/ PersistDeployLog(r) /\ run'[r].pc = "audit"
     \/ Audit(r) /\ run'[r].pc = "notify"
     \/ Notify(r) /\ run'[r].pc = "ended"
     \/ /\ SideCallFails(r)
        /\ run'[r].pc \in {"audit", "rejected", "ended"}
        /\ run'[r].pc = "audit" => At(r, "save")
Reads(r) ==
  /\ run[r].pc \in {"fetch", "forced"} /\ run'[r].pc \in {"walk", "skipped"}
  /\ run'[r].steps = run[r].steps /\ run'[r].next = run[r].next
  /\ run'[r].base = log /\ run'[r].since = Len(saves)
Records(r, status) ==
  /\ Walking(r) /\ Len(run[r].steps) = run[r].next - 1
  /\ run'[r].steps = Record(r, status)
  /\ run'[r].base = run[r].base /\ run'[r].since = run[r].since
TakesUp(r) ==
  LET i == Latest(r) IN
  /\ Undoing(r) /\ run'[r].pc = "undo"
  /\ Len(run'[r].steps) = Len(run[r].steps)
  /\ \A k \in Steps(r) : k # i => run'[r].steps[k] = run[r].steps[k]
  /\ run'[r].steps[i].target = run[r].steps[i].target
  /\ \/ RollsBack(r) /\ run'[r].steps[i].status = "rolled_back" /\ ~run'[r].steps[i].stuck
     \/ RollbackThrows(r) /\ run'[r].steps[i].status = "success" /\ run'[r].steps[i].stuck
  /\ run'[r].base = run[r].base /\ run'[r].since = run[r].since

RunChange(r) ==
  /\ run' \in [Run -> RunState]
  /\ \A q \in Run : q # r => run'[q] = run[q]
  /\ \/ MovesOn(r)
     \/ Reads(r) /\ Fetch(r)
     \/ Skips(r) /\ Records(r, "skipped") /\ run'[r].pc = "walk" /\ run'[r].next = run[r].next + 1
     \/ Succeeds(r) /\ Records(r, "success") /\ run'[r].pc = "walk" /\ run'[r].next = run[r].next + 1
     \/ Throws(r) /\ Records(r, "failed") /\ run'[r].pc = "undo"
     \/ TakesUp(r)

LEMMA RunEffect ==
  ASSUME IInv, NEW r \in Run, Begin(r) \/ RunStep(r)
  PROVE  RunChange(r)
<1> USE DEF RunChange
<1> DEFINE Goes(pc) == /\ run' \in [Run -> RunState]
                       /\ \A q \in Run : q # r => run'[q] = run[q]
                       /\ Moves(r) /\ run'[r].pc = pc
           Frame == /\ run' \in [Run -> RunState]
                    /\ \A q \in Run : q # r => run'[q] = run[q]
<1>0. run \in [Run -> RunState] /\ run[r] \in RunState
  BY DEF IInv, TypeOK
<1>1. ASSUME NEW pc \in {"fetch", "forced", "skipped", "save", "audit", "notify", "ended", "rejected"}, Goto(r, pc)
      PROVE  Goes(pc)
  BY <1>0, <1>1 DEF Goto, RunState, Moves
<1>2. CASE Begin(r)
  BY <1>1, <1>2 DEF Begin, MovesOn
<1>3. CASE FetchFails(r) \/ WalkEnds(r) \/ UndoEnds(r)
  BY <1>1, <1>3 DEF FetchFails, WalkEnds, UndoEnds, MovesOn
<1>4. CASE PersistDeployLog(r) \/ Audit(r) \/ Notify(r)
  BY <1>1, <1>4 DEF PersistDeployLog, Audit, Notify, MovesOn
<1>5. CASE SideCallFails(r)
  <2>1. \E pc \in {"audit", "ended", "rejected"} : Goto(r, pc) /\ (pc = "audit" => At(r, "save"))
    BY <1>5 DEF SideCallFails, At
  <2> QED
    BY <1>1, <1>5, <2>1 DEF MovesOn
<1>6. CASE Fetch(r)
  <2>1. PICK pc \in {"walk", "skipped"} :
          run' = [run EXCEPT ![r] = [@ EXCEPT !.pc = pc, !.base = log, !.since = Len(saves)]]
    BY <1>6 DEF Fetch
  <2>2. log \in Seq(Entry) /\ Len(saves) \in Nat
    BY DEF IInv, TypeOK
  <2>3. Frame /\ run'[r] = [run[r] EXCEPT !.pc = pc, !.base = log, !.since = Len(saves)]
    BY <1>0, <2>1, <2>2 DEF RunState
  <2>4. Reads(r)
    BY <1>0, <1>6, <2>3 DEF Reads, Fetch, RunState
  <2> QED
    BY <1>6, <2>3, <2>4
<1>7. ASSUME NEW status \in StepStatus, Walking(r), Advance(r, status)
      PROVE  Frame /\ Records(r, status) /\ run'[r].pc = "walk" /\ run'[r].next = run[r].next + 1
  <2>1. Len(run[r].steps) = run[r].next - 1
    BY <1>7 DEF IInv, WalkIsClean, Walking
  <2>2. Record(r, status) \in Seq(Step) /\ run[r].next + 1 \in 1 .. Len(Order) + 1
    BY <1>7, RecordSteps, ChannelIsTarget DEF IInv
  <2>3. Frame /\ run'[r] = [run[r] EXCEPT !.steps = Record(r, status), !.next = run[r].next + 1]
    <3> DEFINE x == [run[r] EXCEPT !.steps = Record(r, status), !.next = run[r].next + 1]
    <3>1. run' = [run EXCEPT ![r] = x]
      BY <1>7 DEF Advance
    <3>2. x \in RunState
      BY <1>0, <2>2 DEF RunState
    <3> HIDE DEF x
    <3>3. Frame /\ run'[r] = x
      BY <1>0, <3>1, <3>2
    <3> QED
      BY <3>3 DEF x
  <2> QED
    BY <1>0, <1>7, <2>1, <2>3 DEF Records, Walking, At, RunState
<1>8. CASE Skips(r)
  BY <1>7, <1>8 DEF Skips, StepStatus
<1>9. CASE Succeeds(r)
  BY <1>7, <1>9 DEF Succeeds, StepStatus
<1>10. CASE Throws(r)
  <2>1. Walking(r) /\ Len(run[r].steps) = run[r].next - 1
    BY <1>10 DEF IInv, WalkIsClean, Walking, Throws
  <2>2. Record(r, "failed") \in Seq(Step)
    BY <2>1, RecordSteps DEF IInv, StepStatus
  <2>3. Frame /\ run'[r] = [run[r] EXCEPT !.pc = "undo", !.steps = Record(r, "failed")]
    BY <1>0, <1>10, <2>2 DEF Throws, RunState
  <2>4. Records(r, "failed") /\ run'[r].pc = "undo"
    BY <1>0, <2>1, <2>3 DEF Records, RunState
  <2> QED
    BY <1>10, <2>3, <2>4
<1>11. CASE RollsBack(r) \/ RollbackThrows(r)
  <2>1. TypeOK /\ Undoing(r)
    BY <1>11 DEF IInv, RollsBack, RollbackThrows
  <2> DEFINE new == run'[r].steps
  <2>2. new \in Seq(Step) /\ run' = [run EXCEPT ![r] = [@ EXCEPT !.steps = new]]
    BY <1>11, <2>1, TakenUp
  <2>3. Frame /\ run'[r] = [run[r] EXCEPT !.steps = new]
    <3> HIDE DEF new
    <3> QED
      BY <1>0, <2>2 DEF RunState
  <2>4. run'[r].base = run[r].base /\ run'[r].since = run[r].since /\ run'[r].pc = "undo"
    BY <1>0, <2>1, <2>3 DEF Undoing, At, RunState
  <2>5. TakesUp(r)
    BY <1>11, <2>1, <2>4, TakenUp DEF TakesUp
  <2> QED
    BY <2>3, <2>5
<1> QED
  BY <1>2, <1>3, <1>4, <1>5, <1>6, <1>8, <1>9, <1>10, <1>11 DEF RunStep, Begin

\* The steps of a deployment after it recorded one more.
LEMMA RecordEffect ==
  ASSUME TypeOK, NEW r \in Run, NEW status \in StepStatus, Records(r, status)
  PROVE  /\ run[r].next \in 1 .. Len(Order) /\ Len(Order) \in Nat
         /\ Len(run[r].steps) = run[r].next - 1
         /\ Len(run'[r].steps) = run[r].next
         /\ \A i \in Steps(r) : run'[r].steps[i] = run[r].steps[i]
         /\ run'[r].steps[run[r].next] = Recorded(r, status)
<1>1. Walking(r) /\ Len(run[r].steps) = run[r].next - 1 /\ run'[r].steps = Record(r, status)
  BY DEF Records
<1>2. run[r].next \in 1 .. Len(Order) /\ Len(Order) \in Nat
  BY <1>1, ChannelIsTarget
<1>3. /\ Len(Record(r, status)) = Len(run[r].steps) + 1
      /\ \A i \in Steps(r) : Record(r, status)[i] = run[r].steps[i]
      /\ Record(r, status)[Len(run[r].steps) + 1] = Recorded(r, status)
  BY <1>1, RecordSteps
<1>4. Len(run[r].steps) + 1 = run[r].next
  BY <1>1, <1>2
<1> QED
  BY <1>1, <1>2, <1>3, <1>4

\* What a step does to the variables that the deployments share.
SharedChange(r) ==
  /\ package' = package
  /\ \/ log' = log /\ saves' = saves
     \/ /\ PersistDeployLog(r)
        /\ saves' = Append(saves, r)
        /\ log' = Append(run[r].base, [run |-> r, steps |-> run[r].steps])
  /\ \/ audited' = audited
     \/ Audit(r) /\ audited' = audited \cup {<<r, OverallStatus(r)>>}
  /\ \/ changed' = changed
     \/ (Succeeds(r) \/ Throws(r)) /\ changed' = changed \cup {<<r, Channel(r)>>}
     \/ RollsBack(r) /\ changed' = changed \ {<<r, run[r].steps[Latest(r)].target>>}

LEMMA SharedEffect ==
  ASSUME NEW r \in Run, Begin(r) \/ RunStep(r)
  PROVE  SharedChange(r)
BY DEF SharedChange, Begin, RunStep, Fetch, FetchFails, Skips, Succeeds, Throws, WalkEnds, RollsBack,
   RollbackThrows, UndoEnds, PersistDeployLog, SideCallFails, Audit, Notify

\* The types are preserved: what a deployment records stays within its Order.
LEMMA TypeStep ==
  ASSUME IInv, NEW r \in Run, Begin(r) \/ RunStep(r)
  PROVE  TypeOK'
<1>e. RunChange(r) /\ SharedChange(r)
  BY RunEffect, SharedEffect
<1>0. /\ TypeOK /\ run' \in [Run -> RunState] /\ run[r] \in RunState /\ run'[r] \in RunState
      /\ log \in Seq(Entry) /\ saves \in Seq(Run) /\ Len(saves) \in Nat
      /\ run[r].base \in Seq(Entry) /\ run[r].steps \in Seq(Step)
  <2>1. TypeOK /\ run' \in [Run -> RunState]
    BY <1>e DEF IInv, RunChange
  <2>2. run[r] \in RunState /\ run'[r] \in RunState /\ log \in Seq(Entry) /\ saves \in Seq(Run)
    BY <2>1 DEF TypeOK
  <2> QED
    BY <2>1, <2>2 DEF RunState
<1>1. Len(run'[r].steps) <= Len(Order)
  <2>1. ASSUME NEW status \in StepStatus, Records(r, status)
        PROVE  Len(run'[r].steps) <= Len(Order)
    <3>1. run[r].next \in 1 .. Len(Order) /\ Len(Order) \in Nat /\ Len(run'[r].steps) = run[r].next
      BY <1>0, <2>1, RecordEffect
    <3> QED
      BY <3>1
  <2>2. Len(run[r].steps) <= Len(Order)
    BY <1>0 DEF TypeOK
  <2> QED
    BY <2>1, <2>2, <1>e DEF RunChange, MovesOn, Moves, Reads, TakesUp, StepStatus
<1>2. /\ saves' \in Seq(Run) /\ log' \in Seq(Entry)
      /\ Len(saves') \in Nat /\ Len(saves) <= Len(saves')
  <2>1. [run |-> r, steps |-> run[r].steps] \in Entry
    BY <1>0 DEF Entry
  <2>2. CASE log' = log /\ saves' = saves
    BY <1>0, <2>2
  <2>3. CASE /\ saves' = Append(saves, r)
             /\ log' = Append(run[r].base, [run |-> r, steps |-> run[r].steps])
    BY <1>0, <2>1, <2>3
  <2> QED
    BY <1>e, <2>2, <2>3 DEF SharedChange
<1>3. run'[r].since <= Len(saves')
  <2>1. run'[r].since <= Len(saves)
    BY <1>0, <1>e DEF RunChange, TypeOK, MovesOn, Moves, Reads, Records, TakesUp
  <2> QED
    BY <1>0, <1>2, <2>1 DEF RunState
<1>4. \A q \in Run : Len(run'[q].steps) <= Len(Order) /\ run'[q].since <= Len(saves')
  <2> TAKE q \in Run
  <2>1. CASE q = r
    BY <1>1, <1>3, <2>1
  <2>2. CASE q # r
    <3>1. run[q].since \in Nat /\ run[q].since <= Len(saves) /\ Len(run[q].steps) <= Len(Order)
      BY <1>0 DEF TypeOK, RunState
    <3> QED
      BY <1>0, <1>2, <2>2, <3>1, <1>e DEF RunChange
  <2> QED
    BY <2>1, <2>2
<1>5. package' = package /\ changed' \subseteq Run \X Target
  <2>1. (Succeeds(r) \/ Throws(r)) => Channel(r) \in Target
    BY <1>0, ChannelIsTarget DEF Succeeds, Throws
  <2> QED
    BY <1>0, <2>1, <1>e DEF SharedChange, TypeOK
<1>6. audited' \subseteq Run \X Verdicts
  <2>1. OverallStatus(r) \in Verdicts
    BY DEF OverallStatus, Verdicts
  <2> QED
    BY <1>0, <2>1, <1>e DEF SharedChange, TypeOK
<1> QED
  BY <1>0, <1>2, <1>4, <1>5, <1>6 DEF TypeOK

-----------------------------------------------------------------------------
\* A deployment's walk: a step of r keeps WalkIsClean, for r by the kind of
\* the step, for the others because they do not move.
LEMMA WalkStep ==
  ASSUME IInv, NEW r \in Run, Begin(r) \/ RunStep(r), NEW q \in Run
  PROVE  WalkIsClean(q)'
<1> USE DEF WalkIsClean, At, Over, Has, Completed, Clean, Steps
<1>e. RunChange(r)
  BY RunEffect
<1>0. WalkIsClean(q) /\ TypeOK /\ TypeOK'
  BY TypeStep DEF IInv
<1>1. CASE q # r
  BY <1>0, <1>1, <1>e DEF RunChange
<1>2. CASE q = r
  <2>1. CASE MovesOn(r)
    <3>1. /\ run'[r].steps = run[r].steps /\ run'[r].next = run[r].next
          /\ Has(r, "failed")' = Has(r, "failed")
          /\ Completed(r)' = Completed(r)
          /\ Clean(r)' = Clean(r)
      BY <2>1 DEF MovesOn, Moves
    <3> HIDE DEF Has, Completed, Clean
    <3>0. WalkEnds(r) \/ UndoEnds(r) => run'[r].pc = "save"
      <4>1. run \in [Run -> RunState] /\ (WalkEnds(r) \/ UndoEnds(r) => run' = [run EXCEPT ![r].pc = "save"])
        BY <1>0 DEF TypeOK, WalkEnds, UndoEnds, Goto
      <4> QED
        BY <4>1 DEF RunState
    <3>2. CASE Begin(r) \/ FetchFails(r)
      BY <1>0, <1>2, <2>1, <3>1, <3>2 DEF MovesOn, Begin, FetchFails, WalkEnds, UndoEnds,
         PersistDeployLog, Audit, Notify, SideCallFails
    <3>3. CASE WalkEnds(r)
      <4>1. Clean(r) /\ ~Has(r, "failed")
        BY <1>0, <1>2, <3>3 DEF WalkEnds, Clean, Has
      <4> QED
        BY <1>2, <3>0, <3>1, <3>3, <4>1
    <3>4. CASE UndoEnds(r)
      <4>1. Completed(r) = {} /\ Has(r, "failed")
        BY <1>0, <1>2, <3>4 DEF UndoEnds
      <4> QED
        BY <1>2, <3>0, <3>1, <3>4, <4>1
    <3>5. CASE Over(r) /\ Over(r)'
      BY <1>0, <1>2, <3>1, <3>5
    <3> QED
      BY <2>1, <3>2, <3>3, <3>4, <3>5 DEF MovesOn, PersistDeployLog, Audit, Notify, SideCallFails
  <2>2. CASE Reads(r)
    BY <1>0, <1>2, <2>2 DEF Reads
  <2>3. ASSUME NEW status \in {"skipped", "success"}, Records(r, status), run'[r].pc = "walk",
               run'[r].next = run[r].next + 1
        PROVE  WalkIsClean(r)'
    <3>1. /\ run[r].next \in 1 .. Len(Order) /\ Len(run'[r].steps) = run[r].next
          /\ \A i \in Steps(r) : run'[r].steps[i] = run[r].steps[i]
          /\ run'[r].steps[run[r].next] = Recorded(r, status)
      BY <1>0, <2>3, RecordEffect DEF StepStatus
    <3>2. Clean(r) /\ Len(run[r].steps) = run[r].next - 1
      BY <1>0, <1>2, <2>3 DEF Records, Walking
    <3>3. \A i \in Steps(r)' : i \in Steps(r) \/ i = run[r].next
      BY <3>1, <3>2
    <3>4. Recorded(r, status).status = status /\ ~Recorded(r, status).stuck
      BY DEF Recorded
    <3>5. Clean(r)'
      BY <2>3, <3>1, <3>2, <3>3, <3>4
    <3> QED
      BY <1>2, <2>3, <3>1, <3>5
  <2>4. CASE Records(r, "failed") /\ run'[r].pc = "undo"
    <3>1. /\ Len(run'[r].steps) = run[r].next /\ run[r].next \in 1 .. Len(Order)
          /\ run'[r].steps[run[r].next] = Recorded(r, "failed")
      BY <1>0, <2>4, RecordEffect DEF StepStatus
    <3>2. Has(r, "failed")'
      BY <3>1 DEF Recorded
    <3> QED
      BY <1>2, <2>4, <3>2
  <2>5. CASE TakesUp(r)
    <3>1. run[r].steps[Latest(r)].status = "success" /\ Has(r, "failed")
      BY <1>0, <1>2, <2>5, LatestIsCompleted DEF TakesUp, Undoing
    <3>2. PICK k \in Steps(r) : run[r].steps[k].status = "failed"
      BY <3>1
    <3>3. k \in Steps(r)' /\ run'[r].steps[k].status = "failed"
      BY <2>5, <3>1, <3>2 DEF TakesUp
    <3>4. Has(r, "failed")' /\ run'[r].pc = "undo"
      BY <2>5, <3>3 DEF TakesUp
    <3> QED
      BY <1>2, <3>4
  <2> QED
    BY <1>2, <2>1, <2>2, <2>3, <2>4, <2>5, <1>e DEF RunChange
<1> QED
  BY <1>1, <1>2

\* What is live in a channel stays explained by a step: a step that goes live
\* or fails is recorded, and one that is rolled back takes its change along.
LEMMA ChangedStep ==
  ASSUME IInv, NEW r \in Run, Begin(r) \/ RunStep(r)
  PROVE  ChangedIsAStep'
<1>e. RunChange(r) /\ SharedChange(r)
  BY RunEffect, SharedEffect
<1>0. TypeOK /\ ChangedIsAStep
  BY DEF IInv
<1> SUFFICES ASSUME NEW q \in Run, NEW t \in Target, <<q, t>> \in changed'
             PROVE  \E i \in Steps(q)' : run'[q].steps[i].target = t /\ run'[q].steps[i].status \in {"success", "failed"}
  BY DEF ChangedIsAStep
<1>1. CASE q # r
  <2>1. <<q, t>> \in changed
    BY <1>e, <1>1 DEF SharedChange
  <2> QED
    BY <1>e, <1>0, <1>1, <2>1 DEF ChangedIsAStep, RunChange, Steps
<1>2. CASE q = r
  <2>1. ASSUME NEW status \in {"skipped", "success", "failed"}, Records(r, status),
               (Skips(r) /\ status = "skipped") \/ (Succeeds(r) /\ status = "success") \/ (Throws(r) /\ status = "failed")
        PROVE  \E i \in Steps(r)' : run'[r].steps[i].target = t /\ run'[r].steps[i].status \in {"success", "failed"}
    <3>1. /\ run[r].next \in 1 .. Len(Order) /\ Len(run'[r].steps) = run[r].next
          /\ Len(run[r].steps) = run[r].next - 1
          /\ \A i \in Steps(r) : run'[r].steps[i] = run[r].steps[i]
          /\ run'[r].steps[run[r].next] = Recorded(r, status)
      BY <1>0, <2>1, RecordEffect DEF StepStatus
    <3>2. CASE <<q, t>> \in changed
      <4>1. PICK i \in Steps(r) : run[r].steps[i].target = t /\ run[r].steps[i].status \in {"success", "failed"}
        BY <1>0, <1>2, <3>2 DEF ChangedIsAStep
      <4>2. i \in Steps(r)' /\ run'[r].steps[i] = run[r].steps[i]
        BY <3>1 DEF Steps
      <4> QED
        BY <4>1, <4>2
    <3>3. CASE <<q, t>> \notin changed
      <4>1. t = Channel(r) /\ status # "skipped"
        BY <2>1, <3>3 DEF Skips, Succeeds, Throws
      <4>2. run[r].next \in Steps(r)'
        BY <3>1 DEF Steps
      <4>3. Recorded(r, status).target = t /\ Recorded(r, status).status \in {"success", "failed"}
        BY <2>1, <4>1 DEF Recorded
      <4> QED
        BY <3>1, <4>2, <4>3
    <3> QED
      BY <3>2, <3>3
  <2>2. CASE TakesUp(r)
    <3>1. /\ Latest(r) \in Steps(r) /\ Completed(r) # {}
          /\ \A k \in Completed(r) : k <= Latest(r)
      BY <1>0, <2>2, LatestIsCompleted DEF TakesUp, Undoing
    <3>2. <<r, t>> \in changed /\ (RollsBack(r) => t # run[r].steps[Latest(r)].target)
      <4>1. CASE RollsBack(r)
        BY <1>2, <4>1 DEF RollsBack
      <4>2. CASE ~RollsBack(r)
        <5>1. RollbackThrows(r)
          BY <2>2, <4>2 DEF TakesUp
        <5> QED
          BY <1>2, <4>2, <5>1 DEF RollbackThrows
      <4> QED
        BY <4>1, <4>2
    <3>3. PICK i \in Steps(r) : run[r].steps[i].target = t /\ run[r].steps[i].status \in {"success", "failed"}
      BY <1>0, <3>2 DEF ChangedIsAStep
    <3>4. i \in Steps(r)'
      BY <2>2 DEF TakesUp, Steps
    <3>5. run'[r].steps[i].target = t /\ run'[r].steps[i].status \in {"success", "failed"}
      <4>1. CASE i # Latest(r)
        BY <2>2, <3>3, <4>1 DEF TakesUp
      <4>2. CASE i = Latest(r)
        BY <2>2, <3>2, <3>3, <4>2 DEF TakesUp
      <4> QED
        BY <4>1, <4>2
    <3> QED
      BY <1>2, <3>4, <3>5
  <2>3. CASE (MovesOn(r) \/ Reads(r)) /\ changed' = changed
    BY <1>0, <1>2, <2>3 DEF MovesOn, Moves, Reads, ChangedIsAStep, Steps
  <2>4. (MovesOn(r) \/ (Reads(r) /\ Fetch(r))) => changed' = changed
    BY DEF MovesOn, Begin, FetchFails, WalkEnds, UndoEnds, PersistDeployLog, Audit, Notify, SideCallFails, Fetch
  <2> QED
    BY <1>e, <1>2, <2>1, <2>2, <2>3, <2>4 DEF RunChange
<1> QED
  BY <1>1, <1>2

\* Who is final stays so, with the same steps.
LEMMA FinalStays ==
  ASSUME IInv, NEW r \in Run, Begin(r) \/ RunStep(r), NEW q \in Run, Final(q)
  PROVE  Final(q)' /\ run'[q].steps = run[q].steps /\ run'[q].since = run[q].since
<1>e. RunChange(r)
  BY RunEffect
<1>1. CASE q # r
  BY <1>e, <1>1 DEF RunChange, Final
<1>2. CASE q = r
  <2>1. MovesOn(r)
    BY <1>e, <1>2 DEF RunChange, Reads, Records, TakesUp, Undoing, Walking, At, Final, FinalPc
  <2> QED
    BY <1>2, <2>1 DEF MovesOn, Moves, Final, FinalPc, Begin, FetchFails, WalkEnds, UndoEnds, At, Audit, Notify
<1> QED
  BY <1>1, <1>2

\* Logs stay settled: the one that was read, the one that is appended to it.
LEMMA LogsStep ==
  ASSUME IInv, NEW r \in Run, Begin(r) \/ RunStep(r)
  PROVE  LogsAreSettled'
<1>e. RunChange(r) /\ SharedChange(r)
  BY RunEffect, SharedEffect
<1>0. LogsAreSettled /\ TypeOK /\ run[r] \in RunState /\ log \in Seq(Entry) /\ saves \in Seq(Run)
  BY DEF IInv, TypeOK
<1>1. ASSUME NEW entries \in Seq(Entry), Settled(entries)
      PROVE  \A i \in 1 .. Len(entries) : run'[entries[i].run].pc \in FinalPc /\ entries[i].steps = run'[entries[i].run].steps
  <2> TAKE i \in 1 .. Len(entries)
  <2>1. entries[i].run \in Run
    <3>1. entries[i] \in Entry
      OBVIOUS
    <3> QED
      BY <3>1 DEF Entry
  <2>2. Final(entries[i].run) /\ entries[i].steps = run[entries[i].run].steps
    BY <1>1 DEF Settled
  <2> QED
    BY <2>1, <2>2, FinalStays DEF Final
<1>2. PersistDeployLog(r) => run'[r].pc \in FinalPc /\ run'[r].steps = run[r].steps
  BY <1>e DEF RunChange, MovesOn, Moves, FinalPc, PersistDeployLog, At, Begin, FetchFails, WalkEnds, UndoEnds,
     Audit, Notify, Reads, Records, Walking, TakesUp, Undoing
<1>3. Settled(log)'
  <2>1. CASE log' = log
    BY <1>0, <1>1, <2>1 DEF Settled, LogsAreSettled, Final
  <2>2. CASE PersistDeployLog(r) /\ log' = Append(run[r].base, [run |-> r, steps |-> run[r].steps])
    <3>1. run[r].base \in Seq(Entry) /\ Settled(run[r].base)
      BY <1>0 DEF RunState, LogsAreSettled
    <3>2. ASSUME NEW i \in 1 .. Len(log')
          PROVE  run'[log'[i].run].pc \in FinalPc /\ log'[i].steps = run'[log'[i].run].steps
      <4>1. CASE i \in 1 .. Len(run[r].base)
        <5>1. log'[i] = run[r].base[i]
          BY <2>2, <3>1, <4>1
        <5> QED
          BY <1>1, <3>1, <4>1, <5>1
      <4>2. CASE i \notin 1 .. Len(run[r].base)
        <5>1. log'[i] = [run |-> r, steps |-> run[r].steps]
          BY <2>2, <3>1, <4>2
        <5> QED
          BY <1>2, <2>2, <5>1
      <4> QED
        BY <4>1, <4>2
    <3> QED
      BY <3>2 DEF Settled, Final
  <2> QED
    BY <1>e, <2>1, <2>2 DEF SharedChange
<1>4. ASSUME NEW q \in Run
      PROVE  Settled(run[q].base)'
  <2>1. run[q].base \in Seq(Entry) /\ Settled(run[q].base)
    BY <1>0 DEF TypeOK, RunState, LogsAreSettled
  <2>2. CASE run'[q].base = run[q].base
    <3> DEFINE base == run[q].base
    <3>1. \A i \in 1 .. Len(base) : run'[base[i].run].pc \in FinalPc /\ base[i].steps = run'[base[i].run].steps
      BY <1>1, <2>1
    <3> QED
      BY <2>2, <3>1 DEF Settled, Final
  <2>3. CASE run'[q].base = log
    BY <1>0, <1>1, <2>3 DEF Settled, LogsAreSettled, Final
  <2> QED
    BY <1>e, <2>2, <2>3 DEF RunChange, MovesOn, Moves, Reads, Records, TakesUp
<1>5. \A m \in 1 .. Len(saves') : run'[saves'[m]].pc \in FinalPc
  <2>1. \A m \in 1 .. Len(saves) : saves[m] \in Run /\ run'[saves[m]].pc \in FinalPc
    BY <1>0, FinalStays DEF LogsAreSettled, Final
  <2>2. CASE saves' = saves
    BY <2>1, <2>2
  <2>3. CASE PersistDeployLog(r) /\ saves' = Append(saves, r)
    <3>1. \A m \in 1 .. Len(saves') : (m \in 1 .. Len(saves) /\ saves'[m] = saves[m]) \/ saves'[m] = r
      BY <1>0, <2>3
    <3> QED
      BY <1>2, <2>1, <2>3, <3>1
  <2> QED
    BY <1>e, <2>2, <2>3 DEF SharedChange
<1> QED
  BY <1>3, <1>4, <1>5 DEF LogsAreSettled, Final

\* The verdict that was audited stays the verdict.
LEMMA AuditedStep ==
  ASSUME IInv, NEW r \in Run, Begin(r) \/ RunStep(r)
  PROVE  AuditedIsVerdict'
<1>e. RunChange(r) /\ SharedChange(r)
  BY RunEffect, SharedEffect
<1>0. AuditedIsVerdict
  BY DEF IInv
<1> SUFFICES ASSUME NEW q \in Run, NEW v \in Verdicts, <<q, v>> \in audited'
             PROVE  run'[q].pc \in {"notify", "ended", "rejected"} /\ v = OverallStatus(q)'
  BY DEF AuditedIsVerdict
<1>1. CASE <<q, v>> \in audited
  <2>1. run[q].pc \in {"notify", "ended", "rejected"} /\ v = OverallStatus(q)
    BY <1>0, <1>1 DEF AuditedIsVerdict
  <2>2. run'[q].steps = run[q].steps
    BY <2>1, FinalStays DEF Final, FinalPc
  <2>3. OverallStatus(q)' = OverallStatus(q)
    BY <2>2 DEF OverallStatus, Has
  <2>4. CASE q # r
    BY <1>e, <2>1, <2>3, <2>4 DEF RunChange
  <2>5. CASE q = r
    <3>1. MovesOn(r)
      BY <1>e, <2>1, <2>5 DEF RunChange, Reads, Records, TakesUp, Undoing, Walking, At
    <3> QED
      BY <2>1, <2>3, <2>5, <3>1 DEF MovesOn, Begin, FetchFails, WalkEnds, UndoEnds, PersistDeployLog, At
  <2> QED
    BY <2>4, <2>5
<1>2. CASE <<q, v>> \notin audited
  <2>1. Audit(r) /\ q = r /\ v = OverallStatus(r)
    BY <1>e, <1>2 DEF SharedChange
  <2>2. At(r, "audit")
    BY <2>1 DEF Audit
  <2>3. run'[r].steps = run[r].steps
    BY <2>2, FinalStays DEF Final, FinalPc, At
  <2>4. OverallStatus(r)' = OverallStatus(r)
    BY <2>3 DEF OverallStatus, Has
  <2>5. run'[r].pc = "notify"
    <3>1. run \in [Run -> RunState] /\ run' = [run EXCEPT ![r].pc = "notify"]
      BY <2>1 DEF IInv, TypeOK, Audit, Goto
    <3> QED
      BY <3>1 DEF RunState
  <2> QED
    BY <2>1, <2>4, <2>5
<1> QED
  BY <1>1, <1>2

\* What a log lost stays lost to an overlapping save: a log that is read is the
\* current one, and one that is saved loses what was saved since it was read.
LEMMA LosesStep ==
  ASSUME IInv, NEW r \in Run, Begin(r) \/ RunStep(r)
  PROVE  LogsLose'
<1>e. RunChange(r) /\ SharedChange(r)
  BY RunEffect, SharedEffect
<1>0. /\ LogsLose /\ LogsAreSettled /\ TypeOK
      /\ log \in Seq(Entry) /\ saves \in Seq(Run) /\ Len(saves) \in Nat
      /\ run[r] \in RunState
  BY DEF IInv, TypeOK
<1>1. /\ \A m \in 1 .. Len(saves) : saves'[m] = saves[m] /\ run'[saves[m]].since = run[saves[m]].since
      /\ \A m \in 1 .. Len(saves) : saves[m] \in Run
      /\ Len(saves') \in Nat /\ Len(saves) <= Len(saves')
  <2>1. \A m \in 1 .. Len(saves) : saves[m] \in Run
    BY <1>0
  <2>2. \A m \in 1 .. Len(saves) : run'[saves[m]].since = run[saves[m]].since
    BY <1>0, <2>1, FinalStays DEF LogsAreSettled
  <2>3. \A m \in 1 .. Len(saves) : saves'[m] = saves[m]
    <3>1. saves' = saves \/ saves' = Append(saves, r)
      BY <1>e DEF SharedChange
    <3> QED
      BY <1>0, <3>1
  <2>4. Len(saves') \in Nat /\ Len(saves) <= Len(saves')
    BY <1>0, <1>e DEF SharedChange
  <2> QED
    BY <2>1, <2>2, <2>3, <2>4
<1>2. ASSUME NEW entries, NEW n \in Nat, n <= Len(saves), Loses(entries, n)
      PROVE  \A k \in 1 .. n :
               \/ \E i \in 1 .. Len(entries) : entries[i].run = saves'[k]
               \/ \E m \in k + 1 .. n : run'[saves'[m]].since < k
  <2> TAKE k \in 1 .. n
  <2>1. k \in 1 .. Len(saves) /\ \A m \in k + 1 .. n : m \in 1 .. Len(saves)
    BY <1>0, <1>2
  <2> QED
    BY <1>1, <1>2, <2>1 DEF Loses
<1>3. ASSUME NEW q \in Run
      PROVE  Loses(run[q].base, run[q].since)'
  <2>1. /\ run[q].since \in Nat /\ run[q].since <= Len(saves)
        /\ Loses(run[q].base, run[q].since) /\ Loses(log, Len(saves))
    BY <1>0 DEF TypeOK, RunState, LogsLose
  <2>2. CASE run'[q].base = run[q].base /\ run'[q].since = run[q].since
    <3> DEFINE base == run[q].base
               n == run[q].since
    <3>1. \A k \in 1 .. n :
            \/ \E i \in 1 .. Len(base) : base[i].run = saves'[k]
            \/ \E m \in k + 1 .. n : run'[saves'[m]].since < k
      BY <1>2, <2>1
    <3> QED
      BY <2>2, <3>1 DEF Loses
  <2>3. CASE run'[q].base = log /\ run'[q].since = Len(saves)
    <3>1. \A k \in 1 .. Len(saves) :
            \/ \E i \in 1 .. Len(log) : log[i].run = saves'[k]
            \/ \E m \in k + 1 .. Len(saves) : run'[saves'[m]].since < k
      <4>1. Len(saves) \in Nat /\ Len(saves) <= Len(saves) /\ Loses(log, Len(saves))
        BY <1>0, <2>1
      <4> QED
        BY <1>2, <4>1
    <3> QED
      BY <2>3, <3>1 DEF Loses
  <2> QED
    BY <1>e, <2>2, <2>3 DEF RunChange, MovesOn, Moves, Reads, Records, TakesUp
<1>4. Loses(log, Len(saves))'
  <2>1. CASE log' = log /\ saves' = saves
    <3>1. \A k \in 1 .. Len(saves) :
            \/ \E i \in 1 .. Len(log) : log[i].run = saves'[k]
            \/ \E m \in k + 1 .. Len(saves) : run'[saves'[m]].since < k
      <4>1. Len(saves) \in Nat /\ Len(saves) <= Len(saves) /\ Loses(log, Len(saves))
        BY <1>0 DEF LogsLose
      <4> QED
        BY <1>2, <4>1
    <3> QED
      BY <2>1, <3>1 DEF Loses
  <2>2. CASE /\ PersistDeployLog(r) /\ saves' = Append(saves, r)
             /\ log' = Append(run[r].base, [run |-> r, steps |-> run[r].steps])
    <3> DEFINE base == run[r].base
               n == run[r].since
               last == Len(saves) + 1
    <3>1. base \in Seq(Entry) /\ n \in Nat /\ n <= Len(saves) /\ Len(base) \in Nat
      BY <1>0 DEF TypeOK, RunState
    <3>2. /\ Len(log') = Len(base) + 1 /\ log'[Len(base) + 1].run = r
          /\ \A i \in 1 .. Len(base) : log'[i] = base[i]
      BY <2>2, <3>1
    <3>3. Len(saves') = last /\ saves'[last] = r /\ last \in Nat
      BY <1>0, <2>2
    <3>4. run'[r].since = n
      BY <1>e, <2>2 DEF RunChange, PersistDeployLog, At, Reads, MovesOn, Moves, Records, TakesUp
    <3>5. Loses(base, n)
      BY <1>0 DEF LogsLose
    <3>6. \A k \in 1 .. n :
            \/ \E i \in 1 .. Len(base) : base[i].run = saves'[k]
            \/ \E m \in k + 1 .. n : run'[saves'[m]].since < k
      BY <1>2, <3>1, <3>5
    <3>7. ASSUME NEW k \in 1 .. last
          PROVE  \/ \E i \in 1 .. Len(log') : log'[i].run = saves'[k]
                 \/ \E m \in k + 1 .. last : run'[saves'[m]].since < k
      <4> HIDE DEF base, n, last
      <4>1. CASE k = last
        BY <3>1, <3>2, <3>3, <4>1
      <4>2. CASE k # last /\ n < k
        <5>1. last \in k + 1 .. last /\ run'[saves'[last]].since < k
          BY <3>1, <3>3, <3>4, <4>2
        <5> QED
          BY <5>1
      <4>3. CASE k <= n
        <5>1. k \in 1 .. n
          BY <3>1, <3>3, <4>3
        <5>2. CASE \E i \in 1 .. Len(base) : base[i].run = saves'[k]
          BY <3>1, <3>2, <5>2
        <5>3. ASSUME NEW m \in k + 1 .. n, run'[saves'[m]].since < k
              PROVE  \E mm \in k + 1 .. last : run'[saves'[mm]].since < k
          <6>1. m \in k + 1 .. last
            BY <3>1, <3>3 DEF last
          <6> QED
            BY <5>3, <6>1
        <5> QED
          BY <3>6, <5>1, <5>2, <5>3
      <4> QED
        BY <3>1, <3>3, <4>1, <4>2, <4>3
    <3> QED
      BY <3>3, <3>7 DEF Loses
  <2> QED
    BY <1>e, <2>1, <2>2 DEF SharedChange
<1> QED
  BY <1>3, <1>4 DEF LogsLose

-----------------------------------------------------------------------------
\* The inductive invariant holds initially and is preserved by every step.
LEMMA InvInit == Init => IInv
<1> SUFFICES ASSUME Init PROVE IInv
  OBVIOUS
<1>1. Len(Order) \in Nat
  BY OrderAssumption
<1>2. IdleRun \in RunState
  BY <1>1 DEF IdleRun, RunState
<1>3. TypeOK
  BY <1>1, <1>2 DEF Init, TypeOK, IdleRun
<1> QED
  BY <1>3 DEF Init, IInv, IdleRun, WalkIsClean, At, Over, ChangedIsAStep, LogsAreSettled, Settled,
     AuditedIsVerdict, LogsLose, Loses

LEMMA InvStep == IInv /\ [Next]_vars => IInv'
<1> SUFFICES ASSUME IInv, [Next]_vars PROVE IInv'
  OBVIOUS
<1>1. ASSUME NEW r \in Run, Begin(r) \/ RunStep(r)
      PROVE  IInv'
  BY <1>1, TypeStep, WalkStep, ChangedStep, LogsStep, AuditedStep, LosesStep DEF IInv
<1>2. CASE UNCHANGED vars
  <2>1. TypeOK'
    BY <1>2 DEF vars, IInv, TypeOK
  <2>2. \A r \in Run : WalkIsClean(r)'
    BY <1>2 DEF vars, IInv, WalkIsClean, At, Over, Has, Completed, Clean, Steps
  <2>3. ChangedIsAStep' /\ AuditedIsVerdict'
    BY <1>2 DEF vars, IInv, ChangedIsAStep, Steps, AuditedIsVerdict, OverallStatus, Has
  <2>4. LogsAreSettled' /\ LogsLose'
    BY <1>2 DEF vars, IInv, LogsAreSettled, Settled, Final, LogsLose, Loses
  <2> QED
    BY <2>1, <2>2, <2>3, <2>4 DEF IInv
<1> QED
  BY <1>1, <1>2 DEF Next

LEMMA Invariant == Spec => []IInv
  BY InvInit, InvStep, PTL DEF Spec

\* The type invariant, for any order of channels and any number of overlapping
\* deployments.
THEOREM TypeCorrect == Spec => []TypeOK
<1>1. IInv => TypeOK
  BY DEF IInv
<1> QED
  BY <1>1, Invariant, PTL

\* A failed deployment leaves nothing behind that its steps do not tell: what
\* is live is a step that failed or succeeded, and what succeeded is stuck.
THEOREM FailureIsReported == Spec => []NothingLeftUnreported
<1>1. IInv => NothingLeftUnreported
  <2> SUFFICES ASSUME IInv, NEW r \in Run, Over(r), OverallStatus(r) = "failed",
                      NEW t \in Target, <<r, t>> \in changed
               PROVE  \E i \in 1 .. Len(run[r].steps) :
                        run[r].steps[i].target = t /\ (run[r].steps[i].status = "failed" \/ run[r].steps[i].stuck)
    BY DEF NothingLeftUnreported
  <2>1. PICK i \in Steps(r) : run[r].steps[i].target = t /\ run[r].steps[i].status \in {"success", "failed"}
    BY DEF IInv, ChangedIsAStep
  <2>2. Completed(r) = {}
    BY DEF IInv, WalkIsClean, OverallStatus
  <2> QED
    BY <2>1, <2>2 DEF Completed, Steps
<1> QED
  BY <1>1, Invariant, PTL

\* Saved steps get lost only to the save of a deployment that read the log
\* before they were saved.
THEOREM LogKeepsItsSteps == Spec => []LogLosesOnlyOverlapped
<1>1. IInv => LogLosesOnlyOverlapped
  BY DEF IInv, LogsLose, Loses, LogLosesOnlyOverlapped
<1> QED
  BY <1>1, Invariant, PTL

\* The deploy log and the audit log tell the same story of a deployment.
THEOREM LogsAgree == Spec => []LogAndAuditAgree
<1>1. IInv => LogAndAuditAgree
  <2> SUFFICES ASSUME IInv, NEW r \in Run, NEW i \in 1 .. Len(log), NEW v \in Verdicts,
                      <<r, v>> \in audited, log[i].run = r
               PROVE  /\ v = "failed" <=> \E k \in 1 .. Len(log[i].steps) : log[i].steps[k].status = "failed"
                      /\ v # "failed" => \A k \in 1 .. Len(log[i].steps) : log[i].steps[k].status # "rolled_back"
    BY DEF LogAndAuditAgree
  <2>1. log[i].steps = run[r].steps
    BY DEF IInv, LogsAreSettled, Settled
  <2>2. v = OverallStatus(r) /\ Over(r)
    BY DEF IInv, AuditedIsVerdict, Over
  <2>3. v = "failed" <=> Has(r, "failed")
    BY <2>2 DEF OverallStatus
  <2>4. ~Has(r, "failed") => Clean(r)
    BY <2>2 DEF IInv, WalkIsClean
  <2> QED
    BY <2>1, <2>3, <2>4 DEF Has, Clean, Steps
<1> QED
  BY <1>1, Invariant, PTL

-----------------------------------------------------------------------------
(***************************************************************************)
(* The refinement.                                                         *)
(***************************************************************************)
\* What a deployment has on record determines where it is in DeployOutcome.
LEMMA OutcomeStutters ==
  ASSUME NEW q, run'[q].steps = run[q].steps
  PROVE  /\ Completed(q)' = Completed(q) /\ StuckOf(q)' = StuckOf(q)
         /\ OverallStatus(q)' = OverallStatus(q)
BY DEF Completed, StuckOf, OverallStatus, Has

\* A deployment that deploys is clean, so nothing is stuck, its verdict is not
\* "failed", and it is "success" exactly when something is live.
LEMMA CleanVerdict ==
  ASSUME NEW q \in Run, Clean(q)
  PROVE  /\ StuckOf(q) = {} /\ ~Has(q, "failed")
         /\ OverallStatus(q) = IF Completed(q) = {} THEN "partial" ELSE "success"
BY DEF Clean, Steps, StuckOf, Has, OverallStatus, Completed

LEMMA OutcomeStep ==
  ASSUME IInv, NEW r \in Run, Begin(r) \/ RunStep(r), NEW q \in Run
  PROVE  [Outcome(q)!OutcomeNext]_(Outcome(q)!ovars)
<1> USE DEF Outcome!ovars, Outcome!OutcomeNext
<1>e. RunChange(r)
  BY RunEffect
<1>0. TypeOK /\ WalkIsClean(r)
  BY DEF IInv
<1>1. CASE q # r
  BY <1>e, <1>1, OutcomeStutters DEF RunChange, PhaseOf, At, Over
<1>2. CASE q = r
  <2>1. CASE MovesOn(r)
    <3>1. /\ Completed(r)' = Completed(r) /\ StuckOf(r)' = StuckOf(r)
          /\ OverallStatus(r)' = OverallStatus(r)
      BY <2>1, OutcomeStutters DEF MovesOn, Moves
    <3>2. CASE WalkEnds(r) /\ run'[r].pc = "save"
      <4>1. PhaseOf(r) = "deploying" /\ PhaseOf(r)' = OverallStatus(r)
        BY <3>1, <3>2 DEF WalkEnds, PhaseOf, At, Over
      <4>2. OverallStatus(r) = IF Completed(r) = {} THEN "partial" ELSE "success"
        BY <1>0, <3>2, CleanVerdict DEF WalkIsClean, WalkEnds
      <4> QED
        BY <1>2, <3>1, <4>1, <4>2 DEF Outcome!Pronounce
    <3>3. CASE UndoEnds(r) /\ run'[r].pc = "save"
      <4>1. PhaseOf(r) = "undoing" /\ PhaseOf(r)' = OverallStatus(r)
        BY <3>1, <3>3 DEF UndoEnds, PhaseOf, At, Over
      <4>2. OverallStatus(r) = "failed" /\ Completed(r) = {}
        BY <1>0, <3>3 DEF WalkIsClean, UndoEnds, OverallStatus
      <4> QED
        BY <1>2, <3>1, <4>1, <4>2 DEF Outcome!Pronounce
    <3>4. CASE ~WalkEnds(r) /\ ~UndoEnds(r)
      <4>1. PhaseOf(r)' = PhaseOf(r)
        BY <2>1, <3>1, <3>4 DEF MovesOn, PhaseOf, At, Over, Begin, FetchFails, PersistDeployLog, Audit, Notify, SideCallFails
      <4> QED
        BY <1>2, <3>1, <4>1
    <3> QED
      BY <2>1, <3>2, <3>3, <3>4 DEF MovesOn, WalkEnds, UndoEnds, At, Begin, FetchFails, PersistDeployLog,
         Audit, Notify, SideCallFails
  <2>2. CASE Reads(r)
    <3>1. /\ Completed(r)' = Completed(r) /\ StuckOf(r)' = StuckOf(r)
      BY <2>2, OutcomeStutters DEF Reads
    <3>2. PhaseOf(r)' = PhaseOf(r)
      BY <2>2 DEF Reads, PhaseOf, At, Over
    <3> QED
      BY <1>2, <3>1, <3>2
  <2>3. ASSUME NEW status \in {"skipped", "success", "failed"}, Records(r, status),
               run'[r].pc = IF status = "failed" THEN "undo" ELSE "walk"
        PROVE  [Outcome(r)!OutcomeNext]_(Outcome(r)!ovars)
    <3> DEFINE n == run[r].next
    <3>1. /\ n \in 1 .. Len(Order) /\ Len(run'[r].steps) = n /\ Len(run[r].steps) = n - 1
          /\ \A i \in Steps(r) : run'[r].steps[i] = run[r].steps[i]
          /\ run'[r].steps[n] = Recorded(r, status)
      BY <1>0, <2>3, RecordEffect DEF StepStatus
    <3>2. Recorded(r, status).status = status /\ ~Recorded(r, status).stuck
      BY DEF Recorded
    <3>3. \A i : i \in Steps(r)' <=> i \in Steps(r) \/ i = n
      BY <3>1 DEF Steps
    <3>4. n \notin Steps(r) /\ \A i \in Steps(r) : i < n
      BY <3>1 DEF Steps
    <3>5. StuckOf(r)' = StuckOf(r)
      BY <3>1, <3>2, <3>3, <3>4 DEF StuckOf, Steps
    <3>6. Completed(r)' = IF status = "success" THEN Completed(r) \cup {n} ELSE Completed(r)
      <4>1. \A i : i \in Completed(r)' <=> i \in Completed(r) \/ (i = n /\ status = "success")
        BY <3>1, <3>2, <3>3, <3>4 DEF Completed, Steps
      <4> QED
        BY <4>1
    <3>7. PhaseOf(r) = "deploying" /\ PhaseOf(r)' = IF status = "failed" THEN "undoing" ELSE "deploying"
      BY <2>3 DEF Records, Walking, PhaseOf, At, Over
    <3>8. CASE status = "success"
      <4>1. \A k \in Completed(r) : k < n
        BY <3>4 DEF Completed, Steps
      <4>2. Outcome(r)!GoLive(n)
        BY <3>5, <3>6, <3>7, <3>8, <4>1 DEF Outcome!GoLive
      <4> QED
        BY <3>1, <4>2
    <3>9. CASE status = "skipped"
      BY <3>5, <3>6, <3>7, <3>9
    <3>10. CASE status = "failed"
      BY <3>5, <3>6, <3>7, <3>10 DEF Outcome!BreakOff
    <3> QED
      BY <3>8, <3>9, <3>10
  <2>4. CASE TakesUp(r)
    <3> DEFINE i == Latest(r)
    <3>1. /\ i \in Completed(r) /\ \A k \in Completed(r) : k <= i
          /\ i \in Steps(r) /\ ~run[r].steps[i].stuck
      BY <1>0, <2>4, LatestIsCompleted DEF TakesUp, Undoing
    <3>2. /\ Steps(r)' = Steps(r)
          /\ \A k \in Steps(r) : k # i => run'[r].steps[k] = run[r].steps[k]
      BY <2>4 DEF TakesUp, Steps
    <3>3. PhaseOf(r) = "undoing" /\ PhaseOf(r)' = "undoing"
      BY <2>4 DEF TakesUp, Undoing, PhaseOf, At, Over
    <3>4. \/ run'[r].steps[i].status = "rolled_back" /\ ~run'[r].steps[i].stuck
          \/ run'[r].steps[i].status = "success" /\ run'[r].steps[i].stuck
      BY <2>4 DEF TakesUp
    <3> HIDE DEF i
    <3>5. Completed(r)' = Completed(r) \ {i}
      <4>1. \A k : k \in Completed(r)' <=> k \in Completed(r) /\ k # i
        BY <3>1, <3>2, <3>4 DEF Completed, Steps
      <4> QED
        BY <4>1
    <3>6. StuckOf(r)' \in {StuckOf(r), StuckOf(r) \cup {i}}
      <4>1. CASE ~run'[r].steps[i].stuck
        <5>1. \A k : k \in StuckOf(r)' <=> k \in StuckOf(r)
          BY <3>1, <3>2, <4>1 DEF StuckOf, Steps
        <5> QED
          BY <5>1
      <4>2. CASE run'[r].steps[i].stuck
        <5>1. \A k : k \in StuckOf(r)' <=> k \in StuckOf(r) \/ k = i
          BY <3>1, <3>2, <4>2 DEF StuckOf, Steps
        <5> QED
          BY <5>1
      <4> QED
        BY <4>1, <4>2
    <3>7. Outcome(r)!TakeUp(i)
      BY <3>1, <3>3, <3>5, <3>6 DEF Outcome!TakeUp
    <3>8. i \in 1 .. Len(Order)
      <4>1. Len(run[r].steps) <= Len(Order) /\ Len(run[r].steps) \in Nat /\ Len(Order) \in Nat
        BY <1>0, OrderAssumption DEF TypeOK, RunState
      <4> QED
        BY <3>1, <4>1 DEF Steps
    <3> QED
      BY <1>2, <3>7, <3>8
  <2> QED
    BY <1>e, <1>2, <2>1, <2>2, <2>3, <2>4 DEF RunChange
<1> QED
  BY <1>1, <1>2

\* Every deployment implements DeployOutcome: it begins as DeployOutcome does,
\* and every step of the system is one of its steps or a stutter.
THEOREM Refinement == Spec => KeepsOutcome
<1>1. Init => \A r \in Run : Outcome(r)!OutcomeInit
  BY DEF Init, IdleRun, Outcome!OutcomeInit, Completed, StuckOf, PhaseOf, At, Over
<1>2. IInv /\ [Next]_vars => [\A r \in Run : [Outcome(r)!OutcomeNext]_(Outcome(r)!ovars)]_vars
  BY OutcomeStep DEF Next
<1> QED
  BY <1>1, <1>2, Invariant, PTL DEF Spec, KeepsOutcome
=============================================================================
