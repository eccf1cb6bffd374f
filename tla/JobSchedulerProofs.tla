------------------------- MODULE JobSchedulerProofs -------------------------
(***************************************************************************)
(* Proofs about JobScheduler for any number of jobs, overlapping ticks and *)
(* registrations: the types, and the exactness of the running lock.        *)
(***************************************************************************)
EXTENDS JobScheduler, SequenceTheorems, TLAPS

\* The inductive invariant.  AtMostOneRun alone is not inductive: that a claim
\* is only ever made on a job nobody holds follows from the lock being set
\* whenever somebody holds it; that a release does not fake a lock from the
\* remembered status never being "running", nor undo a lost one from nobody
\* holding it any more; and that a claimed job is due from the tick only looking
\* at jobs that were due when it began and still are.
LostIsFree == \A o \in lost : handlers[o] = 0 /\ \A t \in Ticks : ticks[t].obj # o

IInv ==
    /\ TypeOK
    /\ AtMostOneRun
    /\ LockIsExact
    /\ ClaimedIsDue
    /\ LostIsFree
    /\ \A t \in Ticks : ticks[t].prior # "running"
    /\ \A t \in Ticks : \A o \in ticks[t].seen : due[o]

\* What WalkFrom does to the ticks and the lock, whatever flags and statuses it
\* is given: it ends the tick, or claims one job state that is not running.
LEMMA WalkFromEffect ==
    ASSUME TypeOK, NEW t \in Ticks, NEW from \in Nat, NEW seen \in SUBSET JobState,
           NEW en, NEW ls \in [JobState -> Status],
           WalkFrom(t, from, seen, en, ls)
    PROVE  \/ /\ ticks' = [ticks EXCEPT ![t] = IdleTick]
              /\ lastStatus' = ls
           \/ \E o \in JobState, i \in Nat :
              /\ ls[o] # "running"
              /\ o \in seen
              /\ ticks' = [ticks EXCEPT ![t] = [obj |-> o, pos |-> i,
                                                prior |-> ls[o], seen |-> seen]]
              /\ lastStatus' = [ls EXCEPT ![o] = "running"]
<1>1. CASE /\ ticks' = [ticks EXCEPT ![t] = IdleTick]
           /\ lastStatus' = ls
  BY <1>1
<1>2. ASSUME NEW i \in Eligible(from, seen, en, ls),
             ticks' = [ticks EXCEPT ![t] = [obj   |-> jobs[i],
                                            pos   |-> i,
                                            prior |-> ls[jobs[i]],
                                            seen  |-> seen]],
             lastStatus' = [ls EXCEPT ![jobs[i]] = "running"]
      PROVE  \E o \in JobState, k \in Nat :
              /\ ls[o] # "running"
              /\ o \in seen
              /\ ticks' = [ticks EXCEPT ![t] = [obj |-> o, pos |-> k,
                                                prior |-> ls[o], seen |-> seen]]
              /\ lastStatus' = [ls EXCEPT ![o] = "running"]
  <2>1. i \in DOMAIN jobs /\ ls[jobs[i]] # "running" /\ jobs[i] \in seen
    BY <1>2 DEF Eligible
  <2>2. jobs[i] \in JobState /\ i \in Nat
    BY <2>1 DEF TypeOK
  <2> QED
    BY <1>2, <2>1, <2>2
<1> QED
  BY <1>1, <1>2 DEF WalkFrom

\* The types are preserved by every step.
LEMMA TypeStep == TypeOK /\ [Next]_vars => TypeOK'
<1> SUFFICES ASSUME TypeOK, [Next]_vars PROVE TypeOK'
  OBVIOUS
<1> USE JobSchedulerAssumption DEF JobSchedulerAssumption
<1>w. ASSUME NEW t \in Ticks, NEW from \in Nat, NEW seen \in SUBSET JobState,
             NEW en, NEW ls \in [JobState -> Status],
             WalkFrom(t, from, seen, en, ls)
      PROVE  ticks' \in [Ticks -> TickRecord] /\ lastStatus' \in [JobState -> Status]
  <2>1. IdleTick \in TickRecord
    BY DEF IdleTick, TickRecord, Status
  <2>2. ticks \in [Ticks -> TickRecord]
    BY DEF TypeOK
  <2>3. ASSUME NEW o \in JobState, NEW i \in Nat
        PROVE [obj |-> o, pos |-> i, prior |-> ls[o], seen |-> seen] \in TickRecord
    BY DEF TickRecord
  <2>4. "running" \in Status
    BY DEF Status
  <2> QED
    BY <1>w, WalkFromEffect, <2>1, <2>2, <2>3, <2>4
<1>1. ASSUME NEW j \in Jobs, NEW flag \in BOOLEAN, RegisterJob(j, flag)
      PROVE TypeOK'
  <2> DEFINE o == <<j, registrations + 1>>
  <2>1. registrations + 1 \in 1..MaxRegistrations
    BY <1>1 DEF RegisterJob, TypeOK
  <2>2. o \in JobState
    BY <2>1 DEF JobState
  <2>3. jobs' \in Seq(JobState)
    <3>1. CASE jobs' = Append(jobs, o)
      BY <3>1, <2>2 DEF TypeOK
    <3>2. ASSUME NEW i \in DOMAIN jobs, jobs' = [jobs EXCEPT ![i] = o]
          PROVE  jobs' \in Seq(JobState)
      BY <3>2, <2>2, ExceptSeq DEF TypeOK
    <3> QED
      BY <1>1, <3>1, <3>2 DEF RegisterJob
  <2> QED
    <3>1. registrations' \in 0..MaxRegistrations
      BY <1>1, <2>1 DEF RegisterJob, TypeOK
    <3>2. enabled' \in [JobState -> BOOLEAN]
      BY <1>1, <2>2 DEF RegisterJob, TypeOK
    <3>3. UNCHANGED <<lastStatus, due, handlers, lost, ticks, interval,
                      initTimeout, initLoops>>
      BY <1>1 DEF RegisterJob
    <3> QED
      BY <2>3, <3>1, <3>2, <3>3 DEF TypeOK
<1>2. ASSUME NEW o \in JobState, NEW flag \in BOOLEAN, SetJobEnabled(o, flag)
      PROVE TypeOK'
  BY <1>2 DEF SetJobEnabled, TypeOK
<1>3. ASSUME NEW o \in JobState, TriggerJob(o)
      PROVE TypeOK'
  BY <1>3 DEF TriggerJob, TypeOK, Status
<1>4. ASSUME NEW o \in JobState, BecomesDue(o)
      PROVE TypeOK'
  BY <1>4 DEF BecomesDue, TypeOK
<1>5. ASSUME NEW o \in JobState, NEW outcome \in {"success", "error"},
             HandlerSettles(o, outcome)
      PROVE TypeOK'
  <2>1. ticks' \in [Ticks -> TickRecord]
    BY <1>5 DEF HandlerSettles, TypeOK, TickRecord
  <2> QED
    BY <1>5, <2>1 DEF HandlerSettles, TypeOK, Status
<1>6. ASSUME NEW t \in Ticks, TickStep(t)
      PROVE TypeOK'
  <2> DEFINE s == [lastStatus EXCEPT ![ticks[t].obj] = ticks[t].prior]
             r == [lastStatus EXCEPT ![ticks[t].obj] = "running"]
  <2>t. ticks[t] \in TickRecord
    BY DEF TypeOK
  <2>0. /\ lastStatus \in [JobState -> Status]
        /\ s \in [JobState -> Status]
        /\ r \in [JobState -> Status]
        /\ ticks[t].seen \in SUBSET JobState
        /\ ticks[t].pos + 1 \in Nat
        /\ ticks[t].obj # NoJob => ticks[t].obj \in JobState
        /\ {o \in JobState : due[o]} \in SUBSET JobState
    <3>1. lastStatus \in [JobState -> Status]
      BY DEF TypeOK
    <3>2. s \in [JobState -> Status] /\ r \in [JobState -> Status]
      BY <2>t, <3>1 DEF TickRecord, Status
    <3>3. /\ ticks[t].seen \in SUBSET JobState
          /\ ticks[t].pos + 1 \in Nat
          /\ ticks[t].obj # NoJob => ticks[t].obj \in JobState
      BY <2>t DEF TickRecord
    <3> QED
      BY <3>1, <3>2, <3>3
  <2>1. CASE IntervalTick(t)
    <3>1. ticks' \in [Ticks -> TickRecord] /\ lastStatus' \in [JobState -> Status]
      BY <2>1, <2>0, <1>w DEF IntervalTick, BeginTick
    <3> QED
      BY <2>1, <3>1 DEF IntervalTick, TypeOK
  <2>2. CASE FirstTick(t)
    <3>1. ticks' \in [Ticks -> TickRecord] /\ lastStatus' \in [JobState -> Status]
      BY <2>2, <2>0, <1>w DEF FirstTick, BeginTick
    <3> QED
      BY <2>2, <3>1 DEF FirstTick, TypeOK
  <2>3. CASE LoadSaysDisabled(t)
    <3>1. ticks' \in [Ticks -> TickRecord] /\ lastStatus' \in [JobState -> Status]
      BY <2>3, <2>0, <1>w DEF LoadSaysDisabled
    <3> QED
      BY <2>3, <3>1 DEF LoadSaysDisabled, TypeOK
  <2>4. CASE LoadSaysRun(t)
    <3>1. ticks' \in [Ticks -> TickRecord] /\ lastStatus' \in [JobState -> Status]
      BY <2>4, <2>0, <1>w DEF LoadSaysRun
    <3>2. handlers' \in [JobState -> Nat]
      BY <2>4, <2>0 DEF LoadSaysRun, TypeOK
    <3> QED
      BY <2>4, <3>1, <3>2 DEF LoadSaysRun, TypeOK
  <2>5. CASE LoadRejects(t)
    <3>1. IdleTick \in TickRecord
      BY DEF IdleTick, TickRecord, Status
    <3>2. ticks' \in [Ticks -> TickRecord]
      BY <2>5, <3>1 DEF LoadRejects, TypeOK
    <3>3. lost' \subseteq JobState
      BY <2>5, <2>0 DEF LoadRejects, TypeOK
    <3>4. UNCHANGED <<jobs, registrations, enabled, lastStatus, due, handlers,
                      interval, initTimeout, initLoops>>
      BY <2>5 DEF LoadRejects
    <3> QED
      BY <3>2, <3>3, <3>4 DEF TypeOK
  <2> QED
    BY <1>6, <2>1, <2>2, <2>3, <2>4, <2>5 DEF TickStep
<1>7. CASE Start
  BY <1>7 DEF Start, TypeOK
<1>8. CASE Stop
  BY <1>8 DEF Stop, TypeOK
<1>9. CASE InitTimeoutFires
  <2>1. initLoops' \in 0..MaxInitLoops
    BY <1>9 DEF InitTimeoutFires, TypeOK
  <2>2. initTimeout' \in BOOLEAN
    BY <1>9 DEF InitTimeoutFires
  <2> QED
    BY <1>9, <2>1, <2>2 DEF InitTimeoutFires, TypeOK
<1>10. CASE UNCHANGED vars
  BY <1>10 DEF vars, TypeOK
<1> QED
  BY <1>1, <1>2, <1>3, <1>4, <1>5, <1>6, <1>7, <1>8, <1>9, <1>10 DEF Next

LEMMA InitTypeOK == Init => TypeOK
<1> SUFFICES ASSUME Init PROVE TypeOK
  OBVIOUS
<1>1. registrations \in 0..MaxRegistrations /\ initLoops \in 0..MaxInitLoops
  BY JobSchedulerAssumption DEF JobSchedulerAssumption, Init
<1>2. ticks \in [Ticks -> TickRecord]
  BY DEF Init, IdleTick, TickRecord, Status
<1>3. jobs \in Seq(JobState)
  BY DEF Init
<1> QED
  BY <1>1, <1>2, <1>3 DEF Init, TypeOK, Status

\* Every reachable state is well typed, for all values of the constants.
THEOREM TypeCorrect == Spec => []TypeOK
<1> QED
  BY InitTypeOK, TypeStep, PTL DEF Spec

-----------------------------------------------------------------------------
\* One run of the tick loop by tick t, from a state where the lock is exact for
\* everybody else: the claim it ends with keeps the lock exact.
LEMMA WalkKeepsLock ==
    ASSUME IInv, TypeOK', NEW t \in Ticks, NEW from \in Nat,
           NEW seen \in SUBSET JobState, NEW en,
           NEW ls \in [JobState -> Status],
           WalkFrom(t, from, seen, en, ls),
           due' = due, \A o \in seen : due[o],
           \A o \in JobState :
              /\ handlers'[o] <= 1
              /\ \A u \in Ticks \ {t} : ticks[u].obj = o => handlers'[o] = 0
              /\ ls[o] = "running" <=> \/ handlers'[o] > 0
                                       \/ \E u \in Ticks \ {t} : ticks[u].obj = o
                                       \/ o \in lost'
              /\ o \in lost' => /\ handlers'[o] = 0
                                /\ \A u \in Ticks \ {t} : ticks[u].obj # o
    PROVE  IInv'
<1>h. handlers' \in [JobState -> Nat] /\ NoJob \notin JobState /\ lost' \subseteq JobState
  BY JobSchedulerAssumption DEF TypeOK, JobSchedulerAssumption
<1>t. ticks \in [Ticks -> TickRecord]
  BY DEF IInv, TypeOK
<1>1. CASE /\ ticks' = [ticks EXCEPT ![t] = IdleTick]
           /\ lastStatus' = ls
  <2>1. /\ ticks'[t] = IdleTick
        /\ \A u \in Ticks \ {t} : ticks'[u] = ticks[u]
    BY <1>1, <1>t
  <2>2. \A o \in JobState : Claimed(o)' <=> \E u \in Ticks \ {t} : ticks[u].obj = o
    BY <2>1, <1>h DEF Claimed, IdleTick
  <2>3. AtMostOneRun'
    BY <2>1, <2>2, <1>h DEF AtMostOneRun, IdleTick, IInv
  <2>4. LockIsExact'
    BY <1>1, <2>2 DEF LockIsExact
  <2>5. ClaimedIsDue'
    BY <2>1 DEF ClaimedIsDue, IdleTick, IInv
  <2>6. \A u \in Ticks : ticks'[u].prior # "running" /\ \A o \in ticks'[u].seen : due'[o]
    BY <2>1 DEF IdleTick, IInv
  <2>7. LostIsFree'
    BY <2>1, <1>h DEF LostIsFree, IdleTick
  <2> QED
    BY <2>3, <2>4, <2>5, <2>6, <2>7 DEF IInv
<1>2. ASSUME NEW c \in JobState, NEW i \in Nat,
             ls[c] # "running", c \in seen,
             ticks' = [ticks EXCEPT ![t] = [obj |-> c, pos |-> i,
                                            prior |-> ls[c], seen |-> seen]],
             lastStatus' = [ls EXCEPT ![c] = "running"]
      PROVE  IInv'
  <2>1. /\ ticks'[t] = [obj |-> c, pos |-> i, prior |-> ls[c], seen |-> seen]
        /\ \A u \in Ticks \ {t} : ticks'[u] = ticks[u]
    BY <1>2, <1>t
  <2>2. \A o \in JobState :
           Claimed(o)' <=> o = c \/ \E u \in Ticks \ {t} : ticks[u].obj = o
    BY <2>1 DEF Claimed
  <2>3. handlers'[c] = 0 /\ \A u \in Ticks \ {t} : ticks[u].obj # c
    <3>1. ~(handlers'[c] > 0) /\ ~(\E u \in Ticks \ {t} : ticks[u].obj = c)
      BY <1>2
    <3> QED
      BY <3>1, <1>h
  <2>4. AtMostOneRun'
    <3>1. \A o \in JobState : handlers'[o] <= 1 /\ (handlers'[o] = 1 => ~Claimed(o)')
      BY <2>2, <2>3, <1>h
    <3>2. \A o \in JobState, u1, u2 \in Ticks :
             ticks'[u1].obj = o /\ ticks'[u2].obj = o => u1 = u2
      BY <2>1, <2>3 DEF IInv, AtMostOneRun
    <3> QED
      BY <3>1, <3>2 DEF AtMostOneRun
  <2>5. LockIsExact'
    BY <1>2, <2>2 DEF LockIsExact
  <2>6. ClaimedIsDue'
    BY <1>2, <2>1 DEF ClaimedIsDue, IInv
  <2>7. \A u \in Ticks : ticks'[u].prior # "running" /\ \A o \in ticks'[u].seen : due'[o]
    BY <1>2, <2>1 DEF IInv
  <2>8. LostIsFree'
    <3>1. c \notin lost'
      BY <1>2
    <3> QED
      BY <2>1, <3>1, <1>h DEF LostIsFree
  <2> QED
    BY <2>4, <2>5, <2>6, <2>7, <2>8 DEF IInv
<1>3. TypeOK
  BY DEF IInv
<1>4. \/ /\ ticks' = [ticks EXCEPT ![t] = IdleTick]
         /\ lastStatus' = ls
      \/ \E c \in JobState, i \in Nat :
         /\ ls[c] # "running"
         /\ c \in seen
         /\ ticks' = [ticks EXCEPT ![t] = [obj |-> c, pos |-> i,
                                           prior |-> ls[c], seen |-> seen]]
         /\ lastStatus' = [ls EXCEPT ![c] = "running"]
  BY <1>3, WalkFromEffect
<1> QED
  BY <1>1, <1>2, <1>4

\* Every step keeps the inductive invariant: one case per action.
LEMMA InvStep == IInv /\ [Next]_vars => IInv'
<1> SUFFICES ASSUME IInv, [Next]_vars PROVE IInv'
  OBVIOUS
<1>type. TypeOK /\ TypeOK'
  BY TypeStep DEF IInv
<1>h. /\ lost \subseteq JobState /\ lost' \subseteq JobState
      /\ handlers \in [JobState -> Nat] /\ handlers' \in [JobState -> Nat]
      /\ lastStatus \in [JobState -> Status]
      /\ ticks \in [Ticks -> TickRecord]
  BY <1>type DEF TypeOK
<1>idle. ASSUME UNCHANGED <<lastStatus, due, handlers, lost, ticks>>
         PROVE  IInv'
  BY <1>idle, <1>type DEF IInv, AtMostOneRun, LockIsExact, Claimed, ClaimedIsDue, LostIsFree
<1>1. ASSUME NEW j \in Jobs, NEW flag \in BOOLEAN, RegisterJob(j, flag)
      PROVE IInv'
  BY <1>1, <1>idle DEF RegisterJob
<1>2. ASSUME NEW o \in JobState, NEW flag \in BOOLEAN, SetJobEnabled(o, flag)
      PROVE IInv'
  BY <1>2, <1>idle DEF SetJobEnabled
<1>3. ASSUME NEW o \in JobState, TriggerJob(o)
      PROVE IInv'
  <2>1. handlers[o] = 0 /\ ~Claimed(o) /\ o \notin lost
    <3>1. ~(handlers[o] > 0 \/ Claimed(o) \/ o \in lost)
      BY <1>3 DEF TriggerJob, IInv, LockIsExact
    <3> QED
      BY <3>1, <1>h
  <2>2. /\ handlers'[o] = 1 /\ lastStatus'[o] = "running"
        /\ \A p \in JobState \ {o} : handlers'[p] = handlers[p] /\ lastStatus'[p] = lastStatus[p]
        /\ ticks' = ticks /\ due' = due /\ lost' = lost
    BY <1>3, <1>h, <2>1 DEF TriggerJob
  <2>3. AtMostOneRun'
    BY <2>1, <2>2, <1>h DEF AtMostOneRun, Claimed, IInv
  <2>4. LockIsExact'
    BY <2>2, <1>h DEF LockIsExact, Claimed, IInv
  <2>5. LostIsFree'
    BY <2>1, <2>2, <1>h DEF LostIsFree, IInv
  <2> QED
    BY <1>type, <2>2, <2>3, <2>4, <2>5 DEF IInv, ClaimedIsDue
<1>4. ASSUME NEW o \in JobState, BecomesDue(o)
      PROVE IInv'
  <2>1. /\ UNCHANGED <<lastStatus, handlers, lost, ticks>>
        /\ \A p \in JobState : due[p] => due'[p]
    BY <1>4, <1>type DEF BecomesDue, TypeOK
  <2>2. AtMostOneRun' /\ LockIsExact'
    BY <2>1 DEF IInv, AtMostOneRun, LockIsExact, Claimed
  <2>3. \A t \in Ticks : /\ ticks[t].obj # NoJob => ticks[t].obj \in JobState
                         /\ ticks[t].seen \subseteq JobState
    BY <1>h DEF TickRecord
  <2>4. LostIsFree'
    BY <2>1 DEF LostIsFree, IInv
  <2> QED
    BY <1>type, <2>1, <2>2, <2>3, <2>4 DEF IInv, ClaimedIsDue
<1>5. ASSUME NEW o \in JobState, NEW outcome \in {"success", "error"},
             HandlerSettles(o, outcome)
      PROVE IInv'
  <2>1. handlers[o] = 1 /\ ~Claimed(o) /\ o \notin lost
    <3>1. handlers[o] > 0 /\ handlers[o] <= 1
      BY <1>5 DEF HandlerSettles, IInv, AtMostOneRun
    <3>2. handlers[o] = 1
      BY <3>1, <1>h
    <3> QED
      BY <3>2 DEF IInv, AtMostOneRun, LostIsFree
  <2>2. /\ handlers'[o] = 0 /\ lost' = lost
        /\ \A p \in JobState \ {o} : handlers'[p] = handlers[p]
    BY <1>5, <1>h, <2>1 DEF HandlerSettles
  <2>3. /\ lastStatus'[o] # "running"
        /\ \A p \in JobState \ {o} : lastStatus'[p] = lastStatus[p]
    BY <1>5, <1>h DEF HandlerSettles
  <2>4. \A t \in Ticks : /\ ticks'[t].obj = ticks[t].obj
                         /\ ticks'[t].prior = ticks[t].prior
                         /\ ticks'[t].seen = ticks[t].seen \ {o}
    BY <1>5, <1>h DEF HandlerSettles, TickRecord
  <2>5. \A p \in JobState \ {o} : due'[p] = due[p]
    BY <1>5, <1>type DEF HandlerSettles, TypeOK
  <2>6. \A p \in JobState : Claimed(p)' <=> Claimed(p)
    BY <2>4 DEF Claimed
  <2>7. AtMostOneRun'
    <3>1. \A p \in JobState : handlers'[p] <= 1 /\ (handlers'[p] = 1 => ~Claimed(p)')
      BY <2>1, <2>2, <2>6 DEF AtMostOneRun, IInv
    <3>2. \A p \in JobState, u1, u2 \in Ticks :
             ticks'[u1].obj = p /\ ticks'[u2].obj = p => u1 = u2
      BY <2>4 DEF IInv, AtMostOneRun
    <3> QED
      BY <3>1, <3>2 DEF AtMostOneRun
  <2>8. LockIsExact'
    <3>1. ASSUME NEW p \in JobState
          PROVE lastStatus'[p] = "running" <=> handlers'[p] > 0 \/ Claimed(p)' \/ p \in lost'
      BY <2>1, <2>2, <2>3, <2>6 DEF LockIsExact, IInv
    <3> QED
      BY <3>1 DEF LockIsExact
  <2>9. ASSUME NEW t \in Ticks, ticks[t].obj # NoJob
        PROVE  due'[ticks[t].obj]
    <3>1. ticks[t].obj \in JobState /\ ticks[t].obj # o
      BY <2>1, <2>9, <1>h DEF TickRecord, Claimed
    <3> QED
      BY <2>5, <2>9, <3>1 DEF IInv, ClaimedIsDue
  <2>10. ASSUME NEW t \in Ticks, NEW p \in ticks'[t].seen
         PROVE  due'[p]
    <3>1. p \in JobState \ {o} /\ p \in ticks[t].seen
      BY <2>4, <2>10, <1>h DEF TickRecord
    <3> QED
      BY <2>5, <3>1 DEF IInv
  <2>11. LostIsFree'
    BY <2>1, <2>2, <2>4, <1>h DEF LostIsFree, IInv
  <2> QED
    BY <1>type, <2>4, <2>7, <2>8, <2>9, <2>10, <2>11 DEF IInv, ClaimedIsDue
<1>6. ASSUME NEW t \in Ticks, TickStep(t)
      PROVE IInv'
  <2>t. /\ ticks[t].seen \in SUBSET JobState
        /\ ticks[t].pos + 1 \in Nat
        /\ ticks[t].obj # NoJob => ticks[t].obj \in JobState
        /\ ticks[t].prior \in Status
        /\ NoJob \notin JobState
        /\ "running" \in Status
        /\ 1 \in Nat
    BY <1>h, JobSchedulerAssumption DEF TickRecord, JobSchedulerAssumption, Status
  <2>1. ASSUME BeginTick(t), UNCHANGED <<due, handlers, lost, enabled>>
        PROVE  IInv'
    <3>1. \A o \in JobState :
            (\E u \in Ticks \ {t} : ticks[u].obj = o) <=> Claimed(o)
      BY <2>1, <2>t DEF BeginTick, Claimed
    <3>2. \A o \in JobState :
              /\ handlers'[o] <= 1
              /\ \A u \in Ticks \ {t} : ticks[u].obj = o => handlers'[o] = 0
      BY <2>1, <1>h DEF IInv, AtMostOneRun, Claimed
    <3>3. \A o \in JobState :
              /\ lastStatus[o] = "running" <=> \/ handlers'[o] > 0
                                               \/ \E u \in Ticks \ {t} : ticks[u].obj = o
                                               \/ o \in lost'
              /\ o \in lost' => /\ handlers'[o] = 0
                                /\ \A u \in Ticks \ {t} : ticks[u].obj # o
      <4>1. handlers' = handlers /\ lost' = lost
        BY <2>1
      <4>2. \A o \in JobState :
               lastStatus[o] = "running" <=> handlers[o] > 0 \/ Claimed(o) \/ o \in lost
        BY DEF IInv, LockIsExact
      <4> QED
        BY <3>1, <4>1, <4>2 DEF IInv, LostIsFree
    <3> DEFINE duenow == {o \in JobState : due[o]}
    <3>4. /\ duenow \in SUBSET JobState
          /\ \A o \in duenow : due[o]
          /\ WalkFrom(t, 1, duenow, enabled, lastStatus)
      BY <2>1 DEF BeginTick
    <3> HIDE DEF duenow
    <3> QED
      BY <2>1, <2>t, <3>2, <3>3, <3>4, <1>h, <1>type, WalkKeepsLock
  <2>2. CASE IntervalTick(t)
    BY <2>1, <2>2 DEF IntervalTick
  <2>3. CASE FirstTick(t)
    BY <2>1, <2>3 DEF FirstTick
  <2>4. ASSUME ticks[t].obj # NoJob
        PROVE  LET c == ticks[t].obj IN
               /\ c \in JobState /\ handlers[c] = 0
               /\ \A u \in Ticks \ {t} : ticks[u].obj # c
               /\ c \notin lost
    <3>1. Claimed(ticks[t].obj)
      BY DEF Claimed
    <3>2. handlers[ticks[t].obj] # 1 /\ handlers[ticks[t].obj] <= 1
      BY <2>4, <2>t, <3>1 DEF IInv, AtMostOneRun
    <3>3. ticks[t].obj \notin lost
      BY DEF IInv, LostIsFree
    <3> QED
      BY <2>4, <2>t, <3>2, <3>3, <1>h DEF IInv, AtMostOneRun
  <2>5. \A o \in JobState : Claimed(o) <=> \/ o = ticks[t].obj
                                           \/ \E u \in Ticks \ {t} : ticks[u].obj = o
    BY DEF Claimed
  <2>s. ASSUME NEW o \in JobState, o # ticks[t].obj
        PROVE  /\ lastStatus[o] = "running" <=> \/ handlers[o] > 0
                                                \/ \E u \in Ticks \ {t} : ticks[u].obj = o
                                                \/ o \in lost
               /\ o \in lost => /\ handlers[o] = 0
                                /\ \A u \in Ticks \ {t} : ticks[u].obj # o
    <3>1. lastStatus[o] = "running" <=> handlers[o] > 0 \/ Claimed(o) \/ o \in lost
      BY DEF IInv, LockIsExact
    <3> QED
      BY <2>s, <2>5, <3>1 DEF IInv, LostIsFree
  <2>6. CASE LoadSaysDisabled(t)
    <3> DEFINE c == ticks[t].obj
               s == [lastStatus EXCEPT ![c] = ticks[t].prior]
    <3>1. /\ c \in JobState /\ handlers[c] = 0
          /\ \A u \in Ticks \ {t} : ticks[u].obj # c
          /\ c \notin lost
          /\ handlers' = handlers /\ due' = due /\ lost' = lost
          /\ WalkFrom(t, ticks[t].pos + 1, ticks[t].seen, enabled', s)
      BY <2>4, <2>6 DEF LoadSaysDisabled
    <3>2. /\ s[c] # "running" /\ s \in [JobState -> Status]
          /\ \A o \in JobState \ {c} : s[o] = lastStatus[o]
      BY <3>1, <1>h, <2>t DEF IInv
    <3>3. \A o \in JobState :
              /\ handlers'[o] <= 1
              /\ \A u \in Ticks \ {t} : ticks[u].obj = o => handlers'[o] = 0
      BY <3>1, <1>h DEF IInv, AtMostOneRun, Claimed
    <3>4. \A o \in JobState :
              /\ s[o] = "running" <=> \/ handlers'[o] > 0
                                      \/ \E u \in Ticks \ {t} : ticks[u].obj = o
                                      \/ o \in lost'
              /\ o \in lost' => /\ handlers'[o] = 0
                                /\ \A u \in Ticks \ {t} : ticks[u].obj # o
      <4>1. ASSUME NEW o \in JobState, o # c
            PROVE /\ s[o] = "running" <=> \/ handlers'[o] > 0
                                          \/ \E u \in Ticks \ {t} : ticks[u].obj = o
                                          \/ o \in lost'
                  /\ o \in lost' => /\ handlers'[o] = 0
                                    /\ \A u \in Ticks \ {t} : ticks[u].obj # o
        BY <4>1, <3>1, <3>2, <2>s
      <4> QED
        BY <4>1, <3>1, <3>2
    <3>5. \A o \in ticks[t].seen : due[o]
      BY DEF IInv
    <3> HIDE DEF s, c
    <3> QED
      BY <2>t, <3>1, <3>2, <3>3, <3>4, <3>5, <1>type, WalkKeepsLock
  <2>7. CASE LoadSaysRun(t)
    <3> DEFINE c == ticks[t].obj
               s == [lastStatus EXCEPT ![c] = "running"]
    <3>1. /\ c \in JobState /\ handlers[c] = 0
          /\ \A u \in Ticks \ {t} : ticks[u].obj # c
          /\ c \notin lost
          /\ due' = due /\ lost' = lost
          /\ WalkFrom(t, ticks[t].pos + 1, ticks[t].seen, enabled, s)
      BY <2>4, <2>7 DEF LoadSaysRun
    <3>2. /\ s[c] = "running" /\ s \in [JobState -> Status]
          /\ \A o \in JobState \ {c} : s[o] = lastStatus[o]
      BY <3>1, <1>h, <2>t
    <3>3. /\ handlers'[c] = 1
          /\ \A o \in JobState \ {c} : handlers'[o] = handlers[o]
      BY <2>7, <3>1, <1>h DEF LoadSaysRun
    <3>4. \A o \in JobState :
              /\ handlers'[o] <= 1
              /\ \A u \in Ticks \ {t} : ticks[u].obj = o => handlers'[o] = 0
      <4>1. ASSUME NEW o \in JobState, o # c
            PROVE  /\ handlers'[o] <= 1
                   /\ \A u \in Ticks \ {t} : ticks[u].obj = o => handlers'[o] = 0
        BY <4>1, <3>3, <1>h DEF IInv, AtMostOneRun, Claimed
      <4> QED
        BY <4>1, <3>1, <3>3
    <3>5. \A o \in JobState :
              /\ s[o] = "running" <=> \/ handlers'[o] > 0
                                      \/ \E u \in Ticks \ {t} : ticks[u].obj = o
                                      \/ o \in lost'
              /\ o \in lost' => /\ handlers'[o] = 0
                                /\ \A u \in Ticks \ {t} : ticks[u].obj # o
      <4>1. ASSUME NEW o \in JobState, o # c
            PROVE /\ s[o] = "running" <=> \/ handlers'[o] > 0
                                          \/ \E u \in Ticks \ {t} : ticks[u].obj = o
                                          \/ o \in lost'
                  /\ o \in lost' => /\ handlers'[o] = 0
                                    /\ \A u \in Ticks \ {t} : ticks[u].obj # o
        BY <4>1, <3>1, <3>2, <3>3, <2>s
      <4> QED
        BY <4>1, <3>1, <3>2, <3>3
    <3>6. \A o \in ticks[t].seen : due[o]
      BY DEF IInv
    <3> HIDE DEF s, c
    <3> QED
      BY <2>t, <3>1, <3>2, <3>4, <3>5, <3>6, <1>type, WalkKeepsLock
  <2>8. CASE LoadRejects(t)
    <3>1. /\ ticks'[t] = IdleTick /\ lost' = lost \union {ticks[t].obj}
          /\ \A u \in Ticks \ {t} : ticks'[u] = ticks[u]
          /\ UNCHANGED <<lastStatus, handlers, due>>
      BY <2>8, <1>h DEF LoadRejects
    <3>2. \A o \in JobState : Claimed(o)' => Claimed(o)
      BY <3>1, <2>t DEF Claimed, IdleTick
    <3>3. AtMostOneRun'
      <4>1. \A o \in JobState : handlers'[o] <= 1 /\ (handlers'[o] = 1 => ~Claimed(o)')
        BY <3>1, <3>2 DEF AtMostOneRun, IInv
      <4>2. \A o \in JobState, u1, u2 \in Ticks :
               ticks'[u1].obj = o /\ ticks'[u2].obj = o => u1 = u2
        BY <3>1, <2>t DEF IInv, AtMostOneRun, IdleTick
      <4> QED
        BY <4>1, <4>2 DEF AtMostOneRun
    <3>4. LockIsExact'
      <4>1. ASSUME NEW o \in JobState
            PROVE Claimed(o)' \/ o \in lost' <=> Claimed(o) \/ o \in lost
        <5>1. Claimed(o)' <=> \E u \in Ticks \ {t} : ticks[u].obj = o
          BY <3>1, <2>t DEF Claimed, IdleTick
        <5>2. o \in lost' <=> o \in lost \/ o = ticks[t].obj
          BY <3>1
        <5> QED
          BY <2>5, <5>1, <5>2
      <4> QED
        BY <3>1, <4>1 DEF LockIsExact, IInv
    <3>7. LostIsFree'
      <4>1. ASSUME NEW o \in lost', NEW u \in Ticks
            PROVE  handlers'[o] = 0 /\ ticks'[u].obj # o
        <5>1. CASE o \in lost
          BY <5>1, <3>1, <2>t, <1>h DEF IInv, LostIsFree, IdleTick
        <5>2. CASE o = ticks[t].obj
          <6>1. ticks[t].obj # NoJob
            BY <2>8 DEF LoadRejects
          <6> QED
            BY <5>2, <6>1, <2>4, <3>1, <2>t DEF IdleTick
        <5> QED
          BY <4>1, <3>1, <5>1, <5>2
      <4> QED
        BY <4>1 DEF LostIsFree
    <3>5. ClaimedIsDue'
      BY <3>1 DEF ClaimedIsDue, IdleTick, IInv
    <3>6. \A u \in Ticks : ticks'[u].prior # "running" /\ \A o \in ticks'[u].seen : due'[o]
      BY <3>1 DEF IdleTick, IInv
    <3> QED
      BY <1>type, <3>3, <3>4, <3>5, <3>6, <3>7 DEF IInv
  <2> QED
    BY <1>6, <2>2, <2>3, <2>6, <2>7, <2>8 DEF TickStep
<1>7. CASE Start \/ Stop \/ InitTimeoutFires
  BY <1>7, <1>idle DEF Start, Stop, InitTimeoutFires
<1>8. CASE UNCHANGED vars
  BY <1>8, <1>idle DEF vars
<1> QED
  BY <1>1, <1>2, <1>3, <1>4, <1>5, <1>6, <1>7, <1>8 DEF Next

LEMMA InvHolds == Spec => []IInv
<1>1. Init => IInv
  <2> SUFFICES ASSUME Init PROVE IInv
    OBVIOUS
  <2>1. TypeOK
    BY InitTypeOK
  <2>2. /\ \A t \in Ticks : ticks[t] = IdleTick
        /\ \A o \in JobState : handlers[o] = 0 /\ lastStatus[o] = "idle"
        /\ lost = {}
        /\ NoJob \notin JobState
    BY JobSchedulerAssumption DEF Init, JobSchedulerAssumption
  <2>3. \A o \in JobState : ~Claimed(o)
    BY <2>2 DEF Claimed, IdleTick
  <2>4. AtMostOneRun
    BY <2>2, <2>3 DEF AtMostOneRun, IdleTick
  <2>5. LockIsExact
    BY <2>2, <2>3 DEF LockIsExact
  <2>6. ClaimedIsDue /\ LostIsFree
    BY <2>2 DEF ClaimedIsDue, LostIsFree, IdleTick
  <2> QED
    BY <2>1, <2>2, <2>4, <2>5, <2>6 DEF IInv, IdleTick
<1> QED
  BY <1>1, InvStep, PTL DEF Spec

\* However many ticks overlap and whatever the store answers or refuses, no job
\* state is ever run twice at once.
THEOREM MutualExclusion == Spec => []AtMostOneRun
<1>1. IInv => AtMostOneRun
  BY DEF IInv
<1> QED
  BY <1>1, InvHolds, PTL

\* A job reads as running exactly while somebody holds it.
THEOREM LockExactness == Spec => []LockIsExact
<1>1. IInv => LockIsExact
  BY DEF IInv
<1> QED
  BY <1>1, InvHolds, PTL

\* A tick never runs a job that another one finished while it waited.
THEOREM NoStaleClaim == Spec => []ClaimedIsDue
<1>1. IInv => ClaimedIsDue
  BY DEF IInv
<1> QED
  BY <1>1, InvHolds, PTL
=============================================================================
