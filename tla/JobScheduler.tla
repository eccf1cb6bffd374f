---------------------------- MODULE JobScheduler ----------------------------
(***************************************************************************)
(* The running lock of packages/job-scheduler (src/job-scheduler.ts).      *)
(*                                                                         *)
(* A scheduler holds a Map of job states in registration order.  Every     *)
(* tick walks the Map; for a job that is enabled, not running and due it   *)
(* claims the job by setting lastStatus to "running", awaits the store's   *)
(* enabled flag, and then either releases the job or starts its handler    *)
(* without awaiting it.  triggerJob() starts a handler at once.  Between   *)
(* two awaits JavaScript is not preempted, so what one action below does   *)
(* is exactly what runs between two awaits.                                *)
(*                                                                         *)
(* The store is external: its answer to loadEnabled is any of true, false, *)
(* null, or a rejected promise if StoreRejects.  What is written to it     *)
(* is the subject of module JobEnabledSync.                                *)
(***************************************************************************)
EXTENDS Naturals, Sequences, FiniteSets

CONSTANTS
    Jobs,              \* job names
    Ticks,             \* identities for the ticks that can be in flight at once
    MaxRegistrations,  \* bound: calls of registerJob
    MaxInitLoops,      \* bound: start() callbacks in their persist loop at once
    StoreRejects,      \* may the store's loadEnabled reject?
    NoJob              \* "no job state"

\* A job state object, named by its job and the call of registerJob that made it.
JobState == Jobs \X (1..MaxRegistrations)

ASSUME JobSchedulerAssumption ==
    /\ MaxRegistrations \in Nat \ {0}
    /\ MaxInitLoops \in Nat
    /\ StoreRejects \in BOOLEAN
    /\ NoJob \notin JobState

VARIABLES
    jobs,          \* the Map's values in insertion order
    registrations, \* calls of registerJob so far
    enabled,       \* state.definition.enabled
    lastStatus,    \* state.lastStatus
    due,           \* nextRunAt has passed
    handlers,      \* handler invocations in flight, per job state
    lost,          \* states whose loadEnabled rejected while they were claimed
    ticks,         \* the ticks in flight
    interval,      \* tickInterval # null
    initTimeout,   \* the initial timeout is armed
    initLoops      \* start() callbacks past their timeout, persisting

vars == <<jobs, registrations, enabled, lastStatus, due, handlers, lost, ticks,
          interval, initTimeout, initLoops>>

Status == {"idle", "running", "success", "error"}

\* A tick is idle or awaits loadEnabled for the state it has claimed; "seen"
\* holds the states whose nextRunAt was not later than the tick's own `now`.
IdleTick == [obj |-> NoJob, pos |-> 0, prior |-> "idle", seen |-> {}]

TickRecord == [obj   : JobState \union {NoJob},
               pos   : Nat,
               prior : Status,
               seen  : SUBSET JobState]

Registered(o) == o \in {jobs[i] : i \in DOMAIN jobs}

TypeOK ==
    /\ jobs \in Seq(JobState)
    /\ registrations \in 0..MaxRegistrations
    /\ enabled \in [JobState -> BOOLEAN]
    /\ lastStatus \in [JobState -> Status]
    /\ due \in [JobState -> BOOLEAN]
    /\ handlers \in [JobState -> Nat]
    /\ lost \subseteq JobState
    /\ ticks \in [Ticks -> TickRecord]
    /\ interval \in BOOLEAN
    /\ initTimeout \in BOOLEAN
    /\ initLoops \in 0..MaxInitLoops

Init ==
    /\ jobs = << >>
    /\ registrations = 0
    /\ enabled = [o \in JobState |-> FALSE]
    /\ lastStatus = [o \in JobState |-> "idle"]
    /\ due = [o \in JobState |-> FALSE]
    /\ handlers = [o \in JobState |-> 0]
    /\ lost = {}
    /\ ticks = [t \in Ticks |-> IdleTick]
    /\ interval = FALSE
    /\ initTimeout = FALSE
    /\ initLoops = 0

-----------------------------------------------------------------------------
(* The public operations *)

\* registerJob: a fresh state replaces the one the Map holds under the name,
\* in its place, even while that one is running.
RegisterJob(j, flag) ==
    /\ registrations < MaxRegistrations
    /\ registrations' = registrations + 1
    /\ LET o == <<j, registrations + 1>> IN
       /\ enabled' = [enabled EXCEPT ![o] = flag]
       /\ \/ /\ \A i \in DOMAIN jobs : jobs[i][1] # j
             /\ jobs' = Append(jobs, o)
          \/ \E i \in DOMAIN jobs : /\ jobs[i][1] = j
                                    /\ jobs' = [jobs EXCEPT ![i] = o]
    /\ UNCHANGED <<lastStatus, due, handlers, lost, ticks, interval, initTimeout,
                   initLoops>>

\* setJobEnabled.
SetJobEnabled(o, flag) ==
    /\ Registered(o)
    /\ enabled' = [enabled EXCEPT ![o] = flag]
    /\ UNCHANGED <<jobs, registrations, lastStatus, due, handlers, lost, ticks,
                   interval, initTimeout, initLoops>>

\* Mutant of TriggerJob: the lock is not looked at.
TriggerJobUnlocked(o) ==
    /\ Registered(o)
    /\ lastStatus' = [lastStatus EXCEPT ![o] = "running"]
    /\ handlers' = [handlers EXCEPT ![o] = @ + 1]
    /\ UNCHANGED <<jobs, registrations, enabled, due, ticks, lost, interval,
                   initTimeout, initLoops>>

\* triggerJob: refused while running, else claims the job and starts the
\* handler in the same synchronous stretch (enabled and nextRunAt are ignored).
TriggerJob(o) ==
    /\ Registered(o)
    /\ lastStatus[o] # "running"
    /\ lastStatus' = [lastStatus EXCEPT ![o] = "running"]
    /\ handlers' = [handlers EXCEPT ![o] = @ + 1]
    /\ UNCHANGED <<jobs, registrations, enabled, due, ticks, lost, interval,
                   initTimeout, initLoops>>

Start ==
    /\ ~interval
    /\ interval' = TRUE
    /\ initTimeout' = TRUE
    /\ UNCHANGED <<jobs, registrations, enabled, lastStatus, due, handlers,
                   ticks, lost, initLoops>>

\* stop() clears the two timers; a callback that already runs goes on.
Stop ==
    /\ interval
    /\ interval' = FALSE
    /\ initTimeout' = FALSE
    /\ UNCHANGED <<jobs, registrations, enabled, lastStatus, due, handlers,
                   ticks, lost, initLoops>>

-----------------------------------------------------------------------------
(* The tick loop *)

\* Mutants of Eligible: the comparison with nextRunAt is dropped; the walk is
\* off by one.
EligibleNotDue(from, seen, en, ls) ==
    {i \in DOMAIN jobs : i >= from /\ en[jobs[i]] /\ ls[jobs[i]] # "running"}

EligibleSkipsOne(from, seen, en, ls) ==
    {i \in DOMAIN jobs : /\ i > from
                         /\ en[jobs[i]]
                         /\ ls[jobs[i]] # "running"
                         /\ jobs[i] \in seen}

\* The positions of the Map, from "from" on, at which the loop of tick() does
\* not `continue`, given the flags and statuses it reads.
Eligible(from, seen, en, ls) ==
    {i \in DOMAIN jobs : /\ i >= from
                         /\ en[jobs[i]]
                         /\ ls[jobs[i]] # "running"
                         /\ jobs[i] \in seen}

\* The loop runs on from "from" to the first job it claims, and awaits the
\* store there, or to the end of the Map.
WalkFrom(t, from, seen, en, ls) ==
    LET E == Eligible(from, seen, en, ls) IN
    \/ /\ E = {}
       /\ ticks' = [ticks EXCEPT ![t] = IdleTick]
       /\ lastStatus' = ls
    \/ \E i \in E :
       /\ \A k \in E : i <= k
       /\ ticks' = [ticks EXCEPT ![t] = [obj   |-> jobs[i],
                                         pos   |-> i,
                                         prior |-> ls[jobs[i]],
                                         seen  |-> seen]]
       /\ lastStatus' = [ls EXCEPT ![jobs[i]] = "running"]

BeginTick(t) ==
    /\ ticks[t].obj = NoJob
    /\ WalkFrom(t, 1, {o \in JobState : due[o]}, enabled, lastStatus)

\* The interval fires; ticks overlap when the store is slow.
IntervalTick(t) ==
    /\ interval
    /\ BeginTick(t)
    /\ UNCHANGED <<jobs, registrations, enabled, due, handlers, lost, interval,
                   initTimeout, initLoops>>

\* The initial timeout fires and its callback starts to persist every job.
InitTimeoutFires ==
    /\ initTimeout
    /\ initLoops < MaxInitLoops
    /\ initTimeout' = FALSE
    /\ initLoops' = initLoops + 1
    /\ UNCHANGED <<jobs, registrations, enabled, lastStatus, due, handlers,
                   ticks, lost, interval>>

\* The callback has persisted every job and runs the first tick, stopped or not.
FirstTick(t) ==
    /\ initLoops > 0
    /\ initLoops' = initLoops - 1
    /\ BeginTick(t)
    /\ UNCHANGED <<jobs, registrations, enabled, due, handlers, lost, interval,
                   initTimeout>>

\* Mutant of LoadSaysDisabled: the lock is not released.
LoadSaysDisabledKeepsLock(t) ==
    /\ ticks[t].obj # NoJob
    /\ enabled' = [enabled EXCEPT ![ticks[t].obj] = FALSE]
    /\ WalkFrom(t, ticks[t].pos + 1, ticks[t].seen, enabled', lastStatus)
    /\ UNCHANGED <<jobs, registrations, due, handlers, lost, interval, initTimeout,
                   initLoops>>

\* loadEnabled resolves with false: disable the job, release it, walk on.
LoadSaysDisabled(t) ==
    /\ ticks[t].obj # NoJob
    /\ LET o == ticks[t].obj IN
       /\ enabled' = [enabled EXCEPT ![o] = FALSE]
       /\ WalkFrom(t, ticks[t].pos + 1, ticks[t].seen, enabled',
                   [lastStatus EXCEPT ![o] = ticks[t].prior])
    /\ UNCHANGED <<jobs, registrations, due, handlers, lost, interval, initTimeout,
                   initLoops>>

\* loadEnabled resolves with true or null: start the handler, walk on.
LoadSaysRun(t) ==
    /\ ticks[t].obj # NoJob
    /\ LET o == ticks[t].obj IN
       /\ handlers' = [handlers EXCEPT ![o] = @ + 1]
       /\ WalkFrom(t, ticks[t].pos + 1, ticks[t].seen, enabled,
                   [lastStatus EXCEPT ![o] = "running"])
    /\ UNCHANGED <<jobs, registrations, enabled, due, lost, interval, initTimeout,
                   initLoops>>

\* loadEnabled rejects: the tick is over, and the claim is never released.
LoadRejects(t) ==
    /\ StoreRejects
    /\ ticks[t].obj # NoJob
    /\ lost' = lost \union {ticks[t].obj}
    /\ ticks' = [ticks EXCEPT ![t] = IdleTick]
    /\ UNCHANGED <<jobs, registrations, enabled, lastStatus, due, handlers,
                   interval, initTimeout, initLoops>>

-----------------------------------------------------------------------------
(* The end of a run, and time *)

\* Mutant of HandlerSettles: the outcome is counted before the handler is done.
HandlerSettlesEarly(o, outcome) ==
    /\ lastStatus[o] = "running"
    /\ handlers' = [handlers EXCEPT ![o] = @ - 1]
    /\ lastStatus' = [lastStatus EXCEPT ![o] = outcome]
    /\ due' = [due EXCEPT ![o] = FALSE]
    /\ ticks' = [t \in Ticks |-> [ticks[t] EXCEPT !.seen = @ \ {o}]]
    /\ UNCHANGED <<jobs, registrations, enabled, lost, interval, initTimeout,
                   initLoops>>

\* executeJob after the handler settles: the new nextRunAt lies in the future
\* of every tick under way.
HandlerSettles(o, outcome) ==
    /\ handlers[o] > 0
    /\ handlers' = [handlers EXCEPT ![o] = @ - 1]
    /\ lastStatus' = [lastStatus EXCEPT ![o] = outcome]
    /\ due' = [due EXCEPT ![o] = FALSE]
    /\ ticks' = [t \in Ticks |-> [ticks[t] EXCEPT !.seen = @ \ {o}]]
    /\ UNCHANGED <<jobs, registrations, enabled, lost, interval, initTimeout,
                   initLoops>>

\* nextRunAt passes.
BecomesDue(o) ==
    /\ Registered(o)
    /\ ~due[o]
    /\ due' = [due EXCEPT ![o] = TRUE]
    /\ UNCHANGED <<jobs, registrations, enabled, lastStatus, handlers, lost,
                   ticks, interval, initTimeout, initLoops>>

-----------------------------------------------------------------------------
TickStep(t) == IntervalTick(t) \/ FirstTick(t) \/ LoadSaysDisabled(t)
                 \/ LoadSaysRun(t) \/ LoadRejects(t)

Next ==
    \/ \E j \in Jobs, flag \in BOOLEAN : RegisterJob(j, flag)
    \/ \E o \in JobState, flag \in BOOLEAN : SetJobEnabled(o, flag)
    \/ \E o \in JobState : TriggerJob(o) \/ BecomesDue(o)
    \/ \E o \in JobState, outcome \in {"success", "error"} : HandlerSettles(o, outcome)
    \/ \E t \in Ticks : TickStep(t)
    \/ Start \/ Stop \/ InitTimeoutFires

Spec == Init /\ [][Next]_vars

\* Timers fire and the store answers (or rejects); job handlers settle.
Fairness ==
    /\ WF_vars(\E t \in Ticks : IntervalTick(t))
    /\ \A t \in Ticks : WF_vars(LoadSaysDisabled(t) \/ LoadSaysRun(t) \/ LoadRejects(t))
    /\ \A o \in JobState : WF_vars(HandlerSettles(o, "success") \/ HandlerSettles(o, "error"))

FairSpec == Spec /\ Fairness

-----------------------------------------------------------------------------
(* Properties *)

Claimed(o) == \E t \in Ticks : ticks[t].obj = o

\* Overlapping ticks and triggerJob never run or claim one job state twice:
\* the reason tick() claims the lock before it awaits the store.
AtMostOneRun ==
    \A o \in JobState :
        /\ handlers[o] <= 1
        /\ handlers[o] = 1 => ~Claimed(o)
        /\ \A t1, t2 \in Ticks : ticks[t1].obj = o /\ ticks[t2].obj = o => t1 = t2

\* A job reads as running exactly while a handler is in flight or a tick will
\* decide about it.  One way round, nothing that runs can be claimed again; the
\* other way round, no path out of tick() or executeJob() forgets to release
\* the lock, which would make every later tick and trigger refuse the job.  The
\* one exception is a loadEnabled that rejects: that job stays locked for good.
LockIsExact ==
    \A o \in JobState :
        lastStatus[o] = "running" <=> handlers[o] > 0 \/ Claimed(o) \/ o \in lost

\* A tick compares nextRunAt with the time it began, so a job that another
\* tick or a trigger ran to its end while this tick awaited the store is not
\* run again: whatever a tick has claimed is still due, and stays so until the
\* tick decides.
ClaimedIsDue == \A t \in Ticks : ticks[t].obj # NoJob => due[ticks[t].obj]

\* A job that is due and enabled is run, unless it is disabled, replaced, the
\* scheduler stops or its own lock was lost in a rejected loadEnabled: a slow,
\* disabling or rejecting store answer for one job does not starve another.
DueJobIsServed ==
    \A o \in JobState :
        Registered(o) /\ due[o] /\ enabled[o] /\ interval
            ~> \/ handlers[o] = 1 \/ ~enabled[o] \/ ~Registered(o)
               \/ ~interval \/ o \in lost
=============================================================================
