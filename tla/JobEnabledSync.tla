--------------------------- MODULE JobEnabledSync ---------------------------
(***************************************************************************)
(* The enabled flag of one job of packages/job-scheduler, in its two       *)
(* places: definition.enabled in the process and the "enabled" column of   *)
(* the job's row in the JobStateStore.                                     *)
(*                                                                         *)
(* Every persist (setJobEnabled, the end of a run, the initial persist of  *)
(* start()) takes a snapshot of the job with buildRow and sends it with    *)
(* upsertJobRow, an update that is followed by an insert if no row was     *)
(* there.  Nobody waits for it.  A tick reads the flag back with           *)
(* loadEnabled before it runs the job.  The running lock, proved exact in  *)
(* JobSchedulerProofs, appears here as the job's phase.                    *)
(***************************************************************************)
EXTENDS Naturals, Sequences, SequencesExt

CONSTANTS
    MaxWrites,      \* bound: upserts in flight
    MaxRestarts,    \* bound: restarts of the process
    StoreRejects,   \* may the store reject an update or an insert?
    OperatorEdits   \* may an operator disable the job by editing its row?

ASSUME JobEnabledSyncAssumption ==
    /\ MaxWrites \in Nat \ {0}
    /\ MaxRestarts \in Nat
    /\ StoreRejects \in BOOLEAN /\ OperatorEdits \in BOOLEAN

VARIABLES
    local,       \* state.definition.enabled
    phase,       \* idle, claimed by a tick that awaits loadEnabled, or running
    answer,      \* what loadEnabled read, until the tick resumes with it
    row,         \* the enabled column: absent, "true" or "false"
    writes,      \* the store requests in flight, in the order they were sent
    initPersist, \* the initial persist of start() is still to come
    restarts,
    disturbed,   \* of this process's requests one was rejected, overtaken, or an
                 \* insert for a row that another insert had made meanwhile
    off,         \* the operator disabled the row and nobody enabled the job since
    claimedOff   \* was the current run claimed after that, and with no write on its way?

vars == <<local, phase, answer, row, writes, initPersist, restarts, disturbed, off,
          claimedOff>>

Flag(b) == IF b THEN "true" ELSE "false"
Request == [op : {"update", "insert"}, flag : {"true", "false"}]

TypeOK ==
    /\ local \in BOOLEAN
    /\ phase \in {"idle", "claimed", "running"}
    /\ answer \in {"unread", "absent", "true", "false"}
    /\ row \in {"absent", "true", "false"}
    /\ writes \in Seq(Request) /\ Len(writes) <= MaxWrites
    /\ initPersist \in BOOLEAN
    /\ restarts \in 0..MaxRestarts
    /\ disturbed \in BOOLEAN
    /\ off \in BOOLEAN /\ claimedOff \in {"no", "off", "quiet"}

Init ==
    /\ local = TRUE
    /\ phase = "idle"
    /\ answer = "unread"
    /\ row \in {"absent", "true"}
    /\ writes = << >>
    /\ initPersist = TRUE
    /\ restarts = 0
    /\ disturbed = FALSE
    /\ off = FALSE /\ claimedOff = "no"

\* upsertJobRow up to its first await: the row is built here, not when it lands.
Persist(b) ==
    /\ Len(writes) < MaxWrites
    /\ writes' = Append(writes, [op |-> "update", flag |-> Flag(b)])

\* No persist is on its way.
Settled == writes = << >> /\ ~initPersist

\* start() persists the registered definition, whatever the store holds.
InitialPersist ==
    /\ initPersist
    /\ initPersist' = FALSE
    /\ Persist(local)
    /\ UNCHANGED <<local, phase, answer, row, restarts, disturbed, off,
                   claimedOff>>

\* Mutant of SetJobEnabled: the switch is not persisted.
SetJobEnabledLocally(b) ==
    /\ local' = b
    /\ off' = (off /\ ~b)
    /\ claimedOff' = IF b THEN "no" ELSE claimedOff
    /\ UNCHANGED <<phase, answer, row, writes, initPersist, restarts, disturbed>>

\* setJobEnabled.
SetJobEnabled(b) ==
    /\ local' = b
    /\ Persist(b)
    /\ off' = (off /\ ~b)
    /\ claimedOff' = IF b THEN "no" ELSE claimedOff
    /\ UNCHANGED <<phase, answer, row, initPersist, restarts, disturbed>>

TriggerJob ==
    /\ phase = "idle"
    /\ phase' = "running"
    /\ UNCHANGED <<local, answer, row, writes, initPersist, restarts, disturbed, off,
                   claimedOff>>

\* tick() claims the due, enabled job and calls loadEnabled.
TickClaims ==
    /\ phase = "idle" /\ local
    /\ phase' = "claimed"
    /\ claimedOff' = IF ~off THEN "no"
                   ELSE IF Settled /\ row = "false" THEN "quiet" ELSE "off"
    /\ UNCHANGED <<local, answer, row, writes, initPersist, restarts, disturbed, off>>

\* The store reads the column; the tick resumes with the answer later.
StoreReads ==
    /\ phase = "claimed" /\ answer = "unread"
    /\ answer' = row
    /\ UNCHANGED <<local, phase, row, writes, initPersist, restarts, disturbed, off,
                   claimedOff>>

\* Mutant of TickResumes: a tick runs the job whatever the store answered.
TickResumesAnyway ==
    /\ phase = "claimed" /\ answer # "unread"
    /\ answer' = "unread"
    /\ phase' = "running"
    /\ UNCHANGED <<local, claimedOff, row, writes, initPersist, restarts, disturbed, off>>

\* The tick resumes: a stored FALSE disables the job, anything else runs it.
TickResumes ==
    /\ phase = "claimed" /\ answer # "unread"
    /\ answer' = "unread"
    /\ \/ /\ answer = "false"
          /\ local' = FALSE
          /\ phase' = "idle"
          /\ claimedOff' = "no"
       \/ /\ answer # "false"
          /\ phase' = "running"
          /\ UNCHANGED <<local, claimedOff>>
    /\ UNCHANGED <<row, writes, initPersist, restarts, disturbed, off>>

\* executeJob after the handler: persist the job as it is now.
RunEnds ==
    /\ phase = "running"
    /\ phase' = "idle"
    /\ claimedOff' = "no"
    /\ Persist(local)
    /\ UNCHANGED <<local, answer, row, initPersist, restarts, disturbed, off>>

-----------------------------------------------------------------------------
(* The store *)

\* The store serves the requests in flight in any order.
Serve(i, smoothly) ==
    /\ i \in DOMAIN writes
    /\ disturbed' = (disturbed \/ i > 1 \/ ~smoothly)
    /\ UNCHANGED <<local, phase, answer, initPersist, restarts, off, claimedOff>>

\* update: true if the row is there; otherwise the caller goes on to insert.
StoreUpdates(i) ==
    /\ Serve(i, TRUE) /\ writes[i].op = "update"
    /\ \/ /\ row # "absent"
          /\ row' = writes[i].flag
          /\ writes' = RemoveAt(writes, i)
       \/ /\ row = "absent"
          /\ row' = row
          /\ writes' = Append(RemoveAt(writes, i), [writes[i] EXCEPT !.op = "insert"])

\* insert: the in-memory store replaces a row of that name.
StoreInserts(i) ==
    /\ Serve(i, row = "absent") /\ writes[i].op = "insert"
    /\ row' = writes[i].flag
    /\ writes' = RemoveAt(writes, i)

\* The store rejects a request: the persist is over and nobody repeats it.
StoreRefuses(i) ==
    /\ StoreRejects
    /\ i \in DOMAIN writes
    /\ writes' = RemoveAt(writes, i)
    /\ disturbed' = TRUE
    /\ UNCHANGED <<local, phase, answer, row, initPersist, restarts, off, claimedOff>>

\* An operator disables the job in the store.
OperatorDisables ==
    /\ OperatorEdits
    /\ row = "true"
    /\ row' = "false"
    /\ off' = TRUE
    /\ UNCHANGED <<local, phase, answer, writes, initPersist, restarts, disturbed,
                   claimedOff>>

\* The process restarts: the job is registered again with its definition, and
\* requests that had not reached the store are gone.
Restart ==
    /\ restarts < MaxRestarts
    /\ restarts' = restarts + 1
    /\ local' = TRUE
    /\ phase' = "idle"
    /\ answer' = "unread"
    /\ writes' = << >>
    /\ initPersist' = TRUE
    /\ disturbed' = FALSE
    /\ claimedOff' = "no"
    /\ UNCHANGED <<row, off>>

Next ==
    \/ InitialPersist \/ TriggerJob \/ TickClaims \/ StoreReads \/ TickResumes
    \/ RunEnds \/ OperatorDisables \/ Restart
    \/ \E b \in BOOLEAN : SetJobEnabled(b)
    \/ \E i \in 1..MaxWrites : StoreUpdates(i) \/ StoreInserts(i) \/ StoreRefuses(i)

Spec == Init /\ [][Next]_vars

-----------------------------------------------------------------------------
(* Properties *)

\* The toggle is "also reflected to the store" (README.md:38).  What holds of it:
\* a job that is enabled in the process is not left disabled in the store by a
\* persist whose snapshot was older, whichever of setJobEnabled, the initial
\* persist, the end of a run and a restart overlap, as long as the store
\* neither rejects nor reorders requests, two persists do not race to make the
\* row, and no operator edits it.
EnabledReachesStore == Settled /\ local /\ ~disturbed /\ ~off => row = "true"

\* "Disabling is done with the store's loadEnabled or setJobEnabled"
\* (README.md:56): once an operator disabled the job in the store and nobody
\* enabled it, no tick that begins afterwards runs it.
DisableInStoreHolds == ~(phase = "running" /\ off /\ claimedOff # "no")

\* What holds of it: a tick that begins when the row says disabled and no
\* persist is on its way does not run the job, however long the store takes to
\* answer and in whatever order it serves what is sent meanwhile.
QuietDisableHolds == ~(phase = "running" /\ off /\ claimedOff = "quiet")
=============================================================================
