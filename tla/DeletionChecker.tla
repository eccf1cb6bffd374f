-------------------------- MODULE DeletionChecker --------------------------
(***************************************************************************)
(* createGdprExecutor (gdpr): a checker that every interval lists the      *)
(* deletion requests whose grace period is over and deletes the user's     *)
(* rows from one table after the other.  A check that outlasts the         *)
(* interval overlaps the next one; users may still be writing.             *)
(***************************************************************************)
EXTENDS Naturals, Sequences

CONSTANTS User,
          Cascade,   \* cascadeTargets, in order
          Optional,  \* the tables that may not be there
          Check,     \* checks that may be under way at once
          Written,   \* bound: the <<table, user>> of which rows are still written
          Stubborn   \* the users whose deletions always fail; their rows are not followed

Table == {Cascade[i] : i \in 1 .. Len(Cascade)}

VARIABLES request,   \* the deletion request of each user
          rows,      \* <<table, user>>
          missing,   \* the tables that do not exist
          check,
          timer,     \* interval, startup
          healthy,   \* the store answers
          excused    \* history: the tables in which rows of the user were written after
                     \* the deletion that completed the request

dvars == <<request, rows, missing, check, timer, healthy, excused>>

NoCheck == [pc |-> "idle"]
Free(c) == check[c] = NoCheck

\* since is history: the tables written to after the check had been there.
Work == [pc : {"delete", "mark"}, user : User, todo : SUBSET User, next : 1 .. Len(Cascade) + 1,
         failed : BOOLEAN, since : SUBSET Table]

TypeOK ==
  /\ request \in [User -> {"none", "waiting", "due", "completed"}]
  /\ rows \subseteq Table \X User /\ missing \subseteq Optional
  /\ check \in [Check -> Work \cup {NoCheck, [pc |-> "list"]}]
  /\ timer \in [interval : BOOLEAN, startup : BOOLEAN]
  /\ healthy \in BOOLEAN /\ excused \in [User -> SUBSET Table]

Init ==
  /\ request = [u \in User |-> "none"] /\ rows = Table \X (User \ Stubborn) /\ missing = {}
  /\ check = [c \in Check |-> NoCheck]
  /\ timer = [interval |-> FALSE, startup |-> FALSE]
  /\ healthy = FALSE /\ excused = [u \in User |-> {}]

-----------------------------------------------------------------------------
\* The application around the checker.

RequestDeletion(u) ==
  /\ request[u] = "none"
  /\ request' = [request EXCEPT ![u] = "waiting"]
  /\ UNCHANGED <<rows, missing, check, timer, healthy, excused>>

GracePasses(u) ==
  /\ request[u] = "waiting"
  /\ request' = [request EXCEPT ![u] = "due"]
  /\ UNCHANGED <<rows, missing, check, timer, healthy, excused>>

Past(c, t) == \E i \in 1 .. check[c].next - 1 : Cascade[i] = t

WriteRow(t, u) ==
  /\ t \notin missing /\ <<t, u>> \notin rows
  /\ rows' = rows \cup {<<t, u>>}
  /\ check' = [c \in Check |->
       IF ~Free(c) /\ check[c].pc # "list" /\ check[c].user = u /\ Past(c, t)
       THEN [check[c] EXCEPT !.since = @ \cup {t}] ELSE check[c]]
  /\ excused' = IF request[u] = "completed" THEN [excused EXCEPT ![u] = @ \cup {t}] ELSE excused
  /\ UNCHANGED <<request, missing, timer, healthy>>

\* A table without rows may not be there yet.
TableAppears(t) ==
  /\ t \in missing
  /\ missing' = missing \ {t}
  /\ UNCHANGED <<request, rows, check, timer, healthy, excused>>

TableGoes(t) ==
  /\ t \in Optional \ missing /\ \A u \in User : <<t, u>> \notin rows
  /\ missing' = missing \cup {t}
  /\ UNCHANGED <<request, rows, check, timer, healthy, excused>>

Recover ==
  /\ ~healthy /\ healthy' = TRUE
  /\ UNCHANGED <<request, rows, missing, check, timer, excused>>

\* The process ends, and another one starts without timers.
Restart ==
  /\ ~healthy
  /\ check' = [c \in Check |-> NoCheck]
  /\ timer' = [interval |-> FALSE, startup |-> FALSE]
  /\ UNCHANGED <<request, rows, missing, healthy, excused>>

-----------------------------------------------------------------------------
\* The timers.

StartDeletionChecker ==
  /\ ~timer.interval
  /\ timer' = [interval |-> TRUE, startup |-> TRUE]
  /\ UNCHANGED <<request, rows, missing, check, healthy, excused>>

StopDeletionChecker ==
  /\ timer.interval \/ timer.startup
  /\ timer' = [interval |-> FALSE, startup |-> FALSE]
  /\ UNCHANGED <<request, rows, missing, check, healthy, excused>>

BeginCheck(c) ==
  /\ Free(c)
  /\ check' = [check EXCEPT ![c] = [pc |-> "list"]]
  /\ UNCHANGED <<request, rows, missing, healthy, excused>>

IntervalFires(c) == timer.interval /\ BeginCheck(c) /\ UNCHANGED timer
StartupFires(c) == timer.startup /\ BeginCheck(c) /\ timer' = [timer EXCEPT !.startup = FALSE]

-----------------------------------------------------------------------------
\* checkAndExecuteDeletions.

\* The next request of the list, if there is one, from the first table on.
Proceed(c, todo) ==
  IF todo = {} THEN check' = [check EXCEPT ![c] = NoCheck]
  ELSE \E u \in todo : check' = [check EXCEPT ![c] =
         [pc |-> "delete", user |-> u, todo |-> todo \ {u}, next |-> 1, failed |-> FALSE, since |-> {}]]

ListPendingRequests(c) ==
  /\ check[c].pc = "list"
  /\ Proceed(c, {u \in User : request[u] = "due"})
  /\ UNCHANGED <<request, rows, missing, timer, healthy, excused>>

ListFails(c) ==
  /\ check[c].pc = "list" /\ ~healthy
  /\ check' = [check EXCEPT ![c] = NoCheck]
  /\ UNCHANGED <<request, rows, missing, timer, healthy, excused>>

Deleting(c) == check[c].pc = "delete"
Target(c) == Cascade[check[c].next]

\* After the last table: completed only if every one succeeded.
Onward(c, failed) ==
  IF check[c].next < Len(Cascade)
  THEN check' = [check EXCEPT ![c] = [check[c] EXCEPT !.next = @ + 1, !.failed = failed]]
  ELSE IF failed THEN Proceed(c, check[c].todo)
  ELSE check' = [check EXCEPT ![c] = [check[c] EXCEPT !.next = @ + 1, !.pc = "mark"]]

\* A table that is missing is skipped: there is nothing to delete in it.
DeleteRows(c) ==
  /\ Deleting(c) /\ check[c].user \notin Stubborn
  /\ rows' = rows \ {<<Target(c), check[c].user>>}
  /\ Onward(c, check[c].failed)
  /\ UNCHANGED <<request, missing, timer, healthy, excused>>

\* Mutant of DeleteFails: the error of an earlier table is forgotten.
DeleteFailsForgotten(c) ==
  /\ Deleting(c) /\ (~healthy \/ check[c].user \in Stubborn)
  /\ Onward(c, check[c].next = Len(Cascade))
  /\ UNCHANGED <<request, rows, missing, timer, healthy, excused>>

\* Mutant of DeleteFails: the error is not caught.
DeleteFailsUncaught(c) ==
  /\ Deleting(c) /\ (~healthy \/ check[c].user \in Stubborn)
  /\ check' = [check EXCEPT ![c] = NoCheck]
  /\ UNCHANGED <<request, rows, missing, timer, healthy, excused>>

DeleteFails(c) ==
  /\ Deleting(c) /\ (~healthy \/ check[c].user \in Stubborn)
  /\ Onward(c, TRUE)
  /\ UNCHANGED <<request, rows, missing, timer, healthy, excused>>

MarkDeletionCompleted(c) ==
  /\ check[c].pc = "mark"
  /\ request' = [request EXCEPT ![check[c].user] = "completed"]
  /\ excused' = [excused EXCEPT ![check[c].user] = @ \cup check[c].since]
  /\ Proceed(c, check[c].todo)
  /\ UNCHANGED <<rows, missing, timer, healthy>>

MarkFails(c) ==
  /\ check[c].pc = "mark" /\ ~healthy
  /\ Proceed(c, check[c].todo)
  /\ UNCHANGED <<request, rows, missing, timer, healthy, excused>>

CheckStep(c) ==
  \/ ListPendingRequests(c) \/ ListFails(c) \/ DeleteRows(c) \/ DeleteFails(c)
  \/ MarkDeletionCompleted(c) \/ MarkFails(c)

Next ==
  \/ \E u \in User : RequestDeletion(u) \/ GracePasses(u)
  \/ \E t \in Table : TableAppears(t) \/ TableGoes(t)
  \/ \E w \in Written : WriteRow(w[1], w[2])
  \/ Recover \/ Restart \/ StartDeletionChecker \/ StopDeletionChecker
  \/ \E c \in Check : IntervalFires(c) \/ StartupFires(c) \/ CheckStep(c)

-----------------------------------------------------------------------------
\* A completed request leaves no row of the user in any table, but for rows
\* written after the check that completed it had been at the table: whatever
\* failed, was missing, was retried or overlapped before.
CompletedLeavesNothingOlder ==
  \A u \in User : request[u] = "completed" => {t \in Table : <<t, u>> \in rows} \subseteq excused[u]

\* No request whose grace is over is waiting still: so it comes to be for good, once the
\* store has recovered and while the checker runs, although one user's rows can never
\* be deleted.
DueIsCompleted == \A u \in User \ Stubborn : request[u] # "due"
=============================================================================
