----------------------------- MODULE UsageQuota -----------------------------
(***************************************************************************)
(* usage-quota for one user and one action that has a positive limit: a    *)
(* request asks whether the count of the day is below it (in               *)
(* enforceUsageLimit), does its work, and records it (trackUsage).  A      *)
(* count or a record that the store rejects does not stop it.              *)
(***************************************************************************)
EXTENDS Naturals

CONSTANTS Request,  \* that may be under way at once
          Limit,    \* getActionLimit
          MaxDay,   \* bound on time
          MaxActs   \* bound on the work done in a day

VARIABLES day,      \* UTC
          events,   \* what the store has recorded on each day
          request,
          acts,     \* history: how often the work was done on each day
          unseen,   \* history: how often of these no count had been had, or none was added that day
          crossed   \* history: two requests were between their count and their record at once

quotaVars == <<day, events, request, acts, unseen, crossed>>

Day == 0 .. MaxDay
NoRequest == [pc |-> "idle"]
InWork == {q \in Request : request[q].pc \in {"work", "record"}}

TypeOK ==
  /\ day \in Day /\ crossed \in BOOLEAN
  /\ events \in [Day -> 0 .. MaxActs] /\ acts \in [Day -> 0 .. MaxActs] /\ unseen \in [Day -> Nat]
  /\ request \in [Request -> {NoRequest} \cup [pc : {"count"}, used : Nat]
                       \cup [pc : {"work"}, seen : BOOLEAN] \cup [pc : {"record"}, seen : BOOLEAN, day : Day]]

Init ==
  /\ day = 0 /\ crossed = FALSE
  /\ events = [d \in Day |-> 0] /\ acts = [d \in Day |-> 0] /\ unseen = [d \in Day |-> 0]
  /\ request = [q \in Request |-> NoRequest]

Becomes(q, x) == request' = [request EXCEPT ![q] = x]

\* The store will be asked for what was recorded since the start of this day: what has
\* been so far, and whatever is added until it answers.
EnforceUsageLimit(q) ==
  /\ request[q] = NoRequest
  /\ Becomes(q, [pc |-> "count", used |-> events[day]])
  /\ UNCHANGED <<day, events, acts, unseen, crossed>>

\* Mutant of Allowed: the limit itself is still allowed.
AllowedAtLimit(used) == used <= Limit

Allowed(used) == used < Limit

GoesOn(q, seen) ==
  /\ Becomes(q, [pc |-> "work", seen |-> seen])
  /\ crossed' = (crossed \/ InWork # {})

CountSince(q) ==
  /\ request[q].pc = "count"
  /\ IF Allowed(request[q].used) THEN GoesOn(q, TRUE) ELSE Becomes(q, NoRequest) /\ UNCHANGED crossed
  /\ UNCHANGED <<day, events, acts, unseen>>

\* Taken for a count of 0.
CountFails(q) ==
  /\ request[q].pc = "count"
  /\ IF Allowed(0) THEN GoesOn(q, FALSE) ELSE Becomes(q, NoRequest) /\ UNCHANGED crossed
  /\ UNCHANGED <<day, events, acts, unseen>>

Unseen(d) == unseen' = [unseen EXCEPT ![d] = @ + 1]

Act(q) ==
  /\ request[q].pc = "work" /\ acts[day] < MaxActs
  /\ acts' = [acts EXCEPT ![day] = @ + 1]
  /\ IF request[q].seen THEN UNCHANGED unseen ELSE Unseen(day)
  /\ Becomes(q, [pc |-> "record", seen |-> request[q].seen, day |-> day])
  /\ UNCHANGED <<day, events, crossed>>

\* On the day it is by then.
Record(q) ==
  /\ request[q].pc = "record" /\ events[day] < MaxActs
  /\ events' = [events EXCEPT ![day] = @ + 1]
  /\ IF request[q].day = day \/ ~request[q].seen THEN UNCHANGED unseen ELSE Unseen(request[q].day)
  /\ request' = [o \in Request |-> IF o = q THEN NoRequest
                                  ELSE IF request[o].pc = "count" THEN [request[o] EXCEPT !.used = @ + 1]
                                  ELSE request[o]]
  /\ UNCHANGED <<day, acts, crossed>>

RecordFails(q) ==
  /\ request[q].pc = "record"
  /\ IF request[q].seen THEN Unseen(request[q].day) ELSE UNCHANGED unseen
  /\ Becomes(q, NoRequest)
  /\ UNCHANGED <<day, events, acts, crossed>>

Midnight == day < MaxDay /\ day' = day + 1 /\ UNCHANGED <<events, request, acts, unseen, crossed>>

Next ==
  \/ Midnight
  \/ \E q \in Request : \/ EnforceUsageLimit(q) \/ CountSince(q) \/ CountFails(q)
                        \/ Act(q) \/ Record(q) \/ RecordFails(q)

-----------------------------------------------------------------------------
\* Requests that do not overlap exceed a day's limit by no more than what the store
\* did not count or did not record for that day, wherever midnight falls.
ExceededOnlyUnseen == ~crossed => \A d \in Day : acts[d] <= Limit + unseen[d]
=============================================================================
