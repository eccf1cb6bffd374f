------------------------------ MODULE LiveState ------------------------------
(***************************************************************************)
(* useLiveState (live-state): a view that fetches the server's state at    *)
(* every interval and, debounced, after change events.  Answers may arrive *)
(* in any order; the view shows the last one it applied.  Versions stand   *)
(* for the server's successive states.                                     *)
(***************************************************************************)
EXTENDS Naturals, Sequences, SequencesExt

CONSTANTS MaxVersion,  \* bound: changes of the server's state
          MaxFetches   \* bound: requests under way at once

VARIABLES server,
          shown,     \* the version the view shows, 0 before the first answer
          fetches,   \* the requests under way, in the order of their seq
          debounce,  \* the timer is set
          event,     \* a change event is on its way
          floor      \* history: the greatest version that was current when a request
                     \* was issued whose answer has been applied

lvars == <<server, shown, fetches, debounce, event, floor>>

\* issued: the version current when the request was made; data: the answer, 0
\* until the server has given it; late: seq < appliedSeq by now.
TypeOK ==
  /\ server \in 1 .. MaxVersion /\ shown \in 0 .. MaxVersion /\ floor \in 0 .. MaxVersion
  /\ fetches \in Seq([issued : 1 .. MaxVersion, data : 0 .. MaxVersion, late : BOOLEAN])
  /\ debounce \in BOOLEAN /\ event \in BOOLEAN

Request == [issued |-> server, data |-> 0, late |-> FALSE]

\* The hook fetches when it is first rendered.
Init ==
  /\ server = 1 /\ shown = 0 /\ floor = 0
  /\ fetches = <<[issued |-> 1, data |-> 0, late |-> FALSE]>>
  /\ debounce = FALSE /\ event = FALSE

\* The event may get lost with the stream.
ServerChanges ==
  /\ server < MaxVersion /\ server' = server + 1
  /\ event' \in {event, TRUE}
  /\ UNCHANGED <<shown, fetches, debounce, floor>>

\* A timer that is set starts again.
StateChangeEvent ==
  /\ event /\ event' = FALSE
  /\ debounce' = TRUE
  /\ UNCHANGED <<server, shown, fetches, floor>>

FetchState ==
  /\ Len(fetches) < MaxFetches
  /\ fetches' = Append(fetches, Request)
  /\ UNCHANGED <<server, shown, event, floor>>

IntervalFires == FetchState /\ UNCHANGED debounce
DebounceFires == debounce /\ FetchState /\ debounce' = FALSE

ServerAnswers(i) ==
  /\ fetches[i].data = 0
  /\ fetches' = [fetches EXCEPT ![i].data = server]
  /\ UNCHANGED <<server, shown, debounce, event, floor>>

\* The requests that were made before the i-th come late from now on.
Superseded(i) == [j \in DOMAIN fetches |-> IF j < i THEN [fetches[j] EXCEPT !.late = TRUE] ELSE fetches[j]]

\* Mutant of Apply: whatever comes in is shown.
ApplyAny(i) ==
  /\ fetches[i].data # 0
  /\ shown' = fetches[i].data
  /\ floor' = IF fetches[i].issued > floor THEN fetches[i].issued ELSE floor
  /\ fetches' = RemoveAt(Superseded(i), i)
  /\ UNCHANGED <<server, debounce, event>>

\* Mutant of Apply: only the answer to the latest request is shown.
ApplyLatest(i) ==
  /\ fetches[i].data # 0 /\ i = Len(fetches)
  /\ shown' = fetches[i].data
  /\ floor' = IF fetches[i].issued > floor THEN fetches[i].issued ELSE floor
  /\ fetches' = RemoveAt(Superseded(i), i)
  /\ UNCHANGED <<server, debounce, event>>

Apply(i) ==
  /\ fetches[i].data # 0 /\ ~fetches[i].late
  /\ shown' = fetches[i].data
  /\ floor' = IF fetches[i].issued > floor THEN fetches[i].issued ELSE floor
  /\ fetches' = RemoveAt(Superseded(i), i)
  /\ UNCHANGED <<server, debounce, event>>

\* Dropped: a request made later has been applied.
Drop(i) ==
  /\ fetches[i].data # 0 /\ fetches[i].late
  /\ fetches' = RemoveAt(fetches, i)
  /\ UNCHANGED <<server, shown, debounce, event, floor>>

FetchFails(i) ==
  /\ fetches' = RemoveAt(fetches, i)
  /\ UNCHANGED <<server, shown, debounce, event, floor>>

FetchStep(i) == ServerAnswers(i) \/ Apply(i) \/ Drop(i) \/ FetchFails(i)

Next ==
  \/ ServerChanges \/ StateChangeEvent \/ IntervalFires \/ DebounceFires
  \/ \E i \in DOMAIN fetches : FetchStep(i)

-----------------------------------------------------------------------------
\* The view never shows a state older than the one that was current when a
\* request was made whose answer it has shown, however slow the answers are and in
\* whatever order they come ("a slow/stale GET can never overwrite", useLiveState.ts).
\* It may show an older one than before all the same: the answer to the later of two
\* requests may have been read first.
NeverGoesBack == shown >= floor

\* The view shows the server's state: so it comes to be when the server has come to
\* rest, whatever was lost or came in the wrong order before.
CatchesUp == shown = server
=============================================================================
