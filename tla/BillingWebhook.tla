--------------------------- MODULE BillingWebhook ---------------------------
(***************************************************************************)
(* WebhookProcessor.process (stripe-billing): ask the event store, run the *)
(* handler, mark the event.  Stripe delivers an event again until it has   *)
(* seen a 200, and now and then although it has; the process may crash.    *)
(* A delivery with a bad signature is refused before anything is read.     *)
(* A processor without an event store handles whatever it is sent; the one *)
(* modelled has a store.                                                   *)
(***************************************************************************)
CONSTANTS Event,
          Subscribed, \* the events whose type has a handler
          Delivery    \* deliveries that may be under way at once

VARIABLES processed,  \* the events the event store has marked
          delivery,
          acked,      \* the events Stripe has seen a 200 for
          done,       \* history: the events whose handler has succeeded
          again,      \* history: ... more than once
          contended   \* history: the events that were delivered while a delivery was
                      \* under way, or were handled without being marked

bvars == <<processed, delivery, acked, done, again, contended>>

NoDelivery == [pc |-> "idle"]
Free(d) == delivery[d] = NoDelivery
Of(d) == delivery[d].event
Awaits(d, pc) == delivery[d].pc = pc

TypeOK ==
  /\ delivery \in [Delivery -> {NoDelivery} \cup [pc : {"check", "handle", "mark"}, event : Event]]
  /\ processed \subseteq Event /\ acked \subseteq Event /\ contended \subseteq Event
  /\ done \subseteq Subscribed /\ again \subseteq done

Init ==
  /\ delivery = [d \in Delivery |-> NoDelivery]
  /\ processed = {} /\ acked = {} /\ done = {} /\ again = {} /\ contended = {}

Goto(d, pc) == delivery' = [delivery EXCEPT ![d].pc = pc]
Leaves(d) == delivery' = [delivery EXCEPT ![d] = NoDelivery]

\* The answer is a 200, which may get lost.
Accept(d) ==
  /\ Leaves(d)
  /\ acked' \in {acked, acked \cup {Of(d)}}

\* The answer is not a 200, or there is none.
Refuse(d) == Leaves(d) /\ UNCHANGED acked

\* Mutant of Dispatched: every event goes to the handler.
DispatchedAll(e) == "handle"

\* What has no handler is only marked.
Dispatched(e) == IF e \in Subscribed THEN "handle" ELSE "mark"

Deliver(d, e) ==
  /\ Free(d)
  /\ delivery' = [delivery EXCEPT ![d] = [pc |-> "check", event |-> e]]
  /\ contended' = IF \E o \in Delivery : ~Free(o) /\ Of(o) = e THEN contended \cup {e} ELSE contended
  /\ UNCHANGED <<processed, acked, done, again>>

\* Mutant of HasProcessed: the event is marked before it is handled.
HasProcessedMarksFirst(d) ==
  /\ Awaits(d, "check")
  /\ IF Of(d) \in processed THEN Accept(d) ELSE Goto(d, Dispatched(Of(d))) /\ UNCHANGED acked
  /\ processed' = processed \cup {Of(d)}
  /\ UNCHANGED <<done, again, contended>>

HasProcessed(d) ==
  /\ Awaits(d, "check")
  /\ IF Of(d) \in processed THEN Accept(d) ELSE Goto(d, Dispatched(Of(d))) /\ UNCHANGED acked
  /\ UNCHANGED <<processed, done, again, contended>>

HasProcessedRejects(d) ==
  /\ Awaits(d, "check")
  /\ Refuse(d)
  /\ UNCHANGED <<processed, done, again, contended>>

HandlerSucceeds(d) ==
  /\ Awaits(d, "handle")
  /\ done' = done \cup {Of(d)}
  /\ again' = IF Of(d) \in done THEN again \cup {Of(d)} ELSE again
  /\ Goto(d, "mark")
  /\ UNCHANGED <<processed, acked, contended>>

\* Mutant of HandlerThrows: the error is reported and the event accepted.
HandlerThrowsAccepted(d) ==
  /\ Awaits(d, "handle")
  /\ Leaves(d) /\ acked' = acked \cup {Of(d)}
  /\ UNCHANGED <<processed, done, again, contended>>

\* Not marked, and Stripe is asked to deliver again.
HandlerThrows(d) ==
  /\ Awaits(d, "handle")
  /\ Refuse(d)
  /\ UNCHANGED <<processed, done, again, contended>>

\* Mutant of MarkProcessed: the event is accepted without its mark.
MarkProcessedLater(d) ==
  /\ Awaits(d, "mark")
  /\ Accept(d)
  /\ UNCHANGED <<processed, done, again, contended>>

MarkProcessed(d) ==
  /\ Awaits(d, "mark")
  /\ processed' = processed \cup {Of(d)}
  /\ Accept(d)
  /\ UNCHANGED <<done, again, contended>>

\* A store failure must not turn a handled event into an error.
MarkFails(d) ==
  /\ Awaits(d, "mark")
  /\ contended' = contended \cup {Of(d)}
  /\ Accept(d)
  /\ UNCHANGED <<processed, done, again>>

\* The process stops, and with it every delivery under way.
Crash ==
  /\ \E d \in Delivery : ~Free(d)
  /\ contended' = contended \cup {e \in Event : \E d \in Delivery : Awaits(d, "mark") /\ Of(d) = e}
  /\ delivery' = [d \in Delivery |-> NoDelivery]
  /\ UNCHANGED <<processed, acked, done, again>>

DeliveryStep(d) ==
  \/ HasProcessed(d) \/ HasProcessedRejects(d) \/ HandlerSucceeds(d) \/ HandlerThrows(d)
  \/ MarkProcessed(d) \/ MarkFails(d)

Next == Crash \/ \E d \in Delivery : DeliveryStep(d) \/ \E e \in Event : Deliver(d, e)

-----------------------------------------------------------------------------
\* What Stripe is told to have been received was handled to the end: an event
\* whose handler failed is never skipped as a duplicate ("Marking after
\* preserves at-least-once delivery").
AcceptedWasHandled == (acked \cup processed) \cap Subscribed \subseteq done

\* The handler succeeds for an event a second time only if two deliveries of it
\* overlapped or its mark was lost.
HandledAgainOnlyContended == again \subseteq contended

\* Every event is handled: so it comes to be, whatever failed before.
EveryEventIsHandled == Subscribed \subseteq done
=============================================================================
