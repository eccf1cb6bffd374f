----------------------------- MODULE MCServices -----------------------------
(* Two of every actor, over the least data that lets them cross.             *)
EXTENDS Services

MCCascade == <<"t1", "t2">>
MCWritten == {<<"t1", "u1">>}
MCPatch == {[p \in {"context"} |-> 2], [p \in {"subject", "reason"} |-> IF p = "reason" THEN 2 ELSE 0]}
MCEstimate == [a \in {"a1", "a2"} |-> IF a = "a1" THEN 1 ELSE 2]
MCDeployment == {[email |-> TRUE, slugIsAdmin |-> TRUE, unique |-> TRUE],
                 [email |-> TRUE, slugIsAdmin |-> FALSE, unique |-> TRUE],
                 [email |-> TRUE, slugIsAdmin |-> FALSE, unique |-> FALSE],
                 [email |-> FALSE, slugIsAdmin |-> TRUE, unique |-> FALSE]}

\* What varies at the start varies for its own service only.
OneVaries ==
  /\ service = "tenancy" \/ (own = {} /\ deployment.email /\ deployment.slugIsAdmin)
  /\ service = "growth" \/ (level[2] = 0 /\ level[3] = 0)

MCInit == Init /\ OneVaries

\* One service runs in a behaviour, so one condition may speak for several.
\* What a delivery, a check, a run or a call awaits settles, ...
Settles(d, k, r, b) ==
  At("billing", Billing!DeliveryStep(d)) \/ At("gdpr", Gdpr!CheckStep(k)) \/ At("domains", Domains!RunStep(r))
  \/ At("breakers", Breaker!Settles(b))

\* ... what is down recovers, time passes, timers fire and calls come, ...
Recovers == At("gdpr", Gdpr!Recover) \/ At("domains", Domains!Recover) \/ At("breakers", Breaker!ServiceRecovers)
TimePasses == At("breakers", Breaker!Tick) \/ At("flags", Flags!Tick) \/ At("domains", Domains!CertificateReady("d"))
Begins ==
  At("gdpr", \E k \in {"k1", "k2"} : Gdpr!IntervalFires(k)) \/ At("domains", Domains!Starts("c1"))
  \/ At("breakers", Breaker!Calls("b1")) \/ At("live", Live!IntervalFires)
AlsoBegins == At("domains", Domains!Starts("s1")) \/ At("breakers", Breaker!Calls("b2"))

\* ... Stripe delivers again what it has no 200 for, and neither a crash nor a lost
\* answer comes between every time.
DeliveryOf(e, d) == delivery[d] # Billing!NoDelivery /\ Billing!Of(d) = e
Asked ==
  At("billing", "e1" \notin acked /\ \E d \in {"d1", "d2"} : Billing!Deliver(d, "e1"))
  \/ At("live", \E i \in DOMAIN fetches : Live!ServerAnswers(i))
Taken ==
  At("billing", \E d \in {"d1", "d2"} : DeliveryOf("e1", d) /\ Billing!HasProcessed(d))
  \/ At("live", \E i \in DOMAIN fetches : Live!Apply(i))
Handled == At("billing", \E d \in {"d1", "d2"} : DeliveryOf("e1", d) /\ Billing!HandlerSucceeds(d))

Fairness ==
  /\ WF_vars(Settles("d1", "k1", "c1", "b1")) /\ WF_vars(Settles("d2", "k2", "c2", "b2"))
  /\ WF_vars(At("domains", Domains!RunStep("s1")))
  /\ WF_vars(Recovers) /\ WF_vars(TimePasses) /\ WF_vars(Begins) /\ WF_vars(AlsoBegins)
  /\ SF_vars(Asked) /\ SF_vars(Taken) /\ SF_vars(Handled)

Spec == MCInit /\ [][Next]_vars /\ Fairness

\* The conditions under which a service has to come to an end: the deletion checker is
\* not stopped for good, the flag stays off and the store of its overrides up.
Undisturbed ==
  /\ service = "gdpr" => timer.interval
  /\ service = "flags" => storeUp /\ flagOff["global"]

Settled ==
  /\ service = "billing" => Billing!EveryEventIsHandled
  /\ service = "gdpr" => Gdpr!DueIsCompleted
  /\ service = "domains" => Domains!EveryDomainSettles
  /\ service = "breakers" => Breaker!ServesAgain
  /\ service = "live" => Live!CatchesUp
  /\ service = "flags" => Flags!SwitchedOffInForce

\* What was begun is brought to its end, whatever failed before: every Stripe event
\* is handled, a deletion that is due is completed, a domain settles, the breaker
\* closes for good, the live view catches up, and a flag that was switched off is off.
EverythingSettles == <>[]Undisturbed => <>[]Settled
=============================================================================
