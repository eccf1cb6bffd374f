---------------------------- MODULE CustomDomains ----------------------------
(***************************************************************************)
(* The two crons of custom-domains: runCnameVerificationCron takes pending *)
(* domains to verified or failed, runSslProvisioner verified ones to       *)
(* ssl_provisioning and those to active or error.  Each works through what *)
(* it listed at the start, awaits the outside world for every domain, and  *)
(* writes the new state whatever the row says by then.  A run that outlasts*)
(* the schedule overlaps the next one.  (The kill switch is on.)           *)
(***************************************************************************)
CONSTANTS Domain,
          CnameRun, SslRun  \* runs that may be under way at once

VARIABLES state,      \* of each domain's row
          mapping,    \* external: the provider's mapping
          run,
          healthy,    \* the store answers
          faulted,    \* history: the domains the provider has reported an error for
          contended   \* history: the domains that two runs of a cron had in hand at once

cvars == <<state, mapping, run, healthy, faulted, contended>>

Run == CnameRun \cup SslRun
State == {"pending", "verified", "failed", "ssl_provisioning", "active", "error"}

\* todo, then more: what is left of the lists; next: the state the domain in
\* hand, d, is about to get.
NoRun == [pc |-> "idle", todo |-> {}, more |-> {}]
InHand(r) == run[r].todo \cup run[r].more

TypeOK ==
  /\ state \in [Domain -> State]
  /\ mapping \in [Domain -> {"none", "provisioning", "ready"}]
  /\ healthy \in BOOLEAN /\ faulted \subseteq Domain /\ contended \subseteq Domain
  /\ \A r \in Run :
       /\ run[r].pc \in {"idle", "list", "listMore", "ask", "update"} /\ InHand(r) \subseteq Domain
       /\ run[r].pc = "update" => run[r].d \in InHand(r) /\ run[r].next \in State

Init ==
  /\ state = [d \in Domain |-> "pending"]
  /\ mapping = [d \in Domain |-> "none"]
  /\ run = [r \in Run |-> NoRun]
  /\ healthy = FALSE /\ faulted = {} /\ contended = {}

-----------------------------------------------------------------------------
\* The world outside.

CertificateReady(d) ==
  /\ mapping[d] = "provisioning" /\ mapping' = [mapping EXCEPT ![d] = "ready"]
  /\ UNCHANGED <<state, run, healthy, faulted, contended>>

Recover ==
  /\ ~healthy /\ healthy' = TRUE
  /\ UNCHANGED <<state, mapping, run, faulted, contended>>

-----------------------------------------------------------------------------
\* A run of either cron.

Starts(r) ==
  /\ run[r].pc = "idle"
  /\ run' = [run EXCEPT ![r].pc = "list"]
  /\ UNCHANGED <<state, mapping, healthy, faulted, contended>>

Peers(r) == (IF r \in CnameRun THEN CnameRun ELSE SslRun) \ {r}
Listed(s) == {d \in Domain : state[d] = s}

Takes(r, list, to) ==
  /\ run' = [run EXCEPT ![r] = to]
  /\ contended' = contended \cup {d \in list : \E p \in Peers(r) : d \in InHand(p)}
  /\ UNCHANGED <<state, mapping, healthy, faulted>>

\* Mutant of ListPending: what has failed is tried again.
ListPendingOrFailed(r) ==
  /\ r \in CnameRun /\ run[r].pc = "list"
  /\ LET rows == Listed("pending") \cup Listed("failed")
     IN  Takes(r, rows, [pc |-> "ask", todo |-> rows, more |-> {}])

ListPending(r) ==
  /\ r \in CnameRun /\ run[r].pc = "list"
  /\ Takes(r, Listed("pending"), [pc |-> "ask", todo |-> Listed("pending"), more |-> {}])

ListVerified(r) ==
  /\ r \in SslRun /\ run[r].pc = "list"
  /\ Takes(r, Listed("verified"), [pc |-> "listMore", todo |-> Listed("verified"), more |-> {}])

\* Mutant of ListProvisioning: only what this run has begun is looked at again.
ListProvisioningOwn(r) ==
  /\ run[r].pc = "listMore"
  /\ Takes(r, {}, [run[r] EXCEPT !.pc = "ask", !.more = @ \cap run[r].todo])

ListProvisioning(r) ==
  /\ run[r].pc = "listMore"
  /\ Takes(r, Listed("ssl_provisioning"), [run[r] EXCEPT !.pc = "ask", !.more = Listed("ssl_provisioning")])

\* The store rejects, and the run is over: what it has not come to yet is left
\* to the next one.
StoreFails(r) ==
  /\ run[r].pc \in {"list", "listMore", "update"} /\ ~healthy
  /\ run' = [run EXCEPT ![r] = NoRun]
  /\ UNCHANGED <<state, mapping, healthy, faulted, contended>>

Ends(r) ==
  /\ run[r].pc = "ask" /\ InHand(r) = {}
  /\ run' = [run EXCEPT ![r] = NoRun]
  /\ UNCHANGED <<state, mapping, healthy, faulted, contended>>

\* The outside world has answered about d: its row is about to become next.
Answered(r, d, next) ==
  run' = [run EXCEPT ![r] = [pc |-> "update", todo |-> @.todo, more |-> @.more, d |-> d, next |-> next]]

\* DNS has the target, or another one, or none, or does not answer.
VerifyCname(r, d) ==
  /\ r \in CnameRun /\ run[r].pc = "ask" /\ d \in run[r].todo
  /\ \E next \in {"verified", "failed"} : Answered(r, d, next)
  /\ UNCHANGED <<state, mapping, healthy, faulted, contended>>

\* Mutant of Create: a mapping that exists already is an error.
CreateOnce(r, d) ==
  /\ r \in SslRun /\ run[r].pc = "ask" /\ d \in run[r].todo
  /\ Answered(r, d, IF mapping[d] = "none" THEN "ssl_provisioning" ELSE "error")
  /\ mapping' = IF mapping[d] = "none" THEN [mapping EXCEPT ![d] = "provisioning"] ELSE mapping
  /\ UNCHANGED <<state, healthy, faulted, contended>>

\* "Already exists" counts as created.
Create(r, d) ==
  /\ r \in SslRun /\ run[r].pc = "ask" /\ d \in run[r].todo
  /\ Answered(r, d, "ssl_provisioning")
  /\ mapping' = IF mapping[d] = "none" THEN [mapping EXCEPT ![d] = "provisioning"] ELSE mapping
  /\ UNCHANGED <<state, healthy, faulted, contended>>

\* Phase 2 begins when phase 1 is through.
Describing(r, d) == r \in SslRun /\ run[r].pc = "ask" /\ run[r].todo = {} /\ d \in run[r].more

Describe(r, d) ==
  /\ Describing(r, d)
  /\ IF mapping[d] = "ready" THEN Answered(r, d, "active") ELSE run' = [run EXCEPT ![r].more = @ \ {d}]
  /\ UNCHANGED <<state, mapping, healthy, faulted, contended>>

ProviderFails(r, d) ==
  /\ (r \in SslRun /\ run[r].pc = "ask" /\ d \in run[r].todo) \/ Describing(r, d)
  /\ Answered(r, d, "error")
  /\ faulted' = faulted \cup {d}
  /\ UNCHANGED <<state, mapping, healthy, contended>>

Dealt(r, d) ==
  [pc |-> "ask", todo |-> run[r].todo \ {d}, more |-> IF d \in run[r].todo THEN run[r].more ELSE run[r].more \ {d}]

Update(r) ==
  /\ run[r].pc = "update"
  /\ state' = [state EXCEPT ![run[r].d] = run[r].next]
  /\ run' = [run EXCEPT ![r] = Dealt(r, run[r].d)]
  /\ UNCHANGED <<mapping, healthy, faulted, contended>>

RunStep(r) ==
  \/ ListPending(r) \/ ListVerified(r) \/ ListProvisioning(r) \/ StoreFails(r) \/ Ends(r) \/ Update(r)
  \/ \E d \in Domain : VerifyCname(r, d) \/ Create(r, d) \/ Describe(r, d) \/ ProviderFails(r, d)

Next ==
  \/ Recover
  \/ \E d \in Domain : CertificateReady(d)
  \/ \E r \in Run : Starts(r) \/ RunStep(r)

-----------------------------------------------------------------------------
Documented ==
  {<<"pending", "verified">>, <<"pending", "failed">>, <<"verified", "ssl_provisioning">>,
   <<"verified", "error">>, <<"ssl_provisioning", "active">>, <<"ssl_provisioning", "error">>}

\* A domain moves along the state machine (types.ts; verified to error as well,
\* where no mapping can be created) and no other way, unless two runs of one cron
\* had it in hand at once.
FollowsStateMachine ==
  [][\A d \in Domain \ contended : state'[d] = state[d] \/ <<state[d], state'[d]>> \in Documented]_cvars

\* A domain ends in error only if the provider has said so, whatever was tried
\* again after the store had failed, and it is active only with a certificate.
EndsForAReason ==
  \A d \in Domain : /\ state[d] = "error" => d \in faulted
                    /\ state[d] = "active" => mapping[d] = "ready"

\* Every domain is failed, active or in error: so it comes to be for good, while the crons
\* run, certificates get ready and the store has recovered.
EveryDomainSettles == \A d \in Domain : state[d] \in {"failed", "active", "error"}
=============================================================================
