---------------------------- MODULE AutoRollback ----------------------------
(***************************************************************************)
(* The SLO auto-rollback of packages/kit-ai-agent (src/auto-rollback.ts):  *)
(* when a violation persists past a threshold, the deployment is rolled    *)
(* back once per violation episode.                                        *)
(*                                                                         *)
(* Monitoring calls checkAndRollback again and again with the rules that   *)
(* are violated at that moment; calls overlap, because each of them awaits *)
(* the rollbacker.  The entries are a Map in memory, keyed by tenant and   *)
(* rule (the service is not part of the key; here a tenant has one).       *)
(***************************************************************************)
EXTENDS Naturals, FiniteSets

CONSTANTS
    Tenants, Rules,
    Threshold,      \* thresholdMs, in ticks of the clock
    MaxEpisodes,    \* bound: how often a rule begins to be violated
    Calls,          \* identities of calls that can overlap
    None

Episodes == 1..MaxEpisodes

\* A ViolationEntry: the time since firstSeenAt, up to the threshold, and whether
\* triggeredAt is set.  The id is the episode in which the entry was made.
Entry == [age : 0..Threshold, triggered : BOOLEAN, id : Episodes]

ASSUME AutoRollbackAssumption ==
    /\ Threshold \in Nat \ {0}
    /\ MaxEpisodes \in Nat
    /\ None \notin Tenants /\ None \notin Entry

VARIABLES
    enabled,    \* isEnabled(), the kill switch
    violated,   \* per tenant and rule: the episode of the SLO's violation, 0 if none
    entries,    \* violationState
    calls,      \* the calls in flight
    begun,      \* violations begun so far
    rollbacks,  \* how often each episode was rolled back
    contended,  \* episodes that two calls awaited the previous revision for at once
    succeeded   \* episodes first seen while a call waited about the one before, of their key

vars == <<enabled, violated, entries, calls, begun, rollbacks, contended, succeeded>>

Keys == Tenants \X Rules

\* A call awaits getPreviousRevision for its matured rules (with the episodes
\* they matured in), or the rollback and what is reported about it.
Call == [pc : {"idle", "revision", "rollback"},
         tenant : Tenants \union {None},
         matured : SUBSET (Rules \X Episodes)]

IdleCall == [pc |-> "idle", tenant |-> None, matured |-> {}]

Seen(k) == entries[k] # None

TypeOK ==
    /\ enabled \in BOOLEAN
    /\ violated \in [Keys -> {0} \union Episodes]
    /\ entries \in [Keys -> Entry \union {None}]
    /\ calls \in [Calls -> Call]
    /\ begun \in 0..MaxEpisodes
    /\ rollbacks \in [Episodes -> Nat]
    /\ contended \subseteq Episodes
    /\ succeeded \subseteq Episodes

Init ==
    /\ enabled = TRUE
    /\ violated = [k \in Keys |-> 0]
    /\ entries = [k \in Keys |-> None]
    /\ calls = [c \in Calls |-> IdleCall]
    /\ begun = 0
    /\ rollbacks = [e \in Episodes |-> 0]
    /\ contended = {} /\ succeeded = {}

-----------------------------------------------------------------------------
(* The surroundings *)

ViolationBegins(k) ==
    /\ violated[k] = 0
    /\ begun < MaxEpisodes
    /\ begun' = begun + 1
    /\ violated' = [violated EXCEPT ![k] = begun']
    /\ UNCHANGED <<enabled, entries, calls, rollbacks, contended, succeeded>>

ViolationEnds(k) ==
    /\ violated[k] # 0
    /\ violated' = [violated EXCEPT ![k] = 0]
    /\ UNCHANGED <<enabled, entries, calls, begun, rollbacks, contended, succeeded>>

FlipKillSwitch ==
    /\ enabled' = ~enabled
    /\ UNCHANGED <<violated, entries, calls, begun, rollbacks, contended, succeeded>>

\* now() moves on.
Tick ==
    /\ \E k \in Keys : Seen(k) /\ entries[k].age < Threshold
    /\ entries' = [k \in Keys |-> IF Seen(k) /\ entries[k].age < Threshold
                                  THEN [entries[k] EXCEPT !.age = @ + 1]
                                  ELSE entries[k]]
    /\ UNCHANGED <<enabled, violated, calls, begun, rollbacks, contended, succeeded>>

-----------------------------------------------------------------------------
(* checkAndRollback *)

\* Mutant of Cleared: the tenant is not compared.
ClearedAnyTenant(t) == {k \in Keys : Seen(k) /\ ~(k[1] = t /\ violated[k] # 0)}

\* The entries of this tenant whose rule is not violated any more.
Cleared(t) == {k \in Keys : Seen(k) /\ k[1] = t /\ violated[k] = 0}

\* Rules violated long enough and not rolled back yet, after the update.
Matured(t) == {k \in Keys : /\ k[1] = t /\ violated[k] # 0
                            /\ Seen(k) /\ ~entries[k].triggered
                            /\ entries[k].age = Threshold}

\* A call awaits the previous revision because of this key.
Awaited(k) == \E d \in Calls : /\ calls[d].pc = "revision" /\ calls[d].tenant = k[1]
                               /\ \E m \in calls[d].matured : m[1] = k[2]

\* Up to the first await: entries are made for new violations and deleted for
\* gone ones, and the call goes on if rules have matured.
Check(c, t) ==
    /\ calls[c] = IdleCall
    /\ enabled
    /\ entries' = [k \in Keys |->
                      IF k[1] = t /\ violated[k] # 0 /\ ~Seen(k)
                      THEN [age |-> 0, triggered |-> FALSE, id |-> violated[k]]
                      ELSE IF k \in Cleared(t) THEN None ELSE entries[k]]
    /\ LET matured == {<<k[2], entries[k].id>> : k \in Matured(t)} IN
       /\ calls' = IF matured = {} THEN calls
                   ELSE [calls EXCEPT ![c] = [pc |-> "revision", tenant |-> t,
                                              matured |-> matured]]
       /\ contended' = contended \union
             {m[2] : m \in {n \in matured : \E d \in Calls : /\ calls[d].pc = "revision"
                                                             /\ n \in calls[d].matured}}
    /\ succeeded' = succeeded \union
             {violated[k] : k \in {l \in Keys : /\ l[1] = t /\ violated[l] # 0 /\ ~Seen(l)
                                              /\ Awaited(l)}}
    /\ UNCHANGED <<enabled, violated, begun, rollbacks>>

\* There is no previous revision, or asking for it failed: nothing is marked.
NoRevision(c) ==
    /\ calls[c].pc = "revision"
    /\ calls' = [calls EXCEPT ![c] = IdleCall]
    /\ UNCHANGED <<enabled, violated, entries, begun, rollbacks, contended, succeeded>>

\* Mutant of Marked: the entries are not marked.
MarkedNone(c) == {}

\* Mutant of Marked: the key is compared by its rule only.
MarkedAnyTenant(c) == {k \in Keys : /\ Seen(k)
                                    /\ \E m \in calls[c].matured : m[1] = k[2]}

\* The entries that get triggeredAt, looked up again by key after the await.
Marked(c) == {k \in Keys : /\ k[1] = calls[c].tenant /\ Seen(k)
                           /\ \E m \in calls[c].matured : m[1] = k[2]}

\* The previous revision is known: mark the entries, then begin the rollback.
Launch(c) ==
    LET episodes == {m[2] : m \in calls[c].matured} IN
    /\ calls[c].pc = "revision"
    /\ entries' = [k \in Keys |-> IF k \in Marked(c)
                                  THEN [entries[k] EXCEPT !.triggered = TRUE]
                                  ELSE entries[k]]
    /\ rollbacks' = [e \in Episodes |-> rollbacks[e] + (IF e \in episodes THEN 1 ELSE 0)]
    /\ calls' = [calls EXCEPT ![c].pc = "rollback"]
    /\ UNCHANGED <<enabled, violated, begun, contended, succeeded>>

\* The rollback, done or failed, and what is reported of it are over.
CallEnds(c) ==
    /\ calls[c].pc = "rollback"
    /\ calls' = [calls EXCEPT ![c] = IdleCall]
    /\ UNCHANGED <<enabled, violated, entries, begun, rollbacks, contended, succeeded>>

-----------------------------------------------------------------------------
Next ==
    \/ \E k \in Keys : ViolationBegins(k) \/ ViolationEnds(k)
    \/ FlipKillSwitch \/ Tick
    \/ \E c \in Calls : \/ \E t \in Tenants : Check(c, t)
                        \/ NoRevision(c) \/ Launch(c) \/ CallEnds(c)

Spec == Init /\ [][Next]_vars

\* Monitoring calls for every tenant again and again, time passes, the rollbacker
\* answers, and a service that is asked for again and again has a previous
\* revision some of the times.
FairSpec ==
    /\ Spec
    /\ WF_vars(Tick)
    /\ \A t \in Tenants : SF_vars(\E c \in Calls : Check(c, t))
    /\ \A c \in Calls : /\ SF_vars(Launch(c))
                        /\ WF_vars(NoRevision(c)) /\ WF_vars(CallEnds(c))

-----------------------------------------------------------------------------
(* Properties *)

\* "Trigger a deployment rollback exactly once per violation episode", marked
\* "to prevent concurrent re-trigger" (auto-rollback.ts:3 and 140).
OncePerEpisode == \A e \in Episodes : rollbacks[e] <= 1

\* What holds of it: only two calls that wait for the previous revision at the
\* same time can roll one episode back twice.  A call that finds no revision,
\* one that overlaps the rollback itself, a violation that ends and comes back
\* and the kill switch never do.
OncePerEpisodeUnlessContended ==
    \A e \in Episodes : rollbacks[e] > 1 => e \in contended

\* A violation that is marked as rolled back was: otherwise it would go on for
\* ever unnoticed.  The exception is one first seen, under the same key, while a
\* call about an earlier episode waited for the previous revision.
MarkedWasRolledBack ==
    \A k \in Keys : Seen(k) /\ entries[k].triggered =>
        rollbacks[entries[k].id] > 0 \/ entries[k].id \in succeeded

\* A violation that goes on ends up marked, whatever other tenants' calls do and
\* however often there was no previous revision, unless the kill switch is off.
LastingViolationIsMarked ==
    \A k \in Keys :
        violated[k] # 0 /\ enabled
            ~> (Seen(k) /\ entries[k].triggered) \/ violated[k] = 0 \/ ~enabled
=============================================================================
