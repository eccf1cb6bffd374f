------------------------- MODULE AutoRollbackProofs -------------------------
(***************************************************************************)
(* Proofs about AutoRollback, for any tenants, rules, overlapping calls    *)
(* and threshold: when an episode is rolled back twice, and that what is   *)
(* marked as rolled back was.                                              *)
(***************************************************************************)
EXTENDS AutoRollback, TLAPS

\* A call goes on about an episode of a key; it still waits for the revision.
Holds(c, k, e) == calls[c].tenant = k[1] /\ <<k[2], e>> \in calls[c].matured
Waits(c, k, e) == calls[c].pc = "revision" /\ Holds(c, k, e)

\* The inductive invariant.  Neither property is inductive: the entries are
\* looked up by key after the await, while what is rolled back are the episodes
\* of before it, so both rest on which episodes can meet under one key.
Uses(k, e) ==
    \/ violated[k] = e
    \/ Seen(k) /\ entries[k].id = e
    \/ \E c \in Calls : Holds(c, k, e)

CallsHaveTenants == \A c \in Calls : calls[c].matured # {} => calls[c].tenant \in Tenants

EpisodeHasOneKey == \A e \in Episodes : \A k, l \in Keys : Uses(k, e) /\ Uses(l, e) => k = l

EpisodesHaveBegun ==
    \A e \in Episodes : rollbacks[e] > 0 \/ (\E k \in Keys : Uses(k, e)) => e <= begun

\* The entry of an episode is not deleted and made again while it lasts.
SeenOnce ==
    \A e \in Episodes : \A k \in Keys :
        violated[k] = e /\ (rollbacks[e] > 0 \/ \E c \in Calls : Holds(c, k, e)) =>
            Seen(k) /\ entries[k].id = e

RolledBackIsMarked ==
    \A k \in Keys : Seen(k) /\ rollbacks[entries[k].id] > 0 => entries[k].triggered

\* Whoever waits about an episode that another call waits about, or that was
\* rolled back already, contends for it.
WaitingIsContended ==
    \A e \in Episodes : \A k \in Keys : \A c \in Calls :
        Waits(c, k, e) /\ (rollbacks[e] > 0 \/ \E d \in Calls \ {c} : Waits(d, k, e)) => e \in contended

OtherEntrySucceeds ==
    \A e \in Episodes : \A k \in Keys : \A c \in Calls :
        Waits(c, k, e) /\ Seen(k) /\ entries[k].id # e => entries[k].id \in succeeded

IInv ==
    /\ TypeOK
    /\ CallsHaveTenants
    /\ EpisodeHasOneKey
    /\ EpisodesHaveBegun
    /\ SeenOnce
    /\ RolledBackIsMarked
    /\ WaitingIsContended
    /\ OtherEntrySucceeds
    /\ OncePerEpisodeUnlessContended
    /\ MarkedWasRolledBack

-----------------------------------------------------------------------------
\* What the updates of an entry and of a call are members of.
LEMMA EntryUpdates ==
  ASSUME NEW x \in Entry
  PROVE  /\ x.age \in 0..Threshold /\ x.triggered \in BOOLEAN /\ x.id \in Episodes /\ x # None
         /\ x.age < Threshold =>
              /\ [x EXCEPT !.age = @ + 1] \in Entry
              /\ [x EXCEPT !.age = @ + 1].id = x.id /\ [x EXCEPT !.age = @ + 1].triggered = x.triggered
         /\ [x EXCEPT !.triggered = TRUE] \in Entry
         /\ [x EXCEPT !.triggered = TRUE].id = x.id /\ [x EXCEPT !.triggered = TRUE].triggered = TRUE
<1>1. x.age \in 0..Threshold /\ x.triggered \in BOOLEAN /\ x.id \in Episodes /\ x # None
  BY AutoRollbackAssumption DEF Entry
<1>2. ASSUME x.age < Threshold
      PROVE  /\ [x EXCEPT !.age = @ + 1] \in Entry
             /\ [x EXCEPT !.age = @ + 1].id = x.id /\ [x EXCEPT !.age = @ + 1].triggered = x.triggered
  <2>1. x.age + 1 \in 0..Threshold
    BY <1>1, <1>2, AutoRollbackAssumption
  <2> QED
    BY <2>1, Zenon DEF Entry
<1>3. /\ [x EXCEPT !.triggered = TRUE] \in Entry
      /\ [x EXCEPT !.triggered = TRUE].id = x.id /\ [x EXCEPT !.triggered = TRUE].triggered = TRUE
  BY Zenon DEF Entry
<1> QED
  BY <1>1, <1>2, <1>3

LEMMA NewEntry ==
  ASSUME NEW e \in Episodes
  PROVE  [age |-> 0, triggered |-> FALSE, id |-> e] \in Entry
<1>1. 0 \in 0..Threshold
  BY AutoRollbackAssumption
<1> QED
  BY <1>1, Zenon DEF Entry

LEMMA CallUpdates ==
  ASSUME NEW x \in Call
  PROVE  /\ x.tenant \in Tenants \union {None} /\ x.matured \subseteq Rules \X Episodes
         /\ IdleCall \in Call
         /\ [x EXCEPT !.pc = "rollback"] \in Call
         /\ [x EXCEPT !.pc = "rollback"].matured = x.matured /\ [x EXCEPT !.pc = "rollback"].tenant = x.tenant
         /\ \A t \in Tenants, m \in SUBSET (Rules \X Episodes) :
              [pc |-> "revision", tenant |-> t, matured |-> m] \in Call
  BY DEF Call, IdleCall

-----------------------------------------------------------------------------
\* What the steps do to the entries and the calls.
LEMMA TickFields ==
  ASSUME TypeOK, Tick, NEW k \in Keys
  PROVE  /\ entries'[k] \in Entry \union {None} /\ (Seen(k)' <=> Seen(k))
         /\ Seen(k) => entries'[k].id = entries[k].id /\ entries'[k].triggered = entries[k].triggered
<1> DEFINE x == entries[k]
<1>1. CASE Seen(k) /\ x.age < Threshold
  <2>1. x \in Entry /\ entries'[k] = [x EXCEPT !.age = @ + 1]
    BY <1>1 DEF TypeOK, Tick, Seen
  <2>2. [x EXCEPT !.age = @ + 1] \in Entry
    BY <1>1, <2>1, EntryUpdates
  <2>3. [x EXCEPT !.age = @ + 1] # None
    BY <2>2, AutoRollbackAssumption
  <2>4. [x EXCEPT !.age = @ + 1].id = x.id /\ [x EXCEPT !.age = @ + 1].triggered = x.triggered
    BY <1>1, <2>1, EntryUpdates
  <2> QED
    BY <1>1, <2>1, <2>2, <2>3, <2>4 DEF Seen
<1>2. CASE ~(Seen(k) /\ x.age < Threshold)
  BY <1>2 DEF TypeOK, Tick, Seen
<1> QED
  BY <1>1, <1>2

LEMMA LaunchFields ==
  ASSUME TypeOK, NEW c \in Calls, Launch(c), NEW k \in Keys
  PROVE  /\ entries'[k] \in Entry \union {None} /\ (Seen(k)' <=> Seen(k))
         /\ Seen(k) => entries'[k].id = entries[k].id
         /\ k \in Marked(c) => entries'[k].triggered
         /\ k \notin Marked(c) => entries'[k] = entries[k]
  BY EntryUpdates DEF TypeOK, Launch, Seen, Marked

\* An entry after Check is the one before, or a new one.
LEMMA CheckFields ==
  ASSUME TypeOK, NEW c \in Calls, NEW t \in Tenants, Check(c, t), NEW k \in Keys
  PROVE  /\ entries'[k] \in Entry \union {None}
         /\ Seen(k)' =>
              \/ Seen(k) /\ entries'[k] = entries[k]
              \/ /\ ~Seen(k) /\ k[1] = t /\ violated[k] # 0
                 /\ entries'[k].id = violated[k] /\ ~entries'[k].triggered
         /\ violated[k] # 0 /\ Seen(k) => Seen(k)'
<1>1. violated[k] # 0 => [age |-> 0, triggered |-> FALSE, id |-> violated[k]] \in Entry
  BY NewEntry DEF TypeOK
<1> QED
  BY <1>1 DEF TypeOK, Check, Seen, Cleared

\* What a call holds after a step it held before, or has matured in Check.
LEMMA CheckHolds ==
  ASSUME TypeOK, NEW c \in Calls, NEW t \in Tenants, Check(c, t), NEW d \in Calls, NEW k \in Keys, NEW e \in Episodes,
         Holds(d, k, e)'
  PROVE  \/ d # c /\ Holds(d, k, e) /\ calls'[d] = calls[d]
         \/ d = c /\ k \in Matured(t) /\ e = entries[k].id
<1>1. Rules # {} /\ k = <<k[1], k[2]>>
  BY DEF Keys
<1>2. CASE d # c
  BY <1>2 DEF TypeOK, Check, Holds
<1>3. CASE d = c
  <2> DEFINE matured == {<<l[2], entries[l].id>> : l \in Matured(t)}
  <2>1. calls'[c].matured = matured /\ calls'[c].tenant = t
    BY <1>3 DEF TypeOK, Check, Holds, IdleCall
  <2>2. PICK l \in Matured(t) : <<k[2], e>> = <<l[2], entries[l].id>>
    BY <1>3, <2>1 DEF Holds
  <2>3. l[1] = t /\ l \in Keys /\ k[1] = t
    BY <1>3, <2>1, <2>2 DEF Matured, Holds
  <2>4. l = k /\ e = entries[l].id
    BY <2>2, <2>3 DEF Keys
  <2> QED
    BY <1>3, <2>2, <2>4
<1> QED
  BY <1>2, <1>3

LEMMA OtherHolds ==
  ASSUME TypeOK, NEW c \in Calls, NoRevision(c) \/ Launch(c) \/ CallEnds(c), NEW d \in Calls, NEW k \in Keys, NEW e \in Episodes
  PROVE  /\ Holds(d, k, e)' => Holds(d, k, e)
         /\ Waits(d, k, e)' => d # c /\ Waits(d, k, e)
<1>1. CASE d # c
  BY <1>1 DEF TypeOK, NoRevision, Launch, CallEnds, Holds, Waits
<1>2. CASE d = c /\ Launch(c)
  BY <1>2 DEF TypeOK, Launch, Holds, Waits, Call
<1>3. CASE d = c /\ (NoRevision(c) \/ CallEnds(c))
  BY <1>3 DEF TypeOK, NoRevision, CallEnds, Holds, Waits, IdleCall
<1> QED
  BY <1>1, <1>2, <1>3

-----------------------------------------------------------------------------
LEMMA TypeStep == TypeOK /\ [Next]_vars => TypeOK'
<1> SUFFICES ASSUME TypeOK, [Next]_vars PROVE TypeOK'
  OBVIOUS
<1> USE AutoRollbackAssumption
<1>1. ASSUME NEW k \in Keys, ViolationBegins(k) \/ ViolationEnds(k) PROVE TypeOK'
  <2>1. CASE ViolationBegins(k)
    <3>1. begun + 1 \in Episodes /\ begun + 1 \in 0..MaxEpisodes
      BY <2>1 DEF ViolationBegins, TypeOK, Episodes
    <3>2. violated' \in [Keys -> {0} \union Episodes]
      BY <2>1, <3>1 DEF ViolationBegins, TypeOK
    <3> QED
      BY <2>1, <3>1, <3>2 DEF ViolationBegins, TypeOK
  <2>2. CASE ViolationEnds(k)
    BY <2>2 DEF ViolationEnds, TypeOK
  <2> QED
    BY <1>1, <2>1, <2>2
<1>2. CASE FlipKillSwitch
  BY <1>2 DEF FlipKillSwitch, TypeOK
<1>3. CASE Tick
  <2>1. \A k \in Keys : entries'[k] \in Entry \union {None}
    BY <1>3, TickFields
  <2>2. entries' = [k \in Keys |-> entries'[k]]
    BY <1>3 DEF Tick
  <2> QED
    BY <1>3, <2>1, <2>2 DEF Tick, TypeOK
<1>4. ASSUME NEW c \in Calls, NEW t \in Tenants, Check(c, t) PROVE TypeOK'
  <2>1. entries' \in [Keys -> Entry \union {None}]
    <3>1. \A k \in Keys : entries'[k] \in Entry \union {None}
      BY <1>4, CheckFields
    <3>2. entries' = [k \in Keys |-> entries'[k]]
      BY <1>4 DEF Check
    <3> QED
      BY <3>1, <3>2
  <2> DEFINE matured == {<<k[2], entries[k].id>> : k \in Matured(t)}
  <2>2. matured \in SUBSET (Rules \X Episodes)
    <3>1. ASSUME NEW k \in Matured(t) PROVE k[2] \in Rules /\ entries[k].id \in Episodes
      <4>1. k \in Keys /\ entries[k] \in Entry
        BY <3>1 DEF Matured, Seen, TypeOK
      <4> QED
        BY <4>1 DEF Keys, Entry
    <3> QED
      BY <3>1
  <2>3. calls' \in [Calls -> Call]
    BY <1>4, <2>2, CallUpdates DEF Check, TypeOK
  <2>4. contended' \subseteq Episodes
    BY <1>4, <2>2 DEF Check, TypeOK
  <2>5. succeeded' \subseteq Episodes
    BY <1>4 DEF Check, TypeOK
  <2> QED
    BY <1>4, <2>1, <2>3, <2>4, <2>5 DEF Check, TypeOK
<1>5. ASSUME NEW c \in Calls, NoRevision(c) \/ CallEnds(c) PROVE TypeOK'
  BY <1>5, CallUpdates DEF NoRevision, CallEnds, TypeOK
<1>6. ASSUME NEW c \in Calls, Launch(c) PROVE TypeOK'
  <2>1. \A k \in Keys : entries'[k] \in Entry \union {None}
    BY <1>6, LaunchFields
  <2>2. entries' \in [Keys -> Entry \union {None}]
    BY <1>6, <2>1 DEF Launch
  <2>3. calls' \in [Calls -> Call]
    BY <1>6, CallUpdates DEF Launch, TypeOK
  <2>4. rollbacks' \in [Episodes -> Nat]
    BY <1>6 DEF Launch, TypeOK
  <2> QED
    BY <1>6, <2>2, <2>3, <2>4 DEF Launch, TypeOK
<1>7. CASE UNCHANGED vars
  BY <1>7 DEF vars, TypeOK
<1> QED
  BY <1>1, <1>2, <1>3, <1>4, <1>5, <1>6, <1>7 DEF Next

-----------------------------------------------------------------------------
\* Where episodes come from.
LEMMA UsesStep ==
  ASSUME TypeOK, [Next]_vars, NEW k \in Keys, NEW e \in Episodes, Uses(k, e)'
  PROVE  Uses(k, e) \/ (ViolationBegins(k) /\ e = begun + 1)
<1>1. ASSUME NEW l \in Keys, ViolationBegins(l) PROVE Uses(k, e) \/ (k = l /\ e = begun + 1)
  BY <1>1 DEF ViolationBegins, Uses, Seen, Holds, TypeOK
<1>2. ASSUME NEW l \in Keys, ViolationEnds(l) PROVE Uses(k, e)
  <2>1. violated'[k] = e => violated[k] = e
    BY <1>2 DEF ViolationEnds, TypeOK, Episodes
  <2> QED
    BY <1>2, <2>1 DEF ViolationEnds, Uses, Seen, Holds
<1>3. CASE Tick
  BY <1>3, TickFields DEF Tick, Uses, Holds
<1>4. ASSUME NEW c \in Calls, NEW t \in Tenants, Check(c, t) PROVE Uses(k, e)
  <2>1. Seen(k)' /\ entries'[k].id = e => Uses(k, e)
    BY <1>4, CheckFields DEF Uses
  <2>2. ASSUME NEW d \in Calls, Holds(d, k, e)' PROVE Uses(k, e)
    BY <1>4, <2>2, CheckHolds DEF Uses, Matured
  <2> QED
    BY <1>4, <2>1, <2>2 DEF Check, Uses
<1>5. ASSUME NEW c \in Calls, NoRevision(c) \/ Launch(c) \/ CallEnds(c) PROVE Uses(k, e)
  <2>1. UNCHANGED violated
    BY <1>5 DEF NoRevision, Launch, CallEnds
  <2>2. Seen(k)' /\ entries'[k].id = e => Uses(k, e)
    BY <1>5, LaunchFields DEF NoRevision, CallEnds, Uses, Seen
  <2>3. \A d \in Calls : Holds(d, k, e)' => Holds(d, k, e)
    BY <1>5, OtherHolds
  <2> QED
    BY <2>1, <2>2, <2>3 DEF Uses
<1>6. CASE FlipKillSwitch \/ UNCHANGED vars
  BY <1>6 DEF FlipKillSwitch, vars, Uses, Seen, Holds
<1> QED
  BY <1>1, <1>2, <1>3, <1>4, <1>5, <1>6 DEF Next

\* Launch counts just the episodes the call waits about.
LEMMA LaunchCounts ==
  ASSUME TypeOK, CallsHaveTenants, NEW c \in Calls, Launch(c), NEW e \in Episodes
  PROVE  /\ rollbacks[e] \in Nat
         /\ (\E k \in Keys : Waits(c, k, e)) => rollbacks'[e] = rollbacks[e] + 1
         /\ ~(\E k \in Keys : Waits(c, k, e)) => rollbacks'[e] = rollbacks[e]
<1> DEFINE episodes == {m[2] : m \in calls[c].matured}
<1>1. rollbacks[e] \in Nat /\ rollbacks'[e] = rollbacks[e] + (IF e \in episodes THEN 1 ELSE 0)
  BY DEF Launch, TypeOK
<1>2. e \in episodes <=> \E k \in Keys : Waits(c, k, e)
  <2>1. ASSUME NEW k \in Keys, Waits(c, k, e) PROVE e \in episodes
    <3>1. <<k[2], e>> \in calls[c].matured /\ <<k[2], e>>[2] = e
      BY <2>1 DEF Waits, Holds
    <3> QED
      BY <3>1
  <2>2. ASSUME e \in episodes PROVE \E k \in Keys : Waits(c, k, e)
    <3>1. PICK m \in calls[c].matured : m[2] = e
      BY <2>2
    <3>2. m \in Rules \X Episodes /\ calls[c].tenant \in Tenants
      BY <3>1, CallUpdates DEF TypeOK, CallsHaveTenants
    <3>3. m = <<m[1], e>> /\ <<calls[c].tenant, m[1]>> \in Keys
      BY <3>1, <3>2 DEF Keys
    <3>4. Waits(c, <<calls[c].tenant, m[1]>>, e)
      BY <3>1, <3>3 DEF Waits, Holds, Launch
    <3> QED
      BY <3>3, <3>4
  <2> QED
    BY <2>1, <2>2
<1> QED
  BY <1>1, <1>2

LEMMA OnlyLaunchCounts ==
  ASSUME [Next]_vars, \A c \in Calls : ~Launch(c)
  PROVE  rollbacks' = rollbacks
  BY DEF Next, vars, ViolationBegins, ViolationEnds, FlipKillSwitch, Tick, Check, NoRevision, CallEnds

\* The key of a call that waits is marked when its rollback is launched.
LEMMA WaitedIsMarked ==
  ASSUME NEW c \in Calls, NEW k \in Keys, NEW e \in Episodes, Waits(c, k, e), Seen(k)
  PROVE  k \in Marked(c)
<1>1. <<k[2], e>> \in calls[c].matured /\ <<k[2], e>>[1] = k[2]
  BY DEF Waits, Holds
<1> QED
  BY <1>1 DEF Waits, Holds, Marked

-----------------------------------------------------------------------------
\* The invariants: one lemma each.
LEMMA TenantsStep == TypeOK /\ CallsHaveTenants /\ [Next]_vars => CallsHaveTenants'
<1> SUFFICES ASSUME TypeOK, CallsHaveTenants, [Next]_vars, NEW d \in Calls, calls'[d].matured # {}
             PROVE  calls'[d].tenant \in Tenants
  BY DEF CallsHaveTenants
<1>1. ASSUME NEW c \in Calls, NEW t \in Tenants, Check(c, t) PROVE calls'[d].tenant \in Tenants
  BY <1>1 DEF Check, TypeOK, CallsHaveTenants
<1>2. ASSUME NEW c \in Calls, NoRevision(c) \/ CallEnds(c) PROVE calls'[d].tenant \in Tenants
  BY <1>2 DEF NoRevision, CallEnds, TypeOK, CallsHaveTenants, IdleCall
<1>3. ASSUME NEW c \in Calls, Launch(c) PROVE calls'[d].tenant \in Tenants
  BY <1>3, CallUpdates DEF Launch, TypeOK, CallsHaveTenants
<1>4. CASE UNCHANGED calls
  BY <1>4 DEF CallsHaveTenants
<1> QED
  BY <1>1, <1>2, <1>3, <1>4 DEF Next, vars, ViolationBegins, ViolationEnds, FlipKillSwitch, Tick

LEMMA BegunStep ==
  TypeOK /\ CallsHaveTenants /\ EpisodesHaveBegun /\ [Next]_vars => EpisodesHaveBegun'
<1> SUFFICES ASSUME TypeOK, CallsHaveTenants, EpisodesHaveBegun, [Next]_vars, NEW e \in Episodes,
                    rollbacks'[e] > 0 \/ (\E k \in Keys : Uses(k, e)')
             PROVE  e <= begun'
  BY DEF EpisodesHaveBegun
<1>1. begun \in Nat /\ begun' \in Nat /\ begun <= begun' /\ \A k \in Keys : ViolationBegins(k) => begun' = begun + 1
  BY DEF Next, vars, TypeOK, ViolationBegins, ViolationEnds, FlipKillSwitch, Tick, Check, NoRevision, Launch, CallEnds
<1>2. ASSUME NEW k \in Keys, Uses(k, e)' PROVE e <= begun'
  BY <1>1, <1>2, UsesStep DEF EpisodesHaveBegun, Episodes
<1>3. ASSUME rollbacks'[e] > 0 PROVE e <= begun'
  <2>1. rollbacks[e] > 0 \/ \E c \in Calls, k \in Keys : Waits(c, k, e)
    BY <1>3, LaunchCounts, OnlyLaunchCounts
  <2>2. rollbacks[e] > 0 \/ \E k \in Keys : Uses(k, e)
    BY <2>1 DEF Waits, Uses
  <2> QED
    BY <1>1, <2>2 DEF EpisodesHaveBegun, Episodes
<1> QED
  BY <1>2, <1>3

LEMMA OneKeyStep ==
  TypeOK /\ EpisodeHasOneKey /\ EpisodesHaveBegun /\ [Next]_vars => EpisodeHasOneKey'
<1> SUFFICES ASSUME TypeOK, EpisodeHasOneKey, EpisodesHaveBegun, [Next]_vars,
                    NEW e \in Episodes, NEW k \in Keys, NEW l \in Keys, Uses(k, e)', Uses(l, e)'
             PROVE  k = l
  BY DEF EpisodeHasOneKey
<1>1. Uses(k, e) \/ (ViolationBegins(k) /\ e = begun + 1)
  BY UsesStep
<1>2. Uses(l, e) \/ (ViolationBegins(l) /\ e = begun + 1)
  BY UsesStep
<1>3. \A m \in Keys : Uses(m, e) => e # begun + 1
  BY DEF EpisodesHaveBegun, Episodes, TypeOK
<1>4. ViolationBegins(k) /\ ViolationBegins(l) => k = l
  BY DEF ViolationBegins, TypeOK
<1> QED
  BY <1>1, <1>2, <1>3, <1>4 DEF EpisodeHasOneKey

LEMMA SeenOnceStep ==
  TypeOK /\ CallsHaveTenants /\ EpisodeHasOneKey /\ EpisodesHaveBegun /\ SeenOnce /\ [Next]_vars => SeenOnce'
<1> SUFFICES ASSUME TypeOK, CallsHaveTenants, EpisodeHasOneKey, EpisodesHaveBegun, SeenOnce, [Next]_vars,
                    NEW e \in Episodes, NEW k \in Keys, violated'[k] = e,
                    rollbacks'[e] > 0 \/ \E c \in Calls : Holds(c, k, e)'
             PROVE  Seen(k)' /\ entries'[k].id = e
  BY DEF SeenOnce
<1> DEFINE Known == rollbacks[e] > 0 \/ \E c \in Calls : Holds(c, k, e)
<1>e. e # 0
  BY DEF Episodes
<1>1. ASSUME NEW l \in Keys, ViolationBegins(l) PROVE Seen(k)' /\ entries'[k].id = e
  <2>1. Known
    BY <1>1 DEF ViolationBegins, Holds
  <2>2. k # l
    BY <1>1, <2>1 DEF ViolationBegins, TypeOK, EpisodesHaveBegun, Uses, Episodes
  <2>3. violated[k] = e
    BY <1>1, <2>2 DEF ViolationBegins, TypeOK
  <2> QED
    BY <1>1, <2>1, <2>3 DEF SeenOnce, ViolationBegins, Seen
<1>2. ASSUME violated[k] = e, Known, UNCHANGED entries PROVE Seen(k)' /\ entries'[k].id = e
  BY <1>2 DEF SeenOnce, Seen
<1>3. ASSUME NEW l \in Keys, ViolationEnds(l) PROVE Seen(k)' /\ entries'[k].id = e
  <2>1. violated[k] = e
    BY <1>3, <1>e DEF ViolationEnds, TypeOK
  <2> QED
    BY <1>2, <1>3, <2>1 DEF ViolationEnds, Holds
<1>4. CASE Tick
  <2>1. Seen(k) /\ entries[k].id = e
    BY <1>4 DEF Tick, Holds, SeenOnce
  <2> QED
    BY <1>4, <2>1, TickFields
<1>5. ASSUME NEW c \in Calls, NEW t \in Tenants, Check(c, t) PROVE Seen(k)' /\ entries'[k].id = e
  <2>1. violated[k] = e /\ rollbacks' = rollbacks
    BY <1>5 DEF Check
  <2>2. Seen(k) /\ entries[k].id = e
    <3>1. Known \/ \E d \in Calls : k \in Matured(t) /\ e = entries[k].id
      BY <1>5, <2>1, CheckHolds
    <3> QED
      BY <2>1, <3>1 DEF SeenOnce, Matured
  <2> QED
    BY <1>5, <1>e, <2>1, <2>2, CheckFields
<1>6. ASSUME NEW c \in Calls, NoRevision(c) \/ CallEnds(c) PROVE Seen(k)' /\ entries'[k].id = e
  BY <1>2, <1>6, OtherHolds DEF NoRevision, CallEnds
<1>7. ASSUME NEW c \in Calls, Launch(c) PROVE Seen(k)' /\ entries'[k].id = e
  <2>1. violated[k] = e
    BY <1>7 DEF Launch
  <2>2. Known
    <3>1. ASSUME NEW l \in Keys, Waits(c, l, e) PROVE Holds(c, k, e)
      <4>1. Uses(l, e) /\ Uses(k, e)
        BY <2>1, <3>1 DEF Uses, Waits
      <4> QED
        BY <3>1, <4>1 DEF EpisodeHasOneKey, Waits
    <3> QED
      BY <1>7, <3>1, LaunchCounts, OtherHolds
  <2>3. Seen(k) /\ entries[k].id = e
    BY <2>1, <2>2 DEF SeenOnce
  <2> QED
    BY <1>7, <2>3, LaunchFields
<1>8. CASE FlipKillSwitch \/ UNCHANGED vars
  BY <1>2, <1>8 DEF FlipKillSwitch, vars, Holds
<1> QED
  BY <1>1, <1>3, <1>4, <1>5, <1>6, <1>7, <1>8 DEF Next

LEMMA MarkedStep ==
  TypeOK /\ CallsHaveTenants /\ EpisodeHasOneKey /\ SeenOnce /\ RolledBackIsMarked /\ [Next]_vars
    => RolledBackIsMarked'
<1> SUFFICES ASSUME TypeOK, CallsHaveTenants, EpisodeHasOneKey, SeenOnce, RolledBackIsMarked, [Next]_vars,
                    NEW k \in Keys, Seen(k)', rollbacks'[entries'[k].id] > 0
             PROVE  entries'[k].triggered
  BY DEF RolledBackIsMarked
<1>1. CASE UNCHANGED <<entries, rollbacks>>
  BY <1>1 DEF RolledBackIsMarked, Seen
<1>2. CASE Tick
  BY <1>2, TickFields DEF Tick, RolledBackIsMarked
<1>3. ASSUME NEW c \in Calls, NEW t \in Tenants, Check(c, t) PROVE entries'[k].triggered
  <2>1. CASE Seen(k) /\ entries'[k] = entries[k]
    BY <1>3, <2>1 DEF Check, RolledBackIsMarked
  <2>2. CASE ~Seen(k) /\ violated[k] # 0 /\ entries'[k].id = violated[k]
    BY <1>3, <2>2 DEF Check, SeenOnce, TypeOK
  <2> QED
    BY <1>3, <2>1, <2>2, CheckFields
<1>4. ASSUME NEW c \in Calls, Launch(c) PROVE entries'[k].triggered
  <2> DEFINE e == entries[k].id
  <2>1. Seen(k) /\ entries'[k].id = e /\ e \in Episodes
    BY <1>4, LaunchFields, EntryUpdates DEF TypeOK, Seen
  <2>2. CASE k \in Marked(c)
    BY <1>4, <2>2, LaunchFields
  <2>3. CASE k \notin Marked(c)
    <3>1. ASSUME NEW l \in Keys, Waits(c, l, e) PROVE FALSE
      <4>1. Uses(l, e) /\ Uses(k, e)
        BY <2>1, <3>1 DEF Uses, Waits
      <4>2. l = k
        BY <2>1, <4>1 DEF EpisodeHasOneKey
      <4> QED
        BY <2>1, <2>3, <3>1, <4>2, WaitedIsMarked
    <3>2. rollbacks[e] > 0
      BY <1>4, <2>1, <3>1, LaunchCounts
    <3> QED
      BY <1>4, <2>1, <2>3, <3>2, LaunchFields DEF RolledBackIsMarked
  <2> QED
    BY <2>2, <2>3
<1> QED
  BY <1>1, <1>2, <1>3, <1>4
  DEF Next, vars, ViolationBegins, ViolationEnds, FlipKillSwitch, NoRevision, CallEnds

LEMMA ContendedStep ==
  TypeOK /\ CallsHaveTenants /\ EpisodeHasOneKey /\ RolledBackIsMarked /\ WaitingIsContended /\ [Next]_vars
    => WaitingIsContended'
<1> SUFFICES ASSUME TypeOK, CallsHaveTenants, EpisodeHasOneKey, RolledBackIsMarked, WaitingIsContended, [Next]_vars,
                    NEW e \in Episodes, NEW k \in Keys, NEW c \in Calls, Waits(c, k, e)',
                    rollbacks'[e] > 0 \/ \E d \in Calls \ {c} : Waits(d, k, e)'
             PROVE  e \in contended'
  BY DEF WaitingIsContended
<1>0. contended \subseteq contended'
  BY DEF Next, vars, ViolationBegins, ViolationEnds, FlipKillSwitch, Tick, Check, NoRevision, Launch, CallEnds
<1>1. ASSUME Waits(c, k, e), rollbacks[e] > 0 \/ \E d \in Calls \ {c} : Waits(d, k, e)
      PROVE  e \in contended'
  BY <1>0, <1>1 DEF WaitingIsContended
<1>2. CASE UNCHANGED <<calls, rollbacks>>
  BY <1>1, <1>2 DEF Waits, Holds
<1>3. ASSUME NEW b \in Calls, NEW t \in Tenants, Check(b, t) PROVE e \in contended'
  <2>1. \A d \in Calls : d # b /\ Waits(d, k, e)' => Waits(d, k, e)
    BY <1>3 DEF Check, Waits, Holds, TypeOK
  \* The call that checks does not wait about what another has rolled back, and
  \* contends with those that wait already.
  <2>2. ASSUME Waits(b, k, e)' PROVE rollbacks[e] = 0 /\ \A d \in Calls \ {b} : Waits(d, k, e) => e \in contended'
    <3>1. k \in Matured(t) /\ e = entries[k].id
      BY <1>3, <2>2, CheckHolds DEF Waits
    <3>2. rollbacks[e] = 0
      BY <3>1 DEF Matured, RolledBackIsMarked, TypeOK
    <3>3. ASSUME NEW d \in Calls \ {b}, Waits(d, k, e) PROVE e \in contended'
      <4> DEFINE n == <<k[2], entries[k].id>>
      <4>1. n \in {<<l[2], entries[l].id>> : l \in Matured(t)}
        BY <3>1
      <4>2. calls[d].pc = "revision" /\ n \in calls[d].matured /\ n[2] = e
        BY <3>1, <3>3 DEF Waits, Holds
      <4> QED
        BY <1>3, <4>1, <4>2 DEF Check
    <3> QED
      BY <3>2, <3>3
  <2>3. rollbacks' = rollbacks
    BY <1>3 DEF Check
  <2>4. CASE c = b
    BY <2>1, <2>2, <2>3, <2>4
  <2>5. CASE c # b
    BY <1>1, <2>1, <2>2, <2>3, <2>5
  <2> QED
    BY <2>4, <2>5
<1>4. ASSUME NEW b \in Calls, NoRevision(b) \/ CallEnds(b) PROVE e \in contended'
  <2>1. rollbacks' = rollbacks
    BY <1>4 DEF NoRevision, CallEnds
  <2> QED
    BY <1>1, <1>4, <2>1, OtherHolds
<1>5. ASSUME NEW b \in Calls, Launch(b) PROVE e \in contended'
  <2>1. c # b /\ Waits(c, k, e) /\ \A d \in Calls : Waits(d, k, e)' => Waits(d, k, e)
    BY <1>5, OtherHolds
  <2>2. ASSUME NEW l \in Keys, Waits(b, l, e) PROVE Waits(b, k, e)
    <3>1. Uses(l, e) /\ Uses(k, e)
      BY <2>1, <2>2 DEF Uses, Waits
    <3> QED
      BY <2>2, <3>1 DEF EpisodeHasOneKey
  <2>3. rollbacks[e] > 0 \/ \E d \in Calls \ {c} : Waits(d, k, e)
    BY <1>5, <2>1, <2>2, LaunchCounts
  <2> QED
    BY <1>1, <2>1, <2>3
<1> QED
  BY <1>2, <1>3, <1>4, <1>5 DEF Next, vars, ViolationBegins, ViolationEnds, FlipKillSwitch, Tick

LEMMA SucceedsStep == TypeOK /\ OtherEntrySucceeds /\ [Next]_vars => OtherEntrySucceeds'
<1> SUFFICES ASSUME TypeOK, OtherEntrySucceeds, [Next]_vars, NEW e \in Episodes, NEW k \in Keys, NEW c \in Calls,
                    Waits(c, k, e)', Seen(k)', entries'[k].id # e
             PROVE  entries'[k].id \in succeeded'
  BY DEF OtherEntrySucceeds
<1>0. succeeded \subseteq succeeded'
  BY DEF Next, vars, ViolationBegins, ViolationEnds, FlipKillSwitch, Tick, Check, NoRevision, Launch, CallEnds
<1>1. ASSUME Waits(c, k, e), Seen(k), entries'[k].id = entries[k].id PROVE entries'[k].id \in succeeded'
  BY <1>0, <1>1 DEF OtherEntrySucceeds
<1>2. CASE UNCHANGED <<calls, entries>>
  BY <1>1, <1>2 DEF Waits, Holds, Seen
<1>3. CASE Tick
  BY <1>1, <1>3, TickFields DEF Tick, Waits, Holds
<1>4. ASSUME NEW b \in Calls, NEW t \in Tenants, Check(b, t) PROVE entries'[k].id \in succeeded'
  <2>1. CASE c = b
    <3>1. k \in Matured(t) /\ e = entries[k].id
      BY <1>4, <2>1, CheckHolds DEF Waits
    <3>2. entries'[k] = entries[k]
      BY <1>4, <3>1, CheckFields DEF Matured
    <3> QED
      BY <3>1, <3>2
  <2>2. CASE c # b
    <3>1. Waits(c, k, e)
      BY <1>4, <2>2 DEF Check, Waits, Holds, TypeOK
    <3>2. CASE Seen(k) /\ entries'[k] = entries[k]
      BY <1>1, <3>1, <3>2
    <3>3. CASE ~Seen(k) /\ k[1] = t /\ violated[k] # 0 /\ entries'[k].id = violated[k]
      <4>1. <<k[2], e>> \in calls[c].matured /\ <<k[2], e>>[1] = k[2]
        BY <3>1 DEF Waits, Holds
      <4>2. Awaited(k)
        BY <3>1, <4>1 DEF Awaited, Waits, Holds
      <4> QED
        BY <1>4, <3>3, <4>2 DEF Check
    <3> QED
      BY <1>4, <3>2, <3>3, CheckFields
  <2> QED
    BY <2>1, <2>2
<1>5. ASSUME NEW b \in Calls, NoRevision(b) \/ CallEnds(b) PROVE entries'[k].id \in succeeded'
  BY <1>1, <1>5, OtherHolds DEF NoRevision, CallEnds, Seen
<1>6. ASSUME NEW b \in Calls, Launch(b) PROVE entries'[k].id \in succeeded'
  BY <1>1, <1>6, OtherHolds, LaunchFields
<1> QED
  BY <1>2, <1>3, <1>4, <1>5, <1>6 DEF Next, vars, ViolationBegins, ViolationEnds, FlipKillSwitch

LEMMA OnceStep ==
  TypeOK /\ CallsHaveTenants /\ WaitingIsContended /\ OncePerEpisodeUnlessContended /\ [Next]_vars
    => OncePerEpisodeUnlessContended'
<1> SUFFICES ASSUME TypeOK, CallsHaveTenants, WaitingIsContended, OncePerEpisodeUnlessContended, [Next]_vars,
                    NEW e \in Episodes, rollbacks'[e] > 1
             PROVE  e \in contended'
  BY DEF OncePerEpisodeUnlessContended
<1>0. contended \subseteq contended'
  BY DEF Next, vars, ViolationBegins, ViolationEnds, FlipKillSwitch, Tick, Check, NoRevision, Launch, CallEnds
<1>1. CASE rollbacks[e] > 1
  BY <1>0, <1>1 DEF OncePerEpisodeUnlessContended
<1>2. CASE ~(rollbacks[e] > 1)
  <2>1. rollbacks[e] \in Nat
    BY DEF TypeOK
  <2>2. PICK c \in Calls : Launch(c)
    BY <1>2, OnlyLaunchCounts
  <2>3. rollbacks[e] > 0 /\ \E k \in Keys : Waits(c, k, e)
    BY <1>2, <2>1, <2>2, LaunchCounts
  <2> QED
    BY <1>0, <2>3 DEF WaitingIsContended
<1> QED
  BY <1>1, <1>2

LEMMA WasRolledBackStep ==
  TypeOK /\ CallsHaveTenants /\ OtherEntrySucceeds /\ MarkedWasRolledBack /\ [Next]_vars => MarkedWasRolledBack'
<1> SUFFICES ASSUME TypeOK, CallsHaveTenants, OtherEntrySucceeds, MarkedWasRolledBack, [Next]_vars,
                    NEW k \in Keys, Seen(k)', entries'[k].triggered
             PROVE  rollbacks'[entries'[k].id] > 0 \/ entries'[k].id \in succeeded'
  BY DEF MarkedWasRolledBack
<1>0. succeeded \subseteq succeeded'
  BY DEF Next, vars, ViolationBegins, ViolationEnds, FlipKillSwitch, Tick, Check, NoRevision, Launch, CallEnds
<1>1. CASE UNCHANGED <<entries, rollbacks>>
  BY <1>0, <1>1 DEF MarkedWasRolledBack, Seen
<1>2. CASE Tick
  BY <1>0, <1>2, TickFields DEF Tick, MarkedWasRolledBack
<1>3. ASSUME NEW c \in Calls, NEW t \in Tenants, Check(c, t)
      PROVE  rollbacks'[entries'[k].id] > 0 \/ entries'[k].id \in succeeded'
  <2>1. Seen(k) /\ entries'[k] = entries[k] /\ rollbacks' = rollbacks
    BY <1>3, CheckFields DEF Check
  <2> QED
    BY <1>0, <2>1 DEF MarkedWasRolledBack
<1>4. ASSUME NEW c \in Calls, Launch(c)
      PROVE  rollbacks'[entries'[k].id] > 0 \/ entries'[k].id \in succeeded'
  <2> DEFINE e == entries[k].id
  <2>1. Seen(k) /\ entries'[k].id = e /\ e \in Episodes
    BY <1>4, LaunchFields, EntryUpdates DEF TypeOK, Seen
  <2>2. CASE k \in Marked(c)
    <3>1. PICK m \in calls[c].matured : m[1] = k[2]
      BY <2>2 DEF Marked
    <3>2. m \in Rules \X Episodes
      BY <3>1, CallUpdates DEF TypeOK
    <3>3. m[2] \in Episodes /\ Waits(c, k, m[2])
      <4>1. m = <<k[2], m[2]>>
        BY <3>1, <3>2
      <4> QED
        BY <1>4, <2>2, <3>1, <3>2, <4>1 DEF Launch, Marked, Waits, Holds
    <3>4. CASE m[2] = e
      BY <1>4, <2>1, <3>3, <3>4, LaunchCounts
    <3>5. CASE m[2] # e
      BY <1>0, <2>1, <3>3, <3>5 DEF OtherEntrySucceeds
    <3> QED
      BY <3>4, <3>5
  <2>3. CASE k \notin Marked(c)
    <3>1. rollbacks[e] > 0 \/ e \in succeeded
      BY <1>4, <2>1, <2>3, LaunchFields DEF MarkedWasRolledBack
    <3>2. rollbacks[e] > 0 => rollbacks'[e] > 0
      BY <1>4, <2>1, LaunchCounts
    <3> QED
      BY <1>0, <2>1, <3>1, <3>2
  <2> QED
    BY <2>2, <2>3
<1> QED
  BY <1>1, <1>2, <1>3, <1>4
  DEF Next, vars, ViolationBegins, ViolationEnds, FlipKillSwitch, NoRevision, CallEnds

-----------------------------------------------------------------------------
LEMMA InitIInv == Init => IInv
<1> SUFFICES ASSUME Init PROVE IInv
  OBVIOUS
<1>1. TypeOK
  BY AutoRollbackAssumption, CallUpdates DEF Init, TypeOK, Call, IdleCall
<1>2. \A c \in Calls, k \in Keys, e \in Episodes : ~Holds(c, k, e)
  BY DEF Init, Holds, IdleCall
<1>3. \A k \in Keys, e \in Episodes : ~Uses(k, e) /\ ~Seen(k)
  BY <1>2 DEF Init, Uses, Seen, Episodes
<1>4. CallsHaveTenants
  BY DEF Init, CallsHaveTenants, IdleCall
<1>5. \A e \in Episodes : ~(rollbacks[e] > 0) /\ ~(rollbacks[e] > 1)
  BY DEF Init
<1>6. EpisodeHasOneKey /\ EpisodesHaveBegun
  BY <1>3, <1>5 DEF EpisodeHasOneKey, EpisodesHaveBegun
<1>7. SeenOnce /\ RolledBackIsMarked /\ MarkedWasRolledBack
  <2>1. \A k \in Keys : ~Seen(k)
    BY DEF Init, Seen
  <2> QED
    BY <1>2, <1>5, <2>1 DEF SeenOnce, RolledBackIsMarked, MarkedWasRolledBack
<1>8. WaitingIsContended /\ OtherEntrySucceeds /\ OncePerEpisodeUnlessContended
  BY <1>2, <1>5 DEF WaitingIsContended, OtherEntrySucceeds, OncePerEpisodeUnlessContended, Waits
<1> QED
  BY <1>1, <1>4, <1>6, <1>7, <1>8 DEF IInv

LEMMA Inductive == IInv /\ [Next]_vars => IInv'
  BY TypeStep, TenantsStep, OneKeyStep, BegunStep, SeenOnceStep, MarkedStep, ContendedStep, SucceedsStep,
     OnceStep, WasRolledBackStep
  DEF IInv

LEMMA Invariant == Spec => []IInv
  BY InitIInv, Inductive, PTL DEF Spec

\* The Map of entries and the calls in flight keep their types: no entry is older
\* than the threshold, and none is there without an episode of a violation.
THEOREM TypeCorrect == Spec => []TypeOK
<1>1. IInv => TypeOK
  BY DEF IInv
<1> QED
  BY Invariant, <1>1, PTL

\* checkAndRollback rolls an episode back twice only when two calls await the
\* previous revision about it at once, whatever violations, tenants, rules and
\* failures come in between.
THEOREM RolledBackOnce == Spec => []OncePerEpisodeUnlessContended
<1>1. IInv => OncePerEpisodeUnlessContended
  BY DEF IInv
<1> QED
  BY Invariant, <1>1, PTL

\* checkAndRollback sets triggeredAt on what it did not roll back only when the
\* episode took the key over from one that a call was waiting about.
THEOREM MarkIsEarned == Spec => []MarkedWasRolledBack
<1>1. IInv => MarkedWasRolledBack
  BY DEF IInv
<1> QED
  BY Invariant, <1>1, PTL
=============================================================================
