-------------------------- MODULE IngestSyncProofs --------------------------
(***************************************************************************)
(* Proofs about IngestSync and the consent guard it is gated by, for any   *)
(* users, records, overlapping syncs and revocations, cascade and TTL: how *)
(* long a stale grant is answered, how late a record is ingested, and when *)
(* one is stored twice.                                                    *)
(***************************************************************************)
EXTENDS IngestSync, TLAPS

\* The inductive invariant.  StaleGrantExpires is not inductive: a call that
\* was answered "active" before the revocation writes its verdict after it, and
\* what bounds the life of that verdict is that the call began even earlier.
ReadIsOld ==
  \A c \in Caller :
    ask[c].pc = "read" /\ ask[c].granted /\ consent[ask[c].user] = "revoked" => age[ask[c].user] <= ask[c].since

\* A gate that says yes was not asked late: the cache said so while its entry
\* was valid, or the store did, and then the consent was given in between.
GateIsTimely ==
  \A s \in Caller : At(s, "gate") =>
    /\ ask[s].user = Owner[sync[s].rec]
    /\ consent[ask[s].user] = "active" => sync[s].late = 0
    /\ ask[s].granted => sync[s].late < TTL
    /\ ask[s].pc = "asking" => ~ask[s].granted
PassedIsTimely == \A s \in Caller : sync[s].pc \in {"exists", "insert"} => sync[s].late < TTL

IInv ==
  /\ TypeOK
  /\ ReadIsOld
  /\ StaleGrantExpires
  /\ GateIsTimely
  /\ PassedIsTimely
  /\ StoredTwiceOnlyByRivals

-----------------------------------------------------------------------------
\* What the constructors and updates of the model's records are members of.
Entry == [granted : BOOLEAN, left : 0 .. TTL]
Holding == [pc : {"gate", "exists", "insert"}, todo : SUBSET Record, rec : Record, late : 0 .. TTL, beaten : BOOLEAN]

LEMMA AskFields ==
  ASSUME NEW x \in Asking
  PROVE  /\ x.pc \in {"asking", "read", "answered"} /\ x.user \in User /\ x.since \in 0 .. TTL
         /\ x.granted \in BOOLEAN /\ x # NoAsk
  BY DEF Asking, NoAsk

LEMMA AskUpdates ==
  ASSUME NEW x \in Asking, NEW pc \in {"asking", "read", "answered"}, NEW n \in 0 .. TTL, NEW g \in BOOLEAN, NEW u \in User
  PROVE  /\ [x EXCEPT !.pc = pc] \in Asking
         /\ [x EXCEPT !.pc = pc, !.granted = g] \in Asking
         /\ Ask(u, pc, n, g) \in Asking
<1>1. [x EXCEPT !.pc = pc] \in Asking
  BY Zenon DEF Asking
<1>2. [x EXCEPT !.pc = pc, !.granted = g] \in Asking
  BY Zenon DEF Asking
<1>3. Ask(u, pc, n, g) \in Asking
  BY Zenon DEF Asking, Ask
<1> QED
  BY <1>1, <1>2, <1>3

LEMMA AskAges ==
  ASSUME NEW x \in Asking, NEW n \in 0 .. TTL
  PROVE  [x EXCEPT !.since = n] \in Asking
  BY Zenon DEF Asking

LEMMA ChangeUpdates ==
  ASSUME NEW x \in Changing
  PROVE  /\ [x EXCEPT !.pc = "purge"] \in Changing
         /\ x.next <= Len(Cascade) => [x EXCEPT !.next = x.next + 1] \in Changing
<1>1. [x EXCEPT !.pc = "purge"] \in Changing
  BY Zenon DEF Changing
<1>2. ASSUME x.next <= Len(Cascade)
      PROVE  [x EXCEPT !.next = x.next + 1] \in Changing
  <2>1. x.next + 1 \in 1 .. Len(Cascade) + 1
    BY <1>2, ConsentAssumption DEF Changing
  <2> QED
    BY <2>1 DEF Changing
<1> QED
  BY <1>1, <1>2

LEMMA NewChange ==
  ASSUME NEW u \in User, NEW r \in BOOLEAN
  PROVE  [pc |-> "invalidate", user |-> u, revokes |-> r, next |-> 1] \in Changing
<1>1. 1 \in 1 .. Len(Cascade) + 1
  BY ConsentAssumption
<1> QED
  BY <1>1, Zenon DEF Changing

LEMMA EntryTyped ==
  ASSUME NEW g \in BOOLEAN, NEW n \in 0 .. TTL
  PROVE  [granted |-> g, left |-> n] \in Entry
  BY DEF Entry

LEMMA SyncFields ==
  ASSUME NEW x \in SyncState
  PROVE  /\ x.pc \in {"idle", "fetch", "next", "gate", "exists", "insert"}
         /\ x.pc \in {"next", "gate", "exists", "insert"} => x.todo \in SUBSET Record
         /\ x.pc \in {"gate", "exists", "insert"} => x \in Holding
  BY DEF SyncState, Holding

LEMMA HoldingFields ==
  ASSUME NEW x \in Holding
  PROVE  /\ x.pc \in {"gate", "exists", "insert"} /\ x.todo \in SUBSET Record /\ x.rec \in Record
         /\ x.late \in 0 .. TTL /\ x.beaten \in BOOLEAN /\ x \in SyncState
  BY DEF SyncState, Holding

LEMMA HoldingUpdates ==
  ASSUME NEW x \in Holding
  PROVE  /\ \A pc \in {"gate", "exists", "insert"} : [x EXCEPT !.pc = pc] \in SyncState /\ [x EXCEPT !.pc = pc].pc = pc
         /\ \A n \in 0 .. TTL : [x EXCEPT !.late = n] \in SyncState /\ [x EXCEPT !.late = n].pc = x.pc
         /\ [x EXCEPT !.beaten = TRUE] \in SyncState /\ [x EXCEPT !.beaten = TRUE].pc = x.pc
<1>1. ASSUME NEW pc \in {"gate", "exists", "insert"}
      PROVE  [x EXCEPT !.pc = pc] \in Holding /\ [x EXCEPT !.pc = pc].pc = pc
  BY Zenon DEF Holding
<1>2. ASSUME NEW n \in 0 .. TTL
      PROVE  [x EXCEPT !.late = n] \in Holding /\ [x EXCEPT !.late = n].pc = x.pc
  BY Zenon DEF Holding
<1>3. [x EXCEPT !.beaten = TRUE] \in Holding /\ [x EXCEPT !.beaten = TRUE].pc = x.pc
  BY Zenon DEF Holding
<1> QED
  BY <1>1, <1>2, <1>3, HoldingFields

LEMMA SyncStates ==
  ASSUME NEW todo \in SUBSET Record, NEW rec \in Record, NEW n \in 0 .. TTL
  PROVE  /\ NoSync \in SyncState /\ [pc |-> "fetch"] \in SyncState /\ Looking(todo) \in SyncState
         /\ [pc |-> "gate", todo |-> todo, rec |-> rec, late |-> n, beaten |-> FALSE] \in Holding
<1>1. NoSync \in SyncState /\ [pc |-> "fetch"] \in SyncState
  BY DEF NoSync, SyncState
<1>2. Looking(todo) \in SyncState
  BY DEF Looking, SyncState
<1>3. [pc |-> "gate", todo |-> todo, rec |-> rec, late |-> n, beaten |-> FALSE] \in Holding
  BY Zenon DEF Holding
<1> QED
  BY <1>1, <1>2, <1>3

\* The types: one step per action.
Typed ==
  /\ consent \in [User -> {"none", "active", "revoked"}] /\ cache \in [User -> Entry]
  /\ ask \in [Caller -> {NoAsk} \cup Asking] /\ change \in [Admin -> {NoChange} \cup Changing]
  /\ tables \in [Table -> SUBSET Record] /\ age \in [User -> 0 .. TTL]
  /\ sync \in [Caller -> SyncState]
  /\ \A s \in Caller : ask[s] # NoAsk <=> At(s, "gate")

LEMMA TypedIsTypeOK == TypeOK <=> Typed
  BY DEF TypeOK, TypeOKG, Typed, Entry

\* A call of the guard that goes on stays a call.
LEMMA AskMoves ==
  ASSUME Typed, NEW s \in Caller, AskStep(s)
  PROVE  /\ ask[s] \in Asking /\ ask' \in [Caller -> {NoAsk} \cup Asking]
         /\ \A c \in Caller : ask'[c] # NoAsk <=> ask[c] # NoAsk
<1> DEFINE x == ask[s]
<1>1. x \in Asking /\ Active(x.user) \in BOOLEAN
  BY DEF AskStep, StoreAnswers, CacheVerdict, StoreRejects, NoAsk, Typed, Active
<1>2. /\ [x EXCEPT !.pc = "answered"] \in Asking
      /\ [x EXCEPT !.pc = "read", !.granted = Active(x.user)] \in Asking
  <2>1. x.user \in User /\ 0 \in 0 .. TTL
    BY <1>1, AskFields, ConsentAssumption
  <2> QED
    BY <1>1, <2>1, AskUpdates, Zenon
<1>3. PICK y \in Asking : ask' = [ask EXCEPT ![s] = y]
  <2>1. CASE ask' = [ask EXCEPT ![s].pc = "answered"]
    <3>1. ask' = [ask EXCEPT ![s] = [x EXCEPT !.pc = "answered"]]
      BY <2>1
    <3> QED
      BY <3>1, <1>2
  <2>2. CASE ask' = [ask EXCEPT ![s].pc = "read", ![s].granted = Active(ask[s].user)]
    <3>1. ask' = [ask EXCEPT ![s] = [x EXCEPT !.pc = "read", !.granted = Active(x.user)]]
      BY <2>2 DEF Typed
    <3> QED
      BY <3>1, <1>2
  <2> QED
    BY <2>1, <2>2 DEF AskStep, StoreAnswers, CacheVerdict, StoreRejects
<1>4. y # NoAsk /\ x # NoAsk
  BY <1>1, AskFields
<1> HIDE DEF x
<1>5. x = ask[s]
  BY DEF x
<1> QED
  BY <1>1, <1>3, <1>4, <1>5 DEF Typed

LEMMA TypeStep == TypeOK /\ [Next]_vars => TypeOK'
<1> SUFFICES ASSUME Typed, [Next]_vars PROVE Typed'
  BY TypedIsTypeOK, PTL
<1> USE ConsentAssumption, IngestAssumption DEF Typed
<1>t. TTL \in Nat /\ TTL > 0 /\ 0 \in 0 .. TTL
  OBVIOUS
<1>1. CASE Tick /\ UNCHANGED sync
  <2>1. cache' \in [User -> Entry]
    <3>1. ASSUME NEW u \in User PROVE [cache[u] EXCEPT !.left = Younger(@)] \in Entry
      <4>1. cache[u] \in Entry /\ Younger(cache[u].left) \in 0 .. TTL
        BY DEF Entry, Younger
      <4> QED
        BY <4>1, Zenon DEF Entry
    <3> QED
      BY <1>1, <3>1 DEF Tick
  <2>2. \A c \in Caller : ask'[c] = NoAsk \/ ask'[c] \in Asking
    <3>1. SUFFICES ASSUME NEW c \in Caller, ask[c] \in Asking PROVE [ask[c] EXCEPT !.since = Older(@)] \in Asking
      BY <1>1 DEF Tick
    <3>2. Older(ask[c].since) \in 0 .. TTL
      BY <3>1, AskFields DEF Older
    <3> QED
      BY <3>1, <3>2, AskAges
  <2>3. \A s \in Caller : ask'[s] # NoAsk <=> At(s, "gate")'
    <3>1. ASSUME NEW c \in Caller, ask[c] \in Asking PROVE ask'[c] # NoAsk
      BY <1>1, <3>1 DEF Tick, NoAsk, Asking
    <3> QED
      BY <1>1, <3>1 DEF Tick, At
  <2>4. age' \in [User -> 0 .. TTL]
    BY <1>1 DEF Tick, Older
  <2> QED
    BY <1>1, <2>1, <2>2, <2>3, <2>4 DEF Tick
<1>2. ASSUME NEW a \in Admin, NEW u \in User, GrantConsent(a, u) \/ RevokeConsent(a, u), Regranted
      PROVE  Typed'
  <2>1. change' \in [Admin -> {NoChange} \cup Changing]
    <3>1. PICK r \in BOOLEAN : Changes(a, u, r)
      BY <1>2 DEF GrantConsent, RevokeConsent
    <3>2. change' = [change EXCEPT ![a] = [pc |-> "invalidate", user |-> u, revokes |-> r, next |-> 1]]
      BY <3>1 DEF Changes
    <3> QED
      BY <3>2, NewChange
  <2>2. consent' \in [User -> {"none", "active", "revoked"}] /\ age' \in [User -> 0 .. TTL]
    BY <1>2, <1>t DEF GrantConsent, RevokeConsent
  <2>3. sync' \in [Caller -> SyncState] /\ \A s \in Caller : sync'[s].pc = sync[s].pc
    <3>1. ASSUME NEW s \in Caller, At(s, "gate")
          PROVE  [sync[s] EXCEPT !.late = 0] \in SyncState /\ [sync[s] EXCEPT !.late = 0].pc = sync[s].pc
      <4>1. sync[s] \in Holding
        BY <3>1, SyncFields DEF At
      <4> QED
        BY <4>1, <1>t, HoldingUpdates, HoldingFields
    <3> QED
      BY <1>2, <3>1 DEF Regranted
  <2> QED
    BY <1>2, <2>1, <2>2, <2>3 DEF GrantConsent, RevokeConsent, Changes, At
<1>3. ASSUME NEW a \in Admin, ChangeStep(a), UNCHANGED sync
      PROVE  Typed'
  <2>0. change[a] \in Changing /\ change[a].user \in User
    BY <1>3 DEF ChangeStep, ChangeRejects, InvalidateConsentCache, PurgeTable, PurgeRejects, CascadeEnds, NoChange, Changing
  <2>1. CASE ChangeRejects(a) \/ CascadeEnds(a)
    BY <1>3, <2>1 DEF ChangeRejects, CascadeEnds, At
  <2>2. CASE InvalidateConsentCache(a)
    <3>1. cache' \in [User -> Entry]
      BY <2>2, <1>t, EntryTyped DEF InvalidateConsentCache, NoEntry
    <3>2. change' \in [Admin -> {NoChange} \cup Changing]
      BY <2>0, <2>2, ChangeUpdates DEF InvalidateConsentCache
    <3> QED
      BY <1>3, <2>2, <3>1, <3>2 DEF InvalidateConsentCache, At
  <2>3. CASE PurgeTable(a)
    <3>1. tables' \in [Table -> SUBSET Record]
      BY <2>3 DEF PurgeTable
    <3>2. change' = [change EXCEPT ![a] = [change[a] EXCEPT !.next = change[a].next + 1]]
      BY <2>3 DEF PurgeTable
    <3>3. change' \in [Admin -> {NoChange} \cup Changing]
      BY <2>0, <2>3, <3>2, ChangeUpdates DEF PurgeTable
    <3> QED
      BY <1>3, <2>3, <3>1, <3>3 DEF PurgeTable, At
  <2>4. CASE PurgeRejects(a)
    <3>1. tables' \in [Table -> SUBSET Record]
      BY <2>4 DEF PurgeRejects
    <3> QED
      BY <1>3, <2>4, <3>1 DEF PurgeRejects, At
  <2> QED
    BY <1>3, <2>1, <2>2, <2>3, <2>4 DEF ChangeStep
<1>4. ASSUME NEW s \in Caller, AskStep(s), UNCHANGED sync
      PROVE  Typed'
  <2>1. ask[s] \in Asking /\ ask' \in [Caller -> {NoAsk} \cup Asking] /\ \A c \in Caller : ask'[c] # NoAsk <=> ask[c] # NoAsk
    BY <1>4, AskMoves
  <2>2. cache' \in [User -> Entry]
    <3>1. TTL - ask[s].since \in 0 .. TTL /\ ask[s].granted \in BOOLEAN
      BY <2>1, AskFields
    <3>2. [granted |-> ask[s].granted, left |-> TTL - ask[s].since] \in Entry
      BY <3>1, EntryTyped
    <3> QED
      BY <1>4, <3>2 DEF AskStep, StoreAnswers, CacheVerdict, StoreRejects
  <2> QED
    BY <1>4, <2>1, <2>2 DEF AskStep, StoreAnswers, CacheVerdict, StoreRejects, At
<1>5. ASSUME NEW s \in Caller, SyncConnection(s) \/ SyncStep(s)
      PROVE  Typed'
  <2>1. CASE NextRecord(s)
    <3>1. PICK rec \in sync[s].todo :
       /\ HasConsent(s, Owner[rec])
       /\ sync' = [sync EXCEPT ![s] =
            [pc |-> "gate", todo |-> @.todo \ {rec}, rec |-> rec,
             late |-> IF consent[Owner[rec]] = "revoked" THEN age[Owner[rec]] ELSE 0,
             beaten |-> FALSE]]
      BY <2>1 DEF NextRecord
    <3>2. sync[s].todo \in SUBSET Record /\ rec \in Record /\ Owner[rec] \in User
      BY <2>1, SyncFields DEF NextRecord, At
    <3> DEFINE late == IF consent[Owner[rec]] = "revoked" THEN age[Owner[rec]] ELSE 0
               x == [pc |-> "gate", todo |-> sync[s].todo \ {rec}, rec |-> rec, late |-> late, beaten |-> FALSE]
    <3>3. x \in SyncState /\ x.pc = "gate"
      BY <3>2, <1>t, SyncStates, HoldingFields
    <3>4. sync' = [sync EXCEPT ![s] = x]
      BY <3>1
    <3> HIDE DEF x
    <3>5. sync' \in [Caller -> SyncState] /\ At(s, "gate")' /\ \A q \in Caller : q # s => sync'[q] = sync[q]
      BY <3>3, <3>4 DEF At
    <3>6. PICK y \in Asking : ask' = [ask EXCEPT ![s] = y]
      <4>1. cache[Owner[rec]].granted \in BOOLEAN
        BY <3>2 DEF Entry
      <4>2. \A pc \in {"asking", "read", "answered"}, g \in BOOLEAN : Ask(Owner[rec], pc, 0, g) \in Asking
        BY <3>2, <1>t DEF Ask, Asking
      <4> QED
        BY <3>1, <4>1, <4>2 DEF HasConsent, CacheHit, CacheMiss
    <3>7. y # NoAsk
      BY AskFields
    <3> QED
      BY <3>1, <3>5, <3>6, <3>7 DEF HasConsent, CacheHit, CacheMiss, At
  <2>2. CASE GateAnswers(s)
    <3>1. sync[s] \in Holding
      BY <2>2, SyncFields DEF GateAnswers, At
    <3>2. PICK x \in SyncState : x.pc # "gate" /\ sync' = [sync EXCEPT ![s] = x]
      <4>1. CASE sync' = [sync EXCEPT ![s] = Looking(@.todo)]
        <5>1. Looking(sync[s].todo) \in SyncState /\ Looking(sync[s].todo).pc # "gate"
          BY <1>t, <3>1, HoldingFields, SyncFields DEF Looking, SyncState
        <5> QED
          BY <4>1, <5>1
      <4>2. CASE sync' = [sync EXCEPT ![s].pc = "exists"]
        <5>1. [sync[s] EXCEPT !.pc = "exists"] \in SyncState /\ [sync[s] EXCEPT !.pc = "exists"].pc # "gate"
          BY <1>t, <3>1, HoldingFields, HoldingUpdates
        <5>2. sync' = [sync EXCEPT ![s] = [sync[s] EXCEPT !.pc = "exists"]]
          BY <4>2
        <5> QED
          BY <5>1, <5>2
      <4> QED
        BY <2>2, <4>1, <4>2 DEF GateAnswers
    <3> QED
      BY <2>2, <3>2 DEF GateAnswers, At
  <2>3. CASE Insert(s)
    <3>1. sync[s] \in Holding /\ sync[s].pc = "insert"
      BY <2>3, SyncFields DEF Insert, At
    <3>2. Looking(sync[s].todo) \in SyncState /\ Looking(sync[s].todo).pc # "gate"
      BY <3>1, HoldingFields DEF Looking, SyncState
    <3>3. ASSUME NEW q \in Rivals(s)
          PROVE  [sync[q] EXCEPT !.beaten = TRUE] \in SyncState /\ [sync[q] EXCEPT !.beaten = TRUE].pc # "gate"
      <4>1. sync[q] \in Holding /\ sync[q].pc = "insert" /\ 0 \in 0 .. TTL
        BY <3>3, SyncFields DEF Rivals, At
      <4> QED
        BY <4>1, HoldingFields, HoldingUpdates
    <3>4. sync' \in [Caller -> SyncState]
      BY <2>3, <3>2, <3>3 DEF Insert
    <3>5. \A q \in Caller : sync'[q].pc = "gate" <=> sync[q].pc = "gate"
      BY <2>3, <3>1, <3>2, <3>3 DEF Insert, Rivals, At
    <3>6. tables' \in [Table -> SUBSET Record]
      BY <2>3, <3>1, HoldingFields DEF Insert
    <3> QED
      BY <2>3, <3>4, <3>5, <3>6 DEF Insert, At
  <2>4. CASE SyncConnection(s) \/ FetchRecords(s) \/ Exists(s) \/ SyncEnds(s) \/ SyncFails(s)
    <3>1. UNCHANGED gvars /\ sync[s].pc # "gate"
      BY <2>4 DEF SyncConnection, FetchRecords, Exists, SyncEnds, SyncFails, At
    <3>2. \E x \in SyncState : x.pc # "gate" /\ sync' = [sync EXCEPT ![s] = x]
      <4>1. CASE SyncConnection(s) \/ SyncEnds(s) \/ SyncFails(s)
        BY <4>1 DEF SyncConnection, SyncEnds, SyncFails, NoSync, SyncState
      <4>2. CASE FetchRecords(s)
        BY <4>2 DEF FetchRecords, Looking, SyncState
      <4>3. CASE Exists(s)
        <5>1. sync[s] \in Holding
          BY <4>3, SyncFields DEF Exists, At
        <5>2. Looking(sync[s].todo) \in SyncState /\ Looking(sync[s].todo).pc # "gate"
          BY <5>1, HoldingFields DEF Looking, SyncState
        <5>3. [sync[s] EXCEPT !.pc = "insert"] \in SyncState /\ [sync[s] EXCEPT !.pc = "insert"].pc # "gate"
          BY <1>t, <5>1, HoldingFields, HoldingUpdates
        <5> QED
          BY <4>3, <5>2, <5>3 DEF Exists
      <4> QED
        BY <2>4, <4>1, <4>2, <4>3
    <3> QED
      BY <3>1, <3>2 DEF gvars, At
  <2> QED
    BY <1>5, <2>1, <2>2, <2>3, <2>4 DEF SyncStep
<1>6. CASE UNCHANGED vars
  BY <1>6 DEF vars, gvars, At
<1> QED
  BY <1>1, <1>2, <1>3, <1>4, <1>5, <1>6 DEF Next, Request

-----------------------------------------------------------------------------
\* What the steps do to what the invariants look at.
\* A revocation that is new starts the age of the consent at 0.
LEMMA RevokedIsNewOrOld ==
  ASSUME Typed, NEW a \in Admin, NEW u \in User, GrantConsent(a, u) \/ RevokeConsent(a, u), NEW v \in User, consent'[v] = "revoked"
  PROVE  age'[v] = 0 \/ (consent[v] = "revoked" /\ age'[v] = age[v])
  BY DEF Typed, GrantConsent, RevokeConsent, Active

\* Time passes for a call that is under way, and nothing else about it.
LEMMA AskAgesOnly ==
  ASSUME Typed, Tick, NEW c \in Caller, ask'[c].pc # "idle"
  PROVE  /\ ask[c] \in Asking /\ ask'[c].since = Older(ask[c].since)
         /\ ask'[c].pc = ask[c].pc /\ ask'[c].user = ask[c].user /\ ask'[c].granted = ask[c].granted
<1>1. ask[c] # NoAsk
  BY DEF Typed, Tick, NoAsk
<1>2. ask[c] \in Asking /\ ask'[c] = [ask[c] EXCEPT !.since = Older(@)]
  BY <1>1 DEF Typed, Tick
<1> QED
  BY <1>2 DEF Asking

LEMMA OlderGrows ==
  ASSUME NEW m \in 0 .. TTL, NEW n \in 0 .. TTL, m <= n
  PROVE  Older(m) \in 0 .. TTL /\ Older(m) <= Older(n) /\ Older(m) <= m + 1
  BY ConsentAssumption DEF Older

\* What becomes of one call of the guard in a step of that call.
LEMMA AskMoveFields ==
  ASSUME Typed, NEW s \in Caller, AskStep(s), NEW c \in Caller, ask'[c] # ask[c]
  PROVE  /\ c = s /\ ask[c] \in Asking /\ ask'[c].user = ask[c].user /\ ask'[c].since = ask[c].since
         /\ \/ ask'[c].pc = "read" /\ ask'[c].granted = Active(ask[c].user)
            \/ ask'[c].pc = "answered" /\ ask'[c].granted = ask[c].granted
<1>1. ask[s] \in Asking
  BY AskMoves
<1> QED
  BY <1>1 DEF AskStep, StoreAnswers, CacheVerdict, StoreRejects, Asking, Typed

\* A sync asks the gate.
LEMMA Asked ==
  ASSUME Typed, NEW s \in Caller, NextRecord(s)
  PROVE  \E rec \in Record :
           LET u == Owner[rec] IN
           /\ u \in User /\ At(s, "gate")' /\ sync'[s].rec = rec
           /\ sync'[s].late = IF consent[u] = "revoked" THEN age[u] ELSE 0
           /\ \/ ask'[s] = Ask(u, "answered", 0, cache[u].granted) /\ cache[u].left > 0
              \/ ask'[s] = Ask(u, "asking", 0, FALSE)
           /\ \A q \in Caller : q # s => sync'[q] = sync[q] /\ ask'[q] = ask[q]
           /\ UNCHANGED <<consent, cache, change, tables, age>>
<1>1. PICK rec \in sync[s].todo :
   /\ HasConsent(s, Owner[rec])
   /\ sync' = [sync EXCEPT ![s] =
        [pc |-> "gate", todo |-> @.todo \ {rec}, rec |-> rec,
         late |-> IF consent[Owner[rec]] = "revoked" THEN age[Owner[rec]] ELSE 0,
         beaten |-> FALSE]]
  BY DEF NextRecord
<1>2. rec \in Record /\ Owner[rec] \in User
  BY SyncFields, IngestAssumption DEF NextRecord, At, Typed
<1>3. /\ At(s, "gate")' /\ sync'[s].rec = rec
      /\ sync'[s].late = IF consent[Owner[rec]] = "revoked" THEN age[Owner[rec]] ELSE 0
      /\ \A q \in Caller : q # s => sync'[q] = sync[q]
  BY <1>1 DEF Typed, At
<1> QED
  BY <1>1, <1>2, <1>3 DEF HasConsent, CacheHit, CacheMiss, Typed

\* The other steps of a sync leave every gate but its own alone.
LEMMA GatesAlone ==
  ASSUME Typed, NEW s \in Caller, SyncConnection(s) \/ SyncStep(s), ~NextRecord(s), NEW q \in Caller, At(q, "gate")'
  PROVE  /\ sync'[q] = sync[q] /\ ask'[q] = ask[q]
         /\ UNCHANGED <<consent, cache, age>>
<1>1. CASE GateAnswers(s)
  <2>1. sync[s] \in Holding
    BY <1>1, SyncFields DEF GateAnswers, At, Typed
  <2>2. sync'[s].pc # "gate"
    BY <1>1, <2>1 DEF GateAnswers, Looking, Holding, Typed
  <2> QED
    BY <1>1, <2>2 DEF GateAnswers, At, Typed
<1>2. CASE Insert(s)
  <2>1. q \notin Rivals(s) /\ q # s
    <3>1. ASSUME q \in Rivals(s) PROVE FALSE
      <4>1. sync[q] \in Holding /\ sync[q].pc = "insert"
        BY <3>1, SyncFields DEF Rivals, At, Typed
      <4> QED
        BY <1>2, <3>1, <4>1 DEF Insert, Rivals, Holding, At
    <3> QED
      BY <1>2, <3>1 DEF Insert, Looking, At
  <2> QED
    BY <1>2, <2>1 DEF Insert, At
<1>3. CASE Exists(s)
  BY <1>3, SyncFields, HoldingUpdates DEF Exists, Looking, At, Typed, gvars
<1>4. CASE SyncConnection(s) \/ FetchRecords(s) \/ SyncEnds(s) \/ SyncFails(s)
  BY <1>4 DEF SyncConnection, FetchRecords, SyncEnds, SyncFails, Looking, NoSync, At, Typed, gvars
<1> QED
  BY <1>1, <1>2, <1>3, <1>4 DEF SyncStep

\* A sync gets beyond the gate when the gate says yes, and to its insert when
\* the sink has no such record.
LEMMA GetsOn ==
  ASSUME Typed, NEW s \in Caller, SyncConnection(s) \/ SyncStep(s), NEW q \in Caller, sync'[q].pc \in {"exists", "insert"}
  PROVE  /\ sync'[q].late = sync[q].late /\ sync'[q].rec = sync[q].rec /\ sync[q] \in Holding
         /\ \/ At(q, "gate") /\ ask[q].granted /\ At(q, "exists")'
            \/ At(q, "exists") /\ At(q, "insert")' /\ sync[q].rec \notin tables[Sink] /\ UNCHANGED tables
            \/ sync'[q].pc = sync[q].pc /\ sync'[q] = sync[q] /\ UNCHANGED tables
            \/ sync'[q].pc = sync[q].pc /\ Insert(s)
<1> USE DEF Typed
<1>1. CASE GateAnswers(s)
  <2>1. sync[s] \in Holding
    BY <1>1, SyncFields DEF GateAnswers, At
  <2>2. CASE q = s
    BY <1>1, <2>1, <2>2 DEF GateAnswers, Looking, At, Holding
  <2>3. CASE q # s
    BY <1>1, <2>3, SyncFields DEF GateAnswers
  <2> QED
    BY <2>2, <2>3
<1>2. CASE Insert(s)
  <2>1. CASE q \in Rivals(s)
    <3>1. sync[q] \in Holding
      BY <2>1, SyncFields DEF Rivals, At
    <3> QED
      BY <1>2, <2>1, <3>1 DEF Insert, Rivals, Holding
  <2>2. CASE q \notin Rivals(s)
    BY <1>2, <2>2, SyncFields DEF Insert, Looking
  <2> QED
    BY <2>1, <2>2
<1>3. CASE Exists(s)
  <2>1. sync[s] \in Holding
    BY <1>3, SyncFields DEF Exists, At
  <2>2. CASE q = s
    BY <1>3, <2>1, <2>2 DEF Exists, Stored, Looking, At, Holding, gvars
  <2>3. CASE q # s
    BY <1>3, <2>3, SyncFields DEF Exists, gvars
  <2> QED
    BY <2>2, <2>3
<1>4. CASE NextRecord(s)
  BY <1>4, Asked, SyncFields DEF At
<1>5. CASE SyncConnection(s) \/ FetchRecords(s) \/ SyncEnds(s) \/ SyncFails(s)
  BY <1>5, SyncFields DEF SyncConnection, FetchRecords, SyncEnds, SyncFails, Looking, NoSync, At, gvars
<1> QED
  BY <1>1, <1>2, <1>3, <1>4, <1>5 DEF SyncStep

-----------------------------------------------------------------------------
\* The invariants: one lemma each, one step per action.
LEMMA ReadIsOldStep == Typed /\ ReadIsOld /\ [Next]_vars => ReadIsOld'
<1> SUFFICES ASSUME Typed, ReadIsOld, [Next]_vars, NEW c \in Caller,
                    ask'[c].pc = "read", ask'[c].granted, consent'[ask'[c].user] = "revoked"
             PROVE  age'[ask'[c].user] <= ask'[c].since
  BY DEF ReadIsOld
<1> USE DEF Typed
<1>u. ASSUME ask'[c] = ask[c], UNCHANGED <<consent, age>> PROVE age'[ask'[c].user] <= ask'[c].since
  BY <1>u DEF ReadIsOld
<1>1. CASE Tick /\ UNCHANGED sync
  <2>1. /\ ask[c] \in Asking /\ ask[c].pc = "read" /\ ask[c].granted
        /\ ask'[c].user = ask[c].user /\ ask'[c].since = Older(ask[c].since)
    BY <1>1, AskAgesOnly
  <2>2. ask[c].user \in User /\ ask[c].since \in 0 .. TTL /\ consent[ask[c].user] = "revoked"
    BY <1>1, <2>1, AskFields DEF Tick
  <2>3. age[ask[c].user] <= ask[c].since /\ age'[ask[c].user] = Older(age[ask[c].user])
    BY <1>1, <2>1, <2>2 DEF Tick, ReadIsOld
  <2> QED
    BY <2>1, <2>2, <2>3, OlderGrows
<1>2. ASSUME NEW a \in Admin, NEW u \in User, GrantConsent(a, u) \/ RevokeConsent(a, u)
      PROVE  age'[ask'[c].user] <= ask'[c].since
  <2>1. ask'[c] = ask[c]
    BY <1>2 DEF GrantConsent, RevokeConsent, Changes
  <2>2. ask[c] \in Asking
    BY <2>1 DEF NoAsk
  <2>3. ask[c].user \in User /\ ask[c].since \in 0 .. TTL
    BY <2>2, AskFields
  <2>4. age'[ask[c].user] = 0 \/ (consent[ask[c].user] = "revoked" /\ age'[ask[c].user] = age[ask[c].user])
    BY <1>2, <2>1, <2>3, RevokedIsNewOrOld
  <2> QED
    BY <2>1, <2>3, <2>4 DEF ReadIsOld
<1>3. ASSUME NEW a \in Admin, ChangeStep(a) PROVE age'[ask'[c].user] <= ask'[c].since
  BY <1>3, <1>u DEF ChangeStep, ChangeRejects, InvalidateConsentCache, PurgeTable, PurgeRejects, CascadeEnds
<1>4. ASSUME NEW s \in Caller, AskStep(s) PROVE age'[ask'[c].user] <= ask'[c].since
  <2>1. UNCHANGED <<consent, age>>
    BY <1>4 DEF AskStep, StoreAnswers, CacheVerdict, StoreRejects
  <2>2. ask'[c] = ask[c]
    BY <1>4, <2>1, AskMoveFields DEF Active
  <2> QED
    BY <2>1, <2>2, <1>u
<1>5. ASSUME NEW s \in Caller, SyncConnection(s) \/ SyncStep(s) PROVE age'[ask'[c].user] <= ask'[c].since
  <2>1. CASE NextRecord(s)
    <3>1. /\ ask'[s].pc # "read" /\ UNCHANGED <<consent, age>>
          /\ \A r \in Caller : r # s => ask'[r] = ask[r]
      BY <2>1 DEF NextRecord, HasConsent, CacheHit, CacheMiss, Ask
    <3> QED
      BY <3>1, <1>u
  <2>2. CASE GateAnswers(s)
    BY <2>2, <1>u DEF GateAnswers, NoAsk
  <2>3. CASE Insert(s)
    BY <2>3, <1>u DEF Insert
  <2> QED
    BY <1>5, <2>1, <2>2, <2>3, <1>u
    DEF SyncStep, SyncConnection, FetchRecords, Exists, SyncEnds, SyncFails, gvars
<1>6. CASE UNCHANGED vars
  BY <1>6, <1>u DEF vars, gvars
<1> QED
  BY <1>1, <1>2, <1>3, <1>4, <1>5, <1>6 DEF Next, Request

LEMMA StaleStep == Typed /\ ReadIsOld /\ StaleGrantExpires /\ [Next]_vars => StaleGrantExpires'
<1> SUFFICES ASSUME Typed, ReadIsOld, StaleGrantExpires, [Next]_vars,
                    NEW u \in User, consent'[u] = "revoked", cache'[u].granted
             PROVE  cache'[u].left + age'[u] <= TTL
  BY DEF StaleGrantExpires
<1> USE ConsentAssumption DEF Typed
<1>f. cache[u].left \in 0 .. TTL /\ age[u] \in 0 .. TTL
  BY DEF Entry
<1>u. ASSUME cache'[u] = cache[u], UNCHANGED <<consent, age>> PROVE cache'[u].left + age'[u] <= TTL
  BY <1>u DEF StaleGrantExpires
<1>1. CASE Tick /\ UNCHANGED sync
  <2>1. cache'[u].granted = cache[u].granted /\ cache'[u].left = Younger(cache[u].left)
    BY <1>1 DEF Tick, Entry
  <2>2. consent[u] = "revoked" /\ age'[u] = Older(age[u])
    BY <1>1 DEF Tick
  <2>3. cache[u].left + age[u] <= TTL
    BY <2>1, <2>2 DEF StaleGrantExpires
  <2> QED
    BY <1>f, <2>1, <2>2, <2>3 DEF Older, Younger
<1>2. ASSUME NEW a \in Admin, NEW v \in User, GrantConsent(a, v) \/ RevokeConsent(a, v)
      PROVE  cache'[u].left + age'[u] <= TTL
  <2>1. cache' = cache
    BY <1>2 DEF GrantConsent, RevokeConsent, Changes
  <2> QED
    BY <1>2, <1>f, <2>1, RevokedIsNewOrOld DEF StaleGrantExpires
<1>3. ASSUME NEW a \in Admin, ChangeStep(a) PROVE cache'[u].left + age'[u] <= TTL
  <2>1. UNCHANGED <<consent, age>>
    BY <1>3 DEF ChangeStep, ChangeRejects, InvalidateConsentCache, PurgeTable, PurgeRejects, CascadeEnds
  <2>2. cache'[u] = cache[u]
    BY <1>3 DEF ChangeStep, ChangeRejects, InvalidateConsentCache, PurgeTable, PurgeRejects, CascadeEnds, NoEntry
  <2> QED
    BY <1>u, <2>1, <2>2
<1>4. ASSUME NEW s \in Caller, AskStep(s) PROVE cache'[u].left + age'[u] <= TTL
  <2>1. UNCHANGED <<consent, age>>
    BY <1>4 DEF AskStep, StoreAnswers, CacheVerdict, StoreRejects
  <2>2. CASE CacheVerdict(s) /\ ask[s].user = u
    <3>1. cache'[u].granted = ask[s].granted /\ cache'[u].left = TTL - ask[s].since
      BY <2>2 DEF CacheVerdict
    <3>2. age[u] <= ask[s].since
      BY <2>1, <2>2, <3>1 DEF CacheVerdict, ReadIsOld
    <3>3. ask[s].since \in 0 .. TTL
      BY <1>4, AskMoves, AskFields
    <3> QED
      BY <1>f, <2>1, <3>1, <3>2, <3>3
  <2>3. CASE ~(CacheVerdict(s) /\ ask[s].user = u)
    BY <1>4, <1>u, <2>1, <2>3 DEF AskStep, StoreAnswers, CacheVerdict, StoreRejects
  <2> QED
    BY <2>2, <2>3
<1>5. ASSUME NEW s \in Caller, SyncConnection(s) \/ SyncStep(s) PROVE cache'[u].left + age'[u] <= TTL
  <2>1. CASE NextRecord(s)
    BY <2>1, Asked, <1>u
  <2>2. CASE ~NextRecord(s)
    BY <1>5, <1>u, <2>2
    DEF SyncStep, SyncConnection, FetchRecords, GateAnswers, Exists, Insert, SyncEnds, SyncFails, gvars
  <2> QED
    BY <2>1, <2>2
<1>6. CASE UNCHANGED vars
  BY <1>6, <1>u DEF vars, gvars
<1> QED
  BY <1>1, <1>2, <1>3, <1>4, <1>5, <1>6 DEF Next, Request

\* What GateIsTimely says of one sync.
Timely(s) ==
  /\ ask[s].user = Owner[sync[s].rec]
  /\ consent[ask[s].user] = "active" => sync[s].late = 0
  /\ ask[s].granted => sync[s].late < TTL
  /\ ask[s].pc = "asking" => ~ask[s].granted

LEMMA GateStep == Typed /\ StaleGrantExpires /\ GateIsTimely /\ [Next]_vars => GateIsTimely'
<1> SUFFICES ASSUME Typed, StaleGrantExpires, GateIsTimely, [Next]_vars, NEW q \in Caller, At(q, "gate")'
             PROVE  Timely(q)'
  BY DEF GateIsTimely, Timely
<1> USE ConsentAssumption DEF Typed
<1>g. At(q, "gate") => Timely(q) /\ ask[q] # NoAsk /\ ask[q] \in Asking /\ sync[q] \in Holding
  BY SyncFields DEF GateIsTimely, Timely, At
<1>u. ASSUME ask'[q] = ask[q], sync'[q] = sync[q], UNCHANGED consent PROVE Timely(q)'
  BY <1>g, <1>u DEF Timely, At
<1>1. CASE Tick /\ UNCHANGED sync
  <2>1. ask'[q].pc # "idle"
    BY <1>1, <1>g DEF Tick, At, Asking
  <2>2. ask'[q].pc = ask[q].pc /\ ask'[q].user = ask[q].user /\ ask'[q].granted = ask[q].granted
    BY <1>1, <2>1, AskAgesOnly
  <2> QED
    BY <1>1, <1>g, <2>2 DEF Tick, Timely, At
<1>2. ASSUME NEW a \in Admin, NEW v \in User, GrantConsent(a, v) \/ RevokeConsent(a, v), Regranted
      PROVE  Timely(q)'
  <2>1. ask' = ask
    BY <1>2 DEF GrantConsent, RevokeConsent, Changes
  <2>2. At(q, "gate") /\ sync[q] \in Holding
    <3>1. CASE sync'[q] = sync[q]
      BY <1>g, <3>1 DEF At
    <3>2. CASE sync'[q] # sync[q]
      BY <1>2, <1>g, <3>2 DEF Regranted
    <3> QED
      BY <3>1, <3>2
  <2>3. /\ sync'[q].rec = sync[q].rec
        /\ sync'[q].late = IF consent'[Owner[sync[q].rec]] = "active" THEN 0 ELSE sync[q].late
    BY <1>2, <2>2 DEF Regranted, Holding
  <2> QED
    BY <1>g, <2>1, <2>2, <2>3 DEF Timely
<1>3. ASSUME NEW a \in Admin, ChangeStep(a), UNCHANGED sync PROVE Timely(q)'
  BY <1>3, <1>u DEF ChangeStep, ChangeRejects, InvalidateConsentCache, PurgeTable, PurgeRejects, CascadeEnds
<1>4. ASSUME NEW s \in Caller, AskStep(s), UNCHANGED sync PROVE Timely(q)'
  <2>1. UNCHANGED consent
    BY <1>4 DEF AskStep, StoreAnswers, CacheVerdict, StoreRejects
  <2>2. CASE ask'[q] # ask[q]
    <3>1. /\ ask'[q].user = ask[q].user
          /\ \/ ask'[q].pc = "read" /\ ask'[q].granted = Active(ask[q].user)
             \/ ask'[q].pc = "answered" /\ ask'[q].granted = ask[q].granted
      BY <1>4, <2>2, AskMoveFields
    <3>2. Timely(q)
      BY <1>4, <1>g DEF At
    <3>3. ask'[q].pc = "read" => (ask'[q].granted => consent[ask[q].user] = "active")
      BY <3>1, Zenon DEF Active
    <3>4. ask'[q].pc = "answered" => (ask'[q].granted => ask[q].granted)
      BY <3>1, Zenon
    <3>5. ask'[q].granted => sync[q].late < TTL
      <4>1. ask'[q].pc = "read" \/ ask'[q].pc = "answered"
        BY <3>1, Zenon
      <4>2. consent[ask[q].user] = "active" => sync[q].late < TTL
        BY <3>2 DEF Timely
      <4>3. ask[q].granted => sync[q].late < TTL
        BY <3>2 DEF Timely
      <4> QED
        BY <3>3, <3>4, <4>1, <4>2, <4>3, Zenon
    <3> QED
      BY <1>4, <2>1, <3>1, <3>2, <3>5 DEF Timely
  <2> QED
    BY <1>4, <1>u, <2>1, <2>2
<1>5. ASSUME NEW s \in Caller, SyncConnection(s) \/ SyncStep(s) PROVE Timely(q)'
  <2>1. CASE NextRecord(s) /\ q = s
    <3>1. PICK rec \in Record :
           LET u == Owner[rec] IN
           /\ u \in User /\ At(s, "gate")' /\ sync'[s].rec = rec
           /\ sync'[s].late = IF consent[u] = "revoked" THEN age[u] ELSE 0
           /\ \/ ask'[s] = Ask(u, "answered", 0, cache[u].granted) /\ cache[u].left > 0
              \/ ask'[s] = Ask(u, "asking", 0, FALSE)
           /\ UNCHANGED <<consent, cache, change, tables, age>>
      BY <2>1, Asked
    <3> DEFINE u == Owner[rec]
    <3>2. u \in User /\ cache[u].left \in 0 .. TTL /\ age[u] \in 0 .. TTL
      BY <3>1 DEF Entry
    <3>3. cache[u].granted /\ cache[u].left > 0 /\ consent[u] = "revoked" => age[u] < TTL
      BY <3>2 DEF StaleGrantExpires
    <3>4. ask'[s].user = u /\ (ask'[s].granted => cache[u].granted /\ cache[u].left > 0) /\ (ask'[s].pc = "asking" => ~ask'[s].granted)
      BY <3>1 DEF Ask
    <3> QED
      BY <2>1, <3>1, <3>2, <3>3, <3>4 DEF Timely
  <2>2. CASE NextRecord(s) /\ q # s
    BY <2>2, Asked, <1>u
  <2>3. CASE ~NextRecord(s)
    BY <1>5, <2>3, GatesAlone, <1>u
  <2> QED
    BY <2>1, <2>2, <2>3
<1>6. CASE UNCHANGED vars
  BY <1>6, <1>u DEF vars, gvars
<1> QED
  BY <1>1, <1>2, <1>3, <1>4, <1>5, <1>6 DEF Next, Request

LEMMA PassedStep == Typed /\ GateIsTimely /\ PassedIsTimely /\ [Next]_vars => PassedIsTimely'
<1> SUFFICES ASSUME Typed, GateIsTimely, PassedIsTimely, [Next]_vars,
                    NEW q \in Caller, sync'[q].pc \in {"exists", "insert"}
             PROVE  sync'[q].late < TTL
  BY DEF PassedIsTimely
<1>u. ASSUME sync'[q] = sync[q] PROVE sync'[q].late < TTL
  BY <1>u DEF PassedIsTimely
<1>1. CASE UNCHANGED sync
  BY <1>1, <1>u
<1>2. ASSUME Regranted PROVE sync'[q].late < TTL
  <2>1. CASE At(q, "gate")
    <3>1. sync[q] \in Holding /\ sync[q].pc = "gate"
      BY <2>1, SyncFields DEF Typed, At
    <3> QED
      BY <1>2, <3>1 DEF Regranted, Holding
  <2> QED
    BY <1>2, <2>1, <1>u DEF Regranted
<1>3. ASSUME NEW s \in Caller, SyncConnection(s) \/ SyncStep(s) PROVE sync'[q].late < TTL
  <2>1. /\ sync'[q].late = sync[q].late
        /\ (At(q, "gate") /\ ask[q].granted) \/ sync[q].pc \in {"exists", "insert"}
    BY <1>3, GetsOn DEF At
  <2> QED
    BY <2>1 DEF PassedIsTimely, GateIsTimely
<1> QED
  BY <1>1, <1>2, <1>3 DEF Next, Request, vars

LEMMA TwiceStep == Typed /\ StoredTwiceOnlyByRivals /\ [Next]_vars => StoredTwiceOnlyByRivals'
<1> SUFFICES ASSUME Typed, StoredTwiceOnlyByRivals, [Next]_vars,
                    NEW q \in Caller, At(q, "insert")', sync'[q].rec \in tables'[Sink]
             PROVE  sync'[q].beaten
  BY DEF StoredTwiceOnlyByRivals
<1> USE IngestAssumption
<1>u. ASSUME sync'[q] = sync[q], tables'[Sink] \subseteq tables[Sink] PROVE sync'[q].beaten
  BY <1>u DEF StoredTwiceOnlyByRivals, At
<1>1. CASE Tick /\ UNCHANGED sync
  BY <1>1, <1>u DEF Tick
<1>2. ASSUME NEW a \in Admin, NEW u \in User, GrantConsent(a, u) \/ RevokeConsent(a, u), Regranted
      PROVE  sync'[q].beaten
  <2>1. tables' = tables
    BY <1>2 DEF GrantConsent, RevokeConsent, Changes
  <2>2. CASE At(q, "gate")
    <3>1. sync[q] \in Holding /\ sync[q].pc = "gate"
      BY <2>2, SyncFields DEF Typed, At
    <3> QED
      BY <1>2, <3>1, <1>u, <2>1 DEF Regranted, Holding, At
  <2> QED
    BY <1>2, <2>1, <2>2, <1>u DEF Regranted
<1>3. ASSUME NEW a \in Admin, ChangeStep(a), UNCHANGED sync PROVE sync'[q].beaten
  <2>1. CASE PurgeTable(a) \/ PurgeRejects(a)
    <3>1. tables'[Sink] \subseteq tables[Sink]
      BY <2>1 DEF PurgeTable, PurgeRejects, Typed
    <3> QED
      BY <1>3, <1>u, <3>1
  <2> QED
    BY <1>3, <2>1, <1>u DEF ChangeStep, ChangeRejects, InvalidateConsentCache, CascadeEnds
<1>4. ASSUME NEW s \in Caller, AskStep(s), UNCHANGED sync PROVE sync'[q].beaten
  BY <1>4, <1>u DEF AskStep, StoreAnswers, CacheVerdict, StoreRejects
<1>5. ASSUME NEW s \in Caller, SyncConnection(s) \/ SyncStep(s) PROVE sync'[q].beaten
  <2>1. CASE Insert(s) /\ At(q, "insert")
    <3>1. sync[q] \in Holding /\ sync[s] \in Holding /\ q # s
      BY <2>1, SyncFields DEF Typed, Insert, At, Looking
    <3>2. CASE q \in Rivals(s)
      BY <2>1, <3>1, <3>2 DEF Insert, Holding
    <3>3. CASE q \notin Rivals(s)
      <4>1. sync'[q] = sync[q] /\ sync[q].rec # sync[s].rec
        BY <2>1, <3>1, <3>3 DEF Insert, Rivals
      <4>2. sync[q].rec \in tables[Sink]
        BY <2>1, <4>1 DEF Insert, Typed
      <4> QED
        BY <2>1, <4>1, <4>2 DEF StoredTwiceOnlyByRivals
    <3> QED
      BY <3>2, <3>3
  <2>2. CASE ~(Insert(s) /\ At(q, "insert"))
    <3>1. \/ sync[q].rec \notin tables[Sink] /\ UNCHANGED tables /\ sync'[q].rec = sync[q].rec
          \/ sync'[q] = sync[q] /\ UNCHANGED tables
      BY <1>5, <2>2, GetsOn DEF At
    <3> QED
      BY <3>1, <1>u
  <2> QED
    BY <2>1, <2>2
<1>6. CASE UNCHANGED vars
  BY <1>6, <1>u DEF vars, gvars
<1> QED
  BY <1>1, <1>2, <1>3, <1>4, <1>5, <1>6 DEF Next, Request

-----------------------------------------------------------------------------
LEMMA InitIInv == Init => IInv
<1> SUFFICES ASSUME Init PROVE IInv
  OBVIOUS
<1> USE ConsentAssumption DEF Init, InitG
<1>1. NoSync \in SyncState /\ NoSync.pc = "idle"
  BY DEF NoSync, SyncState
<1>2. NoEntry \in Entry /\ NoEntry.granted = FALSE
  <2>1. 0 \in 0 .. TTL /\ FALSE \in BOOLEAN
    OBVIOUS
  <2> QED
    BY <2>1, Zenon DEF Entry, NoEntry
<1>3. NoAsk.pc = "idle"
  BY DEF NoAsk
<1>4. TypeOK
  BY <1>1, <1>2, TypedIsTypeOK DEF Typed, At
<1> QED
  BY <1>1, <1>2, <1>3, <1>4
  DEF IInv, ReadIsOld, StaleGrantExpires, GateIsTimely, PassedIsTimely, StoredTwiceOnlyByRivals, At

LEMMA Inductive == IInv /\ [Next]_vars => IInv'
  BY TypedIsTypeOK, TypeStep, ReadIsOldStep, StaleStep, GateStep, PassedStep, TwiceStep DEF IInv

LEMMA Invariant == Spec => []IInv
  BY InitIInv, Inductive, PTL DEF Spec

\* Cache, calls, changes, tables and syncs keep their types: no entry of the
\* cache lives longer than TTL, and a call of the guard is under way just when
\* its sync waits at the gate.
THEOREM TypeCorrect == Spec => []TypeOK
<1>1. IInv => TypeOK
  BY DEF IInv
<1> QED
  BY Invariant, <1>1, PTL

\* hasConsent: however calls, invalidations and the writes of the cache cross,
\* a stale "granted" is answered for at most TTL after the revocation.
THEOREM StaleGrantsExpire == Spec => []StaleGrantExpires
<1>1. IInv => StaleGrantExpires
  BY DEF IInv
<1> QED
  BY Invariant, <1>1, PTL

\* syncConnection: a record is inserted only if the gate was asked less than TTL
\* after the consent was revoked, however long look and insert take after that.
THEOREM IngestionIsTimely == Spec => []IngestedWithinTTL
<1>1. IInv => IngestedWithinTTL
  BY DEF IInv, PassedIsTimely, IngestedWithinTTL, At
<1> QED
  BY Invariant, <1>1, PTL

\* syncConnection: the look before the insert fails to keep a record from being
\* stored twice only if another sync inserts it in between.
THEOREM DuplicatesAreRivals == Spec => []StoredTwiceOnlyByRivals
<1>1. IInv => StoredTwiceOnlyByRivals
  BY DEF IInv
<1> QED
  BY Invariant, <1>1, PTL
=============================================================================
