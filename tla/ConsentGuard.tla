---------------------------- MODULE ConsentGuard ----------------------------
(***************************************************************************)
(* createConsentGuard: verdicts on one purpose, cached per user for TTL,   *)
(* over a store of consents; grants and revocations that invalidate the    *)
(* cache and purge the tables of the purpose.  hasConsent awaits the store *)
(* between its look at the cache and its write to it.                      *)
(*                                                                         *)
(* Time is kept as ages that stop counting at TTL, so it needs no bound.   *)
(***************************************************************************)
EXTENDS Naturals, Sequences, FiniteSets

CONSTANTS User,
          Caller,     \* each has at most one hasConsent call under way
          Admin,      \* each has at most one grant or revocation under way
          Cascade,    \* the tables to purge, in order
          TTL,        \* cacheTtlMs in ticks
          MaxChanges  \* bound: grants and revocations in a behaviour

Table == {Cascade[i] : i \in 1 .. Len(Cascade)}

ASSUME ConsentAssumption ==
  /\ TTL \in Nat \ {0} /\ MaxChanges \in Nat
  /\ Cascade \in Seq(Table)

VARIABLES consent,  \* the stored consent of each user
          cache,    \* the cached verdict and the time it has left
          ask,      \* hasConsent calls
          change,   \* grants and revocations
          tables,   \* the rows of each table, however often they are there
          age,      \* history: time since the consent was last revoked
          changes   \* bound: grants and revocations so far

gvars == <<consent, cache, ask, change, tables, age, changes>>

NoAsk == [pc |-> "idle"]
Ask(u, pc, since, granted) == [pc |-> pc, user |-> u, since |-> since, granted |-> granted]
NoEntry == [granted |-> FALSE, left |-> 0]
NoChange == [pc |-> "idle"]

Asking == [pc : {"asking", "read", "answered"}, user : User, since : 0 .. TTL, granted : BOOLEAN]
Changing == [pc : {"invalidate", "purge"}, user : User, revokes : BOOLEAN, next : 1 .. Len(Cascade) + 1]

TypeOKG ==
  /\ consent \in [User -> {"none", "active", "revoked"}]
  /\ cache \in [User -> [granted : BOOLEAN, left : 0 .. TTL]]
  /\ ask \in [Caller -> {NoAsk} \cup Asking]
  /\ change \in [Admin -> {NoChange} \cup Changing]
  /\ DOMAIN tables = Table
  /\ age \in [User -> 0 .. TTL]

InitG ==
  /\ consent \in [User -> {"none", "active"}]
  /\ cache = [u \in User |-> NoEntry]
  /\ ask = [c \in Caller |-> NoAsk]
  /\ change = [a \in Admin |-> NoChange]
  /\ tables = [t \in Table |-> {}]
  /\ age = [u \in User |-> 0] /\ changes = 0

Active(u) == consent[u] = "active"
Younger(n) == IF n = 0 THEN 0 ELSE n - 1
Older(n) == IF n = TTL THEN TTL ELSE n + 1

Tick ==
  /\ cache' = [u \in User |-> [cache[u] EXCEPT !.left = Younger(@)]]
  /\ ask' = [c \in Caller |-> IF ask[c] = NoAsk THEN NoAsk ELSE [ask[c] EXCEPT !.since = Older(@)]]
  /\ age' = [u \in User |-> IF consent[u] = "revoked" THEN Older(age[u]) ELSE age[u]]
  /\ UNCHANGED <<consent, change, tables, changes>>

-----------------------------------------------------------------------------
\* Mutant of CacheHit: the expiry is not looked at.
CacheHitForEver(c, u) ==
  /\ ask[c] = NoAsk
  /\ ask' = [ask EXCEPT ![c] = Ask(u, "answered", 0, cache[u].granted)]
  /\ UNCHANGED <<consent, cache, change, tables, age, changes>>

\* hasConsent: a cached verdict that has not expired is the answer, ...
CacheHit(c, u) ==
  /\ ask[c] = NoAsk /\ cache[u].left > 0
  /\ ask' = [ask EXCEPT ![c] = Ask(u, "answered", 0, cache[u].granted)]
  /\ UNCHANGED <<consent, cache, change, tables, age, changes>>

\* ... otherwise the store is asked.
CacheMiss(c, u) ==
  /\ ask[c] = NoAsk /\ cache[u].left = 0
  /\ ask' = [ask EXCEPT ![c] = Ask(u, "asking", 0, FALSE)]
  /\ UNCHANGED <<consent, cache, change, tables, age, changes>>

HasConsent(c, u) == CacheHit(c, u) \/ CacheMiss(c, u)

StoreAnswers(c) ==
  /\ ask[c].pc = "asking"
  /\ ask' = [ask EXCEPT ![c].pc = "read", ![c].granted = Active(ask[c].user)]
  /\ UNCHANGED <<consent, cache, change, tables, age, changes>>

\* Mutant of CacheVerdict: the entry lives from the answer of the store.
CacheVerdictFromAnswer(c) ==
  /\ ask[c].pc = "read"
  /\ cache' = [cache EXCEPT ![ask[c].user] = [granted |-> ask[c].granted, left |-> TTL]]
  /\ ask' = [ask EXCEPT ![c].pc = "answered"]
  /\ UNCHANGED <<consent, change, tables, age, changes>>

\* The entry lives for TTL from the moment the call looked at the cache.
CacheVerdict(c) ==
  /\ ask[c].pc = "read"
  /\ cache' = [cache EXCEPT ![ask[c].user] =
       [granted |-> ask[c].granted, left |-> TTL - ask[c].since]]
  /\ ask' = [ask EXCEPT ![c].pc = "answered"]
  /\ UNCHANGED <<consent, change, tables, age, changes>>

\* Mutant of StoreRejects: it fails open.
StoreRejectsOpen(c) ==
  /\ ask[c].pc = "asking"
  /\ ask' = [ask EXCEPT ![c].pc = "answered", ![c].granted = TRUE]
  /\ UNCHANGED <<consent, cache, change, tables, age, changes>>

\* Fail closed: no consent, and nothing is cached.
StoreRejects(c) ==
  /\ ask[c].pc = "asking"
  /\ ask' = [ask EXCEPT ![c].pc = "answered"]
  /\ UNCHANGED <<consent, cache, change, tables, age, changes>>

-----------------------------------------------------------------------------
\* grantConsent and revokeConsent up to the answer of the store.
Changes(a, u, revokes) ==
  /\ change[a] = NoChange /\ changes < MaxChanges
  /\ change' = [change EXCEPT ![a] =
       [pc |-> "invalidate", user |-> u, revokes |-> revokes, next |-> 1]]
  /\ changes' = changes + 1
  /\ UNCHANGED <<cache, ask, tables>>

GrantConsent(a, u) ==
  /\ Changes(a, u, FALSE)
  /\ consent' = [consent EXCEPT ![u] = "active"]
  /\ age' = [age EXCEPT ![u] = 0]

\* A user without a record has nothing to revoke: no cascade follows.
RevokeConsent(a, u) ==
  /\ Changes(a, u, consent[u] # "none")
  /\ IF consent[u] = "none" THEN UNCHANGED <<consent, age>>
     ELSE /\ consent' = [consent EXCEPT ![u] = "revoked"]
          /\ age' = IF Active(u) THEN [age EXCEPT ![u] = 0] ELSE age

\* The store made the change but its answer is a rejection: no invalidation.
ChangeRejects(a) ==
  /\ change[a].pc = "invalidate"
  /\ change' = [change EXCEPT ![a] = NoChange]
  /\ UNCHANGED <<consent, cache, ask, tables, age, changes>>

InvalidateConsentCache(a) ==
  /\ change[a].pc = "invalidate"
  /\ cache' = [cache EXCEPT ![change[a].user] = NoEntry]
  /\ change' = [change EXCEPT ![a] =
       IF change[a].revokes THEN [change[a] EXCEPT !.pc = "purge"] ELSE NoChange]
  /\ UNCHANGED <<consent, ask, tables, age, changes>>

\* onConsentRevoked: one table after the other; one that deleteRows answers could not
\* be purged is reported, and the next one follows.
\* The filter names the tenant and the purpose, so all users' rows go.
PurgeTable(a) ==
  /\ change[a].pc = "purge" /\ change[a].next <= Len(Cascade)
  /\ tables' \in {tables, [tables EXCEPT ![Cascade[change[a].next]] = {}]}
  /\ change' = [change EXCEPT ![a].next = @ + 1]
  /\ UNCHANGED <<consent, cache, ask, age, changes>>

\* deleteRows rejects, carried out or not: the tables that are left are not purged.
PurgeRejects(a) ==
  /\ change[a].pc = "purge" /\ change[a].next <= Len(Cascade)
  /\ tables' \in {tables, [tables EXCEPT ![Cascade[change[a].next]] = {}]}
  /\ change' = [change EXCEPT ![a] = NoChange]
  /\ UNCHANGED <<consent, cache, ask, age, changes>>

CascadeEnds(a) ==
  /\ change[a].pc = "purge" /\ change[a].next > Len(Cascade)
  /\ change' = [change EXCEPT ![a] = NoChange]
  /\ UNCHANGED <<consent, cache, ask, tables, age, changes>>

AskStep(c) == StoreAnswers(c) \/ CacheVerdict(c) \/ StoreRejects(c)
ChangeStep(a) ==
  \/ ChangeRejects(a) \/ InvalidateConsentCache(a) \/ PurgeTable(a) \/ PurgeRejects(a) \/ CascadeEnds(a)
Request(a) == \E u \in User : GrantConsent(a, u) \/ RevokeConsent(a, u)

-----------------------------------------------------------------------------
\* A verdict "granted" is not answered from the cache for longer than TTL after
\* the consent was revoked, even if it was cached after the invalidation.
StaleGrantExpires ==
  \A u \in User : consent[u] = "revoked" /\ cache[u].granted => cache[u].left + age[u] <= TTL
=============================================================================
