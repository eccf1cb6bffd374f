---------------------------- MODULE FlagOverrides ----------------------------
(***************************************************************************)
(* feature-flags: the override of one flag in a scope (for everybody, for  *)
(* a tenant) in the store, and a process's cache of it, which expires, is  *)
(* cleared by a write of the same process, and is filled by reads that may *)
(* fail or be overtaken by a write.  infra is on and nothing is elevated:  *)
(* the flag is on unless the override of a scope says off.                 *)
(***************************************************************************)
EXTENDS Naturals

CONSTANTS Scope,
          Read,   \* getGlobalOverrides and getTenantOverrides calls under way at once
          Write,  \* set...Override and remove...Override calls under way at once
          TTL     \* cacheTtlMs in ticks

VARIABLES off,     \* the override in the store is there and says no
          cache,
          read,
          write,
          storeUp

flagVars == <<off, cache, read, write, storeUp>>

NoEntry == [age |-> TTL]
NoCall == [pc |-> "idle"]

TypeOK ==
  /\ off \in [Scope -> BOOLEAN] /\ storeUp \in BOOLEAN
  /\ cache \in [Scope -> {NoEntry} \cup [age : 0 .. TTL, off : BOOLEAN, failed : BOOLEAN, crossed : BOOLEAN]]
  /\ read \in [Read -> {NoCall} \cup [pc : {"asked"}, scope : Scope]
                 \cup [pc : {"answered"}, scope : Scope, off : BOOLEAN, failed : BOOLEAN, crossed : BOOLEAN]]
  /\ write \in [Write -> {NoCall} \cup [pc : {"upsert", "clear", "audit"}, scope : Scope, off : BOOLEAN]]

Init ==
  /\ off = [s \in Scope |-> FALSE]
  /\ cache = [s \in Scope |-> NoEntry]
  /\ read = [r \in Read |-> NoCall]
  /\ write = [w \in Write |-> NoCall]
  /\ storeUp = TRUE

\* Mutant of Fresh: an entry stays until a write clears it.
FreshAlways(s) == cache[s] # NoEntry

Fresh(s) == cache[s] # NoEntry /\ cache[s].age < TTL

\* A fresh entry is returned, and nothing changes.
GetOverrides(r, s) ==
  /\ read[r] = NoCall /\ ~Fresh(s)
  /\ read' = [read EXCEPT ![r] = [pc |-> "asked", scope |-> s]]
  /\ UNCHANGED <<off, cache, write, storeUp>>

\* What the store answers, or the empty map in place of an error.
ListOverrides(r) ==
  /\ read[r].pc = "asked"
  /\ read' = [read EXCEPT ![r] = [pc |-> "answered", scope |-> @.scope, off |-> storeUp /\ off[@.scope],
                                  failed |-> ~storeUp, crossed |-> FALSE]]
  /\ UNCHANGED <<off, cache, write, storeUp>>

CacheAnswer(r) ==
  /\ read[r].pc = "answered"
  /\ LET x == read[r] IN
       cache' = [cache EXCEPT ![x.scope] = [age |-> 0, off |-> x.off, failed |-> x.failed, crossed |-> x.crossed]]
  /\ read' = [read EXCEPT ![r] = NoCall]
  /\ UNCHANGED <<off, write, storeUp>>

\* Removing an override is switching it on.
SetOverride(w, s, v) ==
  /\ write[w] = NoCall
  /\ write' = [write EXCEPT ![w] = [pc |-> "upsert", scope |-> s, off |-> v]]
  /\ UNCHANGED <<off, cache, read, storeUp>>

\* The row changes; answers that are on their way have missed it.
Store(w) ==
  /\ off' = [off EXCEPT ![write[w].scope] = write[w].off]
  /\ read' = [r \in Read |-> IF read[r].pc = "answered" /\ read[r].scope = write[w].scope
                             THEN [read[r] EXCEPT !.crossed = TRUE] ELSE read[r]]

Upsert(w) ==
  /\ write[w].pc = "upsert" /\ storeUp
  /\ Store(w)
  /\ write' = [write EXCEPT ![w].pc = "clear"]
  /\ UNCHANGED <<cache, storeUp>>

\* Mutant of ClearCache: the entry is left to expire.
ClearCacheNot(w) ==
  /\ write[w].pc = "clear"
  /\ write' = [write EXCEPT ![w].pc = "audit"]
  /\ UNCHANGED <<off, cache, read, storeUp>>

ClearCache(w) ==
  /\ write[w].pc = "clear"
  /\ cache' = [cache EXCEPT ![write[w].scope] = NoEntry]
  /\ write' = [write EXCEPT ![w].pc = "audit"]
  /\ UNCHANGED <<off, read, storeUp>>

\* The audit trail takes the event or rejects: the override is in force.
Audit(w) ==
  /\ write[w].pc = "audit"
  /\ write' = [write EXCEPT ![w] = NoCall]
  /\ UNCHANGED <<off, cache, read, storeUp>>

\* The store rejects, with the row as it was or changed; the cache is not cleared.
UpsertRejects(w) ==
  /\ write[w].pc = "upsert"
  /\ write' = [write EXCEPT ![w] = NoCall]
  /\ \/ UNCHANGED <<off, cache, read>>
     \/ /\ Store(w)
        /\ cache' = [s \in Scope |-> IF s = write[w].scope /\ cache[s] # NoEntry
                                     THEN [cache[s] EXCEPT !.crossed = TRUE] ELSE cache[s]]
  /\ UNCHANGED storeUp

Tick ==
  /\ cache' = [s \in Scope |-> [cache[s] EXCEPT !.age = IF @ < TTL THEN @ + 1 ELSE @]]
  /\ cache' # cache
  /\ UNCHANGED <<off, read, write, storeUp>>

StoreChanges == storeUp' = ~storeUp /\ UNCHANGED <<off, cache, read, write>>

Next ==
  \/ Tick \/ StoreChanges
  \/ \E r \in Read : ListOverrides(r) \/ CacheAnswer(r) \/ \E s \in Scope : GetOverrides(r, s)
  \/ \E w \in Write : \/ Upsert(w) \/ ClearCache(w) \/ Audit(w) \/ UpsertRejects(w)
                      \/ \E s \in Scope, v \in BOOLEAN : SetOverride(w, s, v)

-----------------------------------------------------------------------------
\* A fresh entry says what the row says, unless it stands for an error, a write is about
\* to clear it, or a write had crossed the read or was lost: writes that are not
\* concurrent with a read are seen by it, in whatever order they end.
CacheIsTrue ==
  \A s \in Scope :
    Fresh(s) /\ cache[s].off # off[s] =>
      \/ cache[s].failed \/ cache[s].crossed
      \/ \E w \in Write : write[w].pc = "clear" /\ write[w].scope = s

\* No fresh entry misses that a flag is off: so it comes to be for good once the flag stays
\* off and the store up, though an error or an overtaken read was cached.
SwitchedOffInForce == \A s \in Scope : Fresh(s) => cache[s].off
=============================================================================
