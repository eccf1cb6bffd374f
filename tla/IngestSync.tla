----------------------------- MODULE IngestSync -----------------------------
(***************************************************************************)
(* SyncEngine.syncConnection (kit-integration-manager) with the consent    *)
(* guard as its gate: fetch records, and for each of them ask the gate,    *)
(* look whether the sink has it, insert it.  Syncs overlap each other and  *)
(* the revocations that purge what they have inserted.                     *)
(***************************************************************************)
EXTENDS ConsentGuard

CONSTANTS Record,     \* what the provider may return, each with an external id
          Owner,      \* whose consent a record needs
          FetchLimit, \* records per sync
          Sink        \* the table syncs insert into, one of the cascade

ASSUME IngestAssumption ==
  /\ Owner \in [Record -> User] /\ Sink \in Table
  /\ FetchLimit \in Nat

\* Every caller of the guard is a sync; todo is what it fetched and has not
\* looked at.  History: late is the age the revocation of the owner's consent
\* had when the gate was asked, 0 if there was none; beaten tells that another
\* sync inserted the record since this one looked for it.
VARIABLE sync

vars == <<gvars, sync>>

NoSync == [pc |-> "idle"]
Looking(todo) == [pc |-> "next", todo |-> todo]
At(s, pc) == sync[s].pc = pc

SyncState ==
  [pc : {"idle", "fetch"}] \cup [pc : {"next"}, todo : SUBSET Record] \cup
  [pc : {"gate", "exists", "insert"}, todo : SUBSET Record, rec : Record, late : 0 .. TTL, beaten : BOOLEAN]

TypeOK ==
  /\ TypeOKG
  /\ tables \in [Table -> SUBSET Record]
  /\ sync \in [Caller -> SyncState]
  /\ \A s \in Caller : ask[s] # NoAsk <=> At(s, "gate")

Init == InitG /\ sync = [s \in Caller |-> NoSync]

SyncConnection(s) ==
  /\ At(s, "idle")
  /\ sync' = [sync EXCEPT ![s] = [pc |-> "fetch"]]
  /\ UNCHANGED gvars

FetchRecords(s) ==
  /\ At(s, "fetch")
  /\ \E todo \in {f \in SUBSET Record : Cardinality(f) <= FetchLimit} :
       sync' = [sync EXCEPT ![s] = Looking(todo)]
  /\ UNCHANGED gvars

NextRecord(s) ==
  /\ At(s, "next")
  /\ \E rec \in sync[s].todo :
       /\ HasConsent(s, Owner[rec])
       /\ sync' = [sync EXCEPT ![s] =
            [pc |-> "gate", todo |-> @.todo \ {rec}, rec |-> rec,
             late |-> IF consent[Owner[rec]] = "revoked" THEN age[Owner[rec]] ELSE 0,
             beaten |-> FALSE]]

\* Without consent the record is passed over; so is one that normalize refuses.
GateAnswers(s) ==
  /\ At(s, "gate") /\ ask[s].pc = "answered"
  /\ ask' = [ask EXCEPT ![s] = NoAsk]
  /\ \/ sync' = [sync EXCEPT ![s] = Looking(@.todo)]
     \/ /\ ask[s].granted
        /\ sync' = [sync EXCEPT ![s].pc = "exists"]
  /\ UNCHANGED <<consent, cache, change, tables, age, changes>>

\* Mutant of Stored: the query names another table.
StoredElsewhere(rec) == \E t \in Table \ {Sink} : rec \in tables[t]

Stored(rec) == rec \in tables[Sink]

Exists(s) ==
  /\ At(s, "exists")
  /\ sync' = [sync EXCEPT ![s] = IF Stored(sync[s].rec) THEN Looking(@.todo) ELSE [@ EXCEPT !.pc = "insert"]]
  /\ UNCHANGED gvars

Rivals(s) == {r \in Caller \ {s} : At(r, "insert") /\ sync[r].rec = sync[s].rec}

Insert(s) ==
  /\ At(s, "insert")
  /\ tables' = [tables EXCEPT ![Sink] = @ \cup {sync[s].rec}]
  /\ sync' = [r \in Caller |->
       IF r = s THEN Looking(sync[s].todo)
       ELSE IF r \in Rivals(s) THEN [sync[r] EXCEPT !.beaten = TRUE] ELSE sync[r]]
  /\ UNCHANGED <<consent, cache, ask, change, age, changes>>

SyncEnds(s) ==
  /\ At(s, "next") /\ sync[s].todo = {}
  /\ sync' = [sync EXCEPT ![s] = NoSync]
  /\ UNCHANGED gvars

\* Provider or sink throws: the sync is over and reports that it synced nothing.
SyncFails(s) ==
  /\ sync[s].pc \in {"fetch", "exists", "insert"}
  /\ sync' = [sync EXCEPT ![s] = NoSync]
  /\ UNCHANGED gvars

SyncStep(s) ==
  \/ FetchRecords(s) \/ NextRecord(s) \/ GateAnswers(s) \/ Exists(s) \/ Insert(s)
  \/ SyncEnds(s) \/ SyncFails(s)

\* History: a gate that is asked when consent is given again is not late.
Regranted ==
  sync' = [s \in Caller |->
    IF At(s, "gate") /\ consent'[Owner[sync[s].rec]] = "active" THEN [sync[s] EXCEPT !.late = 0] ELSE sync[s]]

Next ==
  \/ Tick /\ UNCHANGED sync
  \/ \E a \in Admin : Request(a) /\ Regranted
  \/ \E a \in Admin : ChangeStep(a) /\ UNCHANGED sync
  \/ \E s \in Caller : AskStep(s) /\ UNCHANGED sync
  \/ \E s \in Caller : SyncConnection(s) \/ SyncStep(s)

\* Time passes, and what guard and syncs await settles.
Fairness ==
  /\ WF_vars(Tick /\ UNCHANGED sync)
  /\ \A a \in Admin : WF_vars(ChangeStep(a) /\ UNCHANGED sync)
  /\ \A s \in Caller : WF_vars(AskStep(s) /\ UNCHANGED sync) /\ WF_vars(SyncStep(s))

Spec == Init /\ [][Next]_vars /\ Fairness

-----------------------------------------------------------------------------
(***************************************************************************)
(* Properties.                                                             *)
(***************************************************************************)

\* Nothing is ingested about a user whose consent was revoked, unless the gate
\* was asked less than TTL after the revocation.
IngestedWithinTTL == \A s \in Caller : At(s, "insert") => sync[s].late < TTL

\* A record is about to be stored a second time only by a
\* sync that another one has overtaken since it looked for the record.
StoredTwiceOnlyByRivals ==
  \A s \in Caller : At(s, "insert") /\ sync[s].rec \in tables[Sink] => sync[s].beaten

\* After the last revocation of a consent there comes a time from which no sync
\* holds a record of the user that it may insert, and no cached grant is valid.
RevocationIsFinal ==
  \A u \in User : <>[](consent[u] = "revoked") =>
    <>[](\A s \in Caller : ~(At(s, "insert") /\ Owner[sync[s].rec] = u) /\ ~(cache[u].granted /\ cache[u].left > 0))
=============================================================================
