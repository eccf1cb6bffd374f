----------------------------- MODULE AuditChain -----------------------------
(***************************************************************************)
(* audit-log: entries that are stamped, chained to the last entry of their *)
(* tenant and inserted (createAuditLogger), and verifyHashChain, which     *)
(* replays a tenant's entries in the order of their stamps.  Hashes do not *)
(* collide: the hash of a row is the row's number.                         *)
(***************************************************************************)
EXTENDS Naturals, Sequences

CONSTANTS Tenant,
          Writer,   \* calls of logAudit that may be under way at once
          MaxRows,  \* bound
          MaxClock  \* bound

VARIABLES rows,       \* in the order of insertion: tenant, occurred_at, prev_hash
          writer,
          clock,
          overlapped  \* history: the tenants two entries of which were logged at once

avars == <<rows, writer, clock, overlapped>>

NoWriter == [pc |-> "idle"]
Hash == 1 .. MaxRows
NoHash == 0

TypeOK ==
  /\ rows \in Seq([tenant : Tenant, at : 0 .. MaxClock, prev : Hash \cup {NoHash}]) /\ Len(rows) <= MaxRows
  /\ writer \in [Writer -> {NoWriter} \cup [pc : {"last"}, tenant : Tenant, at : 0 .. MaxClock]
                            \cup [pc : {"insert"}, tenant : Tenant, at : 0 .. MaxClock, prev : Hash \cup {NoHash}]]
  /\ clock \in 0 .. MaxClock /\ overlapped \subseteq Tenant

Init ==
  /\ rows = <<>> /\ writer = [w \in Writer |-> NoWriter]
  /\ clock = 0 /\ overlapped = {}

\* Stamps are not unique, and the clock does not go back.
Tick ==
  /\ clock < MaxClock /\ clock' = clock + 1
  /\ UNCHANGED <<rows, writer, overlapped>>

Of(t) == {i \in 1 .. Len(rows) : rows[i].tenant = t}
After(i, j) == rows[i].at > rows[j].at \/ (rows[i].at = rows[j].at /\ i > j)

\* The last of a set of rows by its stamp; of two with one stamp the later one.
Last(set) == IF set = {} THEN NoHash ELSE CHOOSE i \in set : \A j \in set \ {i} : After(i, j)

LogAudit(w, t) ==
  /\ writer[w] = NoWriter
  /\ writer' = [writer EXCEPT ![w] = [pc |-> "last", tenant |-> t, at |-> clock]]
  /\ overlapped' = IF \E o \in Writer : writer[o] # NoWriter /\ writer[o].tenant = t
                   THEN overlapped \cup {t} ELSE overlapped
  /\ UNCHANGED <<rows, clock>>

\* Mutant of GetLastEntry: the last entry of any tenant.
GetLastEntryOfAll(w) ==
  /\ writer[w].pc = "last"
  /\ writer' = [writer EXCEPT ![w] =
       [pc |-> "insert", tenant |-> @.tenant, at |-> @.at, prev |-> Last(1 .. Len(rows))]]
  /\ UNCHANGED <<rows, clock, overlapped>>

GetLastEntry(w) ==
  /\ writer[w].pc = "last"
  /\ writer' = [writer EXCEPT ![w] =
       [pc |-> "insert", tenant |-> @.tenant, at |-> @.at, prev |-> Last(Of(@.tenant))]]
  /\ UNCHANGED <<rows, clock, overlapped>>

Row(w) == [tenant |-> writer[w].tenant, at |-> writer[w].at, prev |-> writer[w].prev]

\* The row lands, whatever the store's answer is: when that is lost or a rejection, the
\* caller is told that the entry was not logged, and may log it again.
Insert(w) ==
  /\ writer[w].pc = "insert" /\ Len(rows) < MaxRows
  /\ rows' = Append(rows, Row(w))
  /\ writer' = [writer EXCEPT ![w] = NoWriter]
  /\ UNCHANGED <<clock, overlapped>>

\* The entry does not land; the caller is told so, and may log it again.
Fails(w) ==
  /\ writer[w] # NoWriter
  /\ writer' = [writer EXCEPT ![w] = NoWriter]
  /\ UNCHANGED <<rows, clock, overlapped>>

Next == Tick \/ \E w \in Writer : GetLastEntry(w) \/ Insert(w) \/ Fails(w) \/ \E t \in Tenant : LogAudit(w, t)

\* verifyHashChain: every row names the one before it, by stamp.
VerifyHashChain(t) == \A i \in Of(t) : rows[i].prev = Last({j \in Of(t) : After(i, j)})

-----------------------------------------------------------------------------
\* The chain of a tenant verifies, however its entries interleave with other
\* tenants' and fail, unless two entries of the tenant were logged at once: then
\* they fork it, and the verifier reports an entry nobody has touched.
ChainVerifies == \A t \in Tenant \ overlapped : VerifyHashChain(t)
=============================================================================
