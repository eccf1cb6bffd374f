------------------------ MODULE JobEnabledSyncProofs ------------------------
(***************************************************************************)
(* Proofs about JobEnabledSync, for any number of requests in flight and   *)
(* of restarts, with and without a store that rejects and an operator who  *)
(* edits the row: when a job that is enabled in the process is enabled in  *)
(* the store, and when a job that is disabled in the store does not run.   *)
(***************************************************************************)
EXTENDS JobEnabledSync, TLAPS

\* The inductive invariant for QuietDisableHolds: from a quiet claim on, what is
\* sent says "false", so the answer cannot be anything else.
ClaimIsClean ==
    /\ phase = "idle" => claimedOff = "no"
    /\ phase # "claimed" => answer = "unread"

QuietStays ==
    claimedOff = "quiet" =>
        /\ phase = "claimed" /\ ~initPersist
        /\ row = "false" /\ answer \in {"unread", "false"}
        /\ \A i \in DOMAIN writes : writes[i].flag = "false"

\* The inductive invariant for EnabledReachesStore: the youngest request in
\* flight says "true".  An update that finds no row goes on as an insert behind
\* younger requests, so this needs to know when a queue cannot be served without
\* an insert that comes too late.
Doomed ==
    \/ row # "absent" /\ \E i \in DOMAIN writes : writes[i].op = "insert"
    \/ row = "absent" /\ \E i \in DOMAIN writes : i > 1 /\ writes[i].op = "insert"
    \/ row = "absent" /\ Len(writes) > 1 /\ writes[1].op = "update"

YoungestEnables ==
    \/ writes = << >> /\ row = "true"
    \/ writes # << >> /\ writes[Len(writes)].flag = "true"

EnabledIsOnItsWay == local /\ ~initPersist /\ ~disturbed /\ ~off => Doomed \/ YoungestEnables

IInv == TypeOK /\ ClaimIsClean /\ QuietStays /\ EnabledIsOnItsWay

-----------------------------------------------------------------------------
LEMMA Concatenated ==
  ASSUME NEW S, NEW q \in Seq(S), NEW r \in Seq(S)
  PROVE  /\ q \o r \in Seq(S) /\ Len(q \o r) = Len(q) + Len(r)
         /\ \A j \in 1..(Len(q) + Len(r)) : (q \o r)[j] = IF j <= Len(q) THEN q[j] ELSE r[j - Len(q)]
  OBVIOUS

\* What is left of a queue without one of its requests.
LEMMA Removed ==
  ASSUME NEW S, NEW q \in Seq(S), NEW i \in 1..Len(q)
  PROVE  /\ RemoveAt(q, i) \in Seq(S) /\ Len(RemoveAt(q, i)) = Len(q) - 1
         /\ \A j \in 1..(Len(q) - 1) : RemoveAt(q, i)[j] = IF j < i THEN q[j] ELSE q[j + 1]
<1> DEFINE front == SubSeq(q, 1, i - 1)
           back == SubSeq(q, i + 1, Len(q))
<1>1. front \in Seq(S) /\ Len(front) = i - 1 /\ \A j \in 1..(i - 1) : front[j] = q[j]
  OBVIOUS
<1>2. back \in Seq(S) /\ Len(back) = Len(q) - i /\ \A j \in 1..(Len(q) - i) : back[j] = q[j + i]
  OBVIOUS
<1>3. RemoveAt(q, i) = front \o back
  BY DEF RemoveAt
<1> HIDE DEF front, back
<1>4. /\ front \o back \in Seq(S) /\ Len(front \o back) = Len(q) - 1
      /\ \A j \in 1..(Len(q) - 1) : (front \o back)[j] = IF j < i THEN front[j] ELSE back[j - (i - 1)]
  <2>1. /\ front \o back \in Seq(S) /\ Len(front \o back) = Len(front) + Len(back)
        /\ \A j \in 1..(Len(front) + Len(back)) :
             (front \o back)[j] = IF j <= Len(front) THEN front[j] ELSE back[j - Len(front)]
    BY <1>1, <1>2, Concatenated
  <2>2. Len(q) \in Nat
    OBVIOUS
  <2> QED
    BY <1>1, <1>2, <2>1, <2>2
<1>5. ASSUME NEW j \in 1..(Len(q) - 1) PROVE (front \o back)[j] = IF j < i THEN q[j] ELSE q[j + 1]
  <2>1. CASE j < i
    BY <1>1, <1>4, <2>1
  <2>2. CASE ~(j < i)
    <3>1. j - (i - 1) \in 1..(Len(q) - i) /\ (j - (i - 1)) + i = j + 1
      BY <2>2
    <3>2. back[j - (i - 1)] = q[j + 1]
      BY <1>2, <3>1
    <3> QED
      BY <1>4, <2>2, <3>2
  <2> QED
    BY <2>1, <2>2
<1> QED
  BY <1>3, <1>4, <1>5

LEMMA Appended ==
  ASSUME NEW S, NEW q \in Seq(S), NEW x \in S
  PROVE  /\ Append(q, x) \in Seq(S) /\ Len(Append(q, x)) = Len(q) + 1
         /\ Append(q, x)[Len(q) + 1] = x /\ \A j \in 1..Len(q) : Append(q, x)[j] = q[j]
  OBVIOUS

LEMMA Requests ==
  /\ \A b \in BOOLEAN : [op |-> "update", flag |-> Flag(b)] \in Request
  /\ \A x \in Request : /\ x.op \in {"update", "insert"} /\ x.flag \in {"true", "false"}
                        /\ [x EXCEPT !.op = "insert"] \in Request
                        /\ [x EXCEPT !.op = "insert"].op = "insert" /\ [x EXCEPT !.op = "insert"].flag = x.flag
  BY DEF Request, Flag

\* What persisting, serving and refusing do to the queue.
LEMMA Persisted ==
  ASSUME TypeOK, NEW b \in BOOLEAN, Persist(b)
  PROVE  /\ writes' \in Seq(Request) /\ Len(writes') = Len(writes) + 1 /\ Len(writes') <= MaxWrites
         /\ writes'[Len(writes) + 1].op = "update" /\ writes'[Len(writes) + 1].flag = Flag(b)
         /\ \A j \in 1..Len(writes) : writes'[j] = writes[j]
<1>1. [op |-> "update", flag |-> Flag(b)] \in Request
  BY Requests
<1> QED
  BY <1>1, Appended, JobEnabledSyncAssumption DEF TypeOK, Persist

\* A request that is served or refused leaves the queue, or goes on as an insert.
LEMMA Left ==
  ASSUME TypeOK, NEW i \in 1..Len(writes), writes' = RemoveAt(writes, i)
  PROVE  /\ writes' \in Seq(Request) /\ Len(writes') = Len(writes) - 1 /\ Len(writes') <= MaxWrites
         /\ \A j \in 1..Len(writes') : writes'[j] = IF j < i THEN writes[j] ELSE writes[j + 1]
<1> DEFINE q == RemoveAt(writes, i)
<1>1. writes \in Seq(Request) /\ Len(writes) <= MaxWrites /\ Len(writes) \in Nat /\ MaxWrites \in Nat
  BY JobEnabledSyncAssumption DEF TypeOK
<1>2. q \in Seq(Request) /\ Len(q) = Len(writes) - 1
      /\ \A j \in 1..(Len(writes) - 1) : q[j] = IF j < i THEN writes[j] ELSE writes[j + 1]
  BY <1>1, Removed
<1> HIDE DEF q
<1>3. writes' = q
  BY DEF q
<1> QED
  BY <1>1, <1>2, <1>3

LEMMA Retried ==
  ASSUME TypeOK, NEW i \in 1..Len(writes), writes' = Append(RemoveAt(writes, i), [writes[i] EXCEPT !.op = "insert"])
  PROVE  /\ writes' \in Seq(Request) /\ Len(writes') = Len(writes)
         /\ writes'[Len(writes)].op = "insert" /\ writes'[Len(writes)].flag = writes[i].flag
         /\ \A j \in 1..(Len(writes) - 1) : writes'[j] = IF j < i THEN writes[j] ELSE writes[j + 1]
<1> DEFINE q == RemoveAt(writes, i)
           x == [writes[i] EXCEPT !.op = "insert"]
<1>1. q \in Seq(Request) /\ Len(q) = Len(writes) - 1
      /\ \A j \in 1..(Len(writes) - 1) : q[j] = IF j < i THEN writes[j] ELSE writes[j + 1]
  BY Removed DEF TypeOK
<1>2. x \in Request /\ x.op = "insert" /\ x.flag = writes[i].flag
  BY Requests DEF TypeOK
<1>3. writes' = Append(q, x)
  OBVIOUS
<1> HIDE DEF q, x
<1>4. /\ Append(q, x) \in Seq(Request) /\ Len(Append(q, x)) = Len(q) + 1
      /\ Append(q, x)[Len(q) + 1] = x /\ \A j \in 1..Len(q) : Append(q, x)[j] = q[j]
  BY <1>1, <1>2, Appended
<1>5. Len(writes) \in Nat /\ Len(q) + 1 = Len(writes)
  BY <1>1 DEF TypeOK
<1> QED
  BY <1>1, <1>2, <1>3, <1>4, <1>5

-----------------------------------------------------------------------------
LEMMA TypeStep == TypeOK /\ [Next]_vars => TypeOK'
<1> SUFFICES ASSUME TypeOK, [Next]_vars PROVE TypeOK'
  OBVIOUS
<1> USE JobEnabledSyncAssumption
<1>1. CASE InitialPersist
  BY <1>1, Persisted DEF InitialPersist, TypeOK
<1>2. ASSUME NEW b \in BOOLEAN, SetJobEnabled(b) PROVE TypeOK'
  BY <1>2, Persisted DEF SetJobEnabled, TypeOK
<1>3. CASE TriggerJob \/ TickClaims \/ StoreReads \/ TickResumes \/ OperatorDisables
  <2>1. CASE TriggerJob \/ TickClaims \/ StoreReads
    BY <2>1 DEF TriggerJob, TickClaims, StoreReads, TypeOK
  <2>2. CASE TickResumes
    BY <2>2 DEF TickResumes, TypeOK
  <2>3. CASE OperatorDisables
    BY <2>3 DEF OperatorDisables, TypeOK
  <2> QED
    BY <1>3, <2>1, <2>2, <2>3
<1>4. CASE RunEnds
  <2>1. local \in BOOLEAN /\ Persist(local)
    BY <1>4 DEF RunEnds, TypeOK
  <2>2. writes' \in Seq(Request) /\ Len(writes') <= MaxWrites
    BY <2>1, Persisted
  <2> QED
    BY <1>4, <2>2 DEF RunEnds, TypeOK
<1>5. CASE Restart
  <2>1. << >> \in Seq(Request) /\ Len(<< >>) <= MaxWrites
    OBVIOUS
  <2>2. writes' = << >> /\ restarts' \in 0..MaxRestarts
    BY <1>5 DEF Restart, TypeOK
  <2> QED
    BY <1>5, <2>1, <2>2 DEF Restart, TypeOK
<1>6. ASSUME NEW i \in 1..MaxWrites, StoreUpdates(i) PROVE TypeOK'
  <2>0. disturbed' \in BOOLEAN
    BY <1>6, Zenon DEF StoreUpdates, Serve
  <2>1. i \in 1..Len(writes) /\ disturbed' \in BOOLEAN
    BY <1>6, <2>0 DEF StoreUpdates, Serve, TypeOK
  <2>2. writes[i].flag \in {"true", "false"}
    <3>1. writes[i] \in Request
      BY <2>1 DEF TypeOK
    <3> QED
      BY <3>1 DEF Request
  <2>3. writes' \in Seq(Request) /\ Len(writes') <= MaxWrites /\ row' \in {"absent", "true", "false"}
    BY <1>6, <2>1, <2>2, Left, Retried DEF StoreUpdates, TypeOK
  <2> QED
    BY <1>6, <2>1, <2>3 DEF StoreUpdates, Serve, TypeOK
<1>7. ASSUME NEW i \in 1..MaxWrites, StoreInserts(i) PROVE TypeOK'
  <2>0. disturbed' \in BOOLEAN
    BY <1>7, Zenon DEF StoreInserts, Serve
  <2>1. i \in 1..Len(writes) /\ disturbed' \in BOOLEAN
    BY <1>7, <2>0 DEF StoreInserts, Serve, TypeOK
  <2>2. writes[i].flag \in {"true", "false"}
    <3>1. writes[i] \in Request
      BY <2>1 DEF TypeOK
    <3> QED
      BY <3>1 DEF Request
  <2>3. writes' \in Seq(Request) /\ Len(writes') <= MaxWrites
    BY <1>7, <2>1, Left DEF StoreInserts
  <2> QED
    BY <1>7, <2>1, <2>2, <2>3 DEF StoreInserts, Serve, TypeOK
<1>8. ASSUME NEW i \in 1..MaxWrites, StoreRefuses(i) PROVE TypeOK'
  BY <1>8, Left DEF StoreRefuses, TypeOK
<1>9. CASE UNCHANGED vars
  BY <1>9 DEF vars, TypeOK
<1> QED
  BY <1>1, <1>2, <1>3, <1>4, <1>5, <1>6, <1>7, <1>8, <1>9 DEF Next

LEMMA CleanStep == TypeOK /\ ClaimIsClean /\ [Next]_vars => ClaimIsClean'
<1> SUFFICES ASSUME TypeOK, ClaimIsClean, [Next]_vars PROVE ClaimIsClean'
  OBVIOUS
<1> USE DEF ClaimIsClean
<1>1. ASSUME NEW b \in BOOLEAN, SetJobEnabled(b) PROVE ClaimIsClean'
  BY <1>1 DEF SetJobEnabled
<1>2. ASSUME NEW i \in 1..MaxWrites, StoreUpdates(i) \/ StoreInserts(i) \/ StoreRefuses(i) PROVE ClaimIsClean'
  BY <1>2 DEF StoreUpdates, StoreInserts, StoreRefuses, Serve
<1>3. CASE TickResumes
  BY <1>3 DEF TickResumes
<1>4. CASE \/ InitialPersist \/ TriggerJob \/ TickClaims \/ StoreReads \/ RunEnds \/ OperatorDisables \/ Restart
           \/ UNCHANGED vars
  BY <1>4 DEF InitialPersist, TriggerJob, TickClaims, StoreReads, RunEnds, OperatorDisables, Restart, vars
<1> QED
  BY <1>1, <1>2, <1>3, <1>4 DEF Next

LEMMA QuietStep == TypeOK /\ ClaimIsClean /\ QuietStays /\ [Next]_vars => QuietStays'
<1> SUFFICES ASSUME TypeOK, ClaimIsClean, QuietStays, [Next]_vars, claimedOff' = "quiet"
             PROVE  /\ phase' = "claimed" /\ ~initPersist'
                    /\ row' = "false" /\ answer' \in {"unread", "false"}
                    /\ \A i \in 1..Len(writes') : writes'[i].flag = "false"
  <2>1. ASSUME TypeOK' PROVE DOMAIN writes' = 1..Len(writes')
    BY <2>1 DEF TypeOK
  <2> QED
    BY <2>1, TypeStep DEF QuietStays
<1> DEFINE Goal == /\ phase' = "claimed" /\ ~initPersist'
                   /\ row' = "false" /\ answer' \in {"unread", "false"}
                   /\ \A i \in 1..Len(writes') : writes'[i].flag = "false"
<1>0. /\ claimedOff = "quiet" => /\ phase = "claimed" /\ ~initPersist
                                 /\ row = "false" /\ answer \in {"unread", "false"}
                                 /\ \A i \in 1..Len(writes) : writes[i].flag = "false"
  BY DEF QuietStays, TypeOK
<1>1. ASSUME NEW b \in BOOLEAN, SetJobEnabled(b) PROVE Goal
  <2>1. ~b /\ claimedOff = "quiet"
    BY <1>1 DEF SetJobEnabled
  <2>2. /\ Len(writes') = Len(writes) + 1 /\ writes'[Len(writes) + 1].flag = "false"
        /\ \A j \in 1..Len(writes) : writes'[j] = writes[j]
    BY <1>1, <2>1, Persisted DEF SetJobEnabled, Flag
  <2>3. \A i \in 1..Len(writes') : writes'[i].flag = "false"
    BY <1>0, <2>1, <2>2 DEF TypeOK
  <2> QED
    BY <1>0, <1>1, <2>1, <2>3 DEF SetJobEnabled
<1>2. ASSUME NEW i \in 1..MaxWrites, StoreUpdates(i) \/ StoreInserts(i) \/ StoreRefuses(i) PROVE Goal
  <2>1. i \in 1..Len(writes) /\ claimedOff = "quiet"
        /\ UNCHANGED <<phase, initPersist, answer>>
    BY <1>2 DEF StoreUpdates, StoreInserts, StoreRefuses, Serve, TypeOK
  <2>2. row' = "false" /\ writes' = RemoveAt(writes, i)
    BY <1>0, <1>2, <2>1 DEF StoreUpdates, StoreInserts, StoreRefuses
  <2>3. \A j \in 1..Len(writes') : writes'[j].flag = "false"
    BY <1>0, <2>1, <2>2, Left DEF TypeOK
  <2> QED
    BY <1>0, <2>1, <2>2, <2>3
<1>3. ASSUME TickClaims PROVE Goal
  BY <1>3 DEF TickClaims, Settled, ClaimIsClean
<1>4. ASSUME TickResumes PROVE Goal
  BY <1>0, <1>4 DEF TickResumes
<1>5. ASSUME StoreReads \/ OperatorDisables PROVE Goal
  BY <1>0, <1>5 DEF StoreReads, OperatorDisables
<1>6. ASSUME InitialPersist \/ TriggerJob \/ RunEnds \/ Restart PROVE Goal
  BY <1>0, <1>6 DEF InitialPersist, TriggerJob, RunEnds, Restart
<1>7. ASSUME UNCHANGED vars PROVE Goal
  BY <1>0, <1>7 DEF vars
<1> QED
  BY <1>1, <1>2, <1>3, <1>4, <1>5, <1>6, <1>7 DEF Next

\* A served request disturbs nothing only if it is the oldest.
LEMMA ServedSmoothly ==
  ASSUME TypeOK, NEW i \in 1..MaxWrites, NEW smoothly \in BOOLEAN, Serve(i, smoothly), ~disturbed'
  PROVE  i = 1 /\ smoothly /\ ~disturbed /\ 1 \in 1..Len(writes)
<1>1. ~(i > 1) /\ smoothly /\ ~disturbed
  BY Zenon DEF Serve
<1>2. i \in 1..Len(writes)
  BY DEF Serve, TypeOK
<1> QED
  BY <1>1, <1>2, JobEnabledSyncAssumption DEF TypeOK

LEMMA EnabledStep == TypeOK /\ EnabledIsOnItsWay /\ [Next]_vars => EnabledIsOnItsWay'
<1> SUFFICES ASSUME TypeOK, TypeOK', EnabledIsOnItsWay, [Next]_vars, local', ~initPersist', ~disturbed', ~off'
             PROVE  (Doomed \/ YoungestEnables)'
  BY TypeStep DEF EnabledIsOnItsWay
<1> DEFINE n == Len(writes)
           Goal == (Doomed \/ YoungestEnables)'
<1>0. n \in Nat /\ DOMAIN writes = 1..n /\ Len(writes') \in Nat /\ DOMAIN writes' = 1..Len(writes')
      /\ \A i \in 1..n : writes[i].op \in {"update", "insert"} /\ writes[i].flag \in {"true", "false"}
  <2>1. writes \in Seq(Request) /\ writes' \in Seq(Request)
    BY DEF TypeOK
  <2>2. n \in Nat /\ DOMAIN writes = 1..n /\ Len(writes') \in Nat /\ DOMAIN writes' = 1..Len(writes')
    BY <2>1
  <2>3. \A i \in 1..n : writes[i] \in Request
    BY <2>1
  <2> QED
    BY <2>2, <2>3, Requests
<1>p. ASSUME Persist(TRUE) PROVE Goal
  <2>1. Len(writes') = n + 1 /\ writes'[n + 1].flag = "true"
    BY <1>p, Persisted DEF Flag
  <2> QED
    BY <1>0, <2>1 DEF YoungestEnables
<1>u. ASSUME local, ~initPersist, ~disturbed, ~off, UNCHANGED <<row, writes>> PROVE Goal
  BY <1>u DEF EnabledIsOnItsWay, Doomed, YoungestEnables
<1>1. ASSUME InitialPersist \/ RunEnds PROVE Goal
  <2>1. local' = local
    BY <1>1 DEF InitialPersist, RunEnds
  <2>2. Persist(local) /\ local = TRUE
    BY <1>1, <2>1 DEF InitialPersist, RunEnds, TypeOK
  <2> QED
    BY <1>p, <2>2
<1>2. ASSUME NEW b \in BOOLEAN, SetJobEnabled(b) PROVE Goal
  <2>1. b = TRUE
    BY <1>2 DEF SetJobEnabled
  <2> QED
    BY <1>2, <1>p, <2>1 DEF SetJobEnabled
<1>3. ASSUME TriggerJob \/ TickClaims \/ StoreReads \/ UNCHANGED vars PROVE Goal
  <2>1. UNCHANGED <<local, row, writes, initPersist, disturbed, off>>
    BY <1>3, Zenon DEF TriggerJob, TickClaims, StoreReads, vars
  <2>2. local /\ ~initPersist /\ ~disturbed /\ ~off
    BY <2>1, Zenon
  <2> QED
    BY <1>u, <2>1, <2>2, Zenon
<1>4. ASSUME TickResumes PROVE Goal
  BY <1>4, <1>u DEF TickResumes
<1>5. ASSUME OperatorDisables \/ Restart PROVE Goal
  BY <1>5 DEF OperatorDisables, Restart
<1>6. ASSUME NEW i \in 1..MaxWrites, StoreRefuses(i) PROVE Goal
  BY <1>6 DEF StoreRefuses
\* The oldest request leaves the queue and its flag is in the row.
<1>l. ASSUME 1 \in 1..n, writes' = RemoveAt(writes, 1), row' = writes[1].flag,
             (\E j \in 1..n : j > 1 /\ writes[j].op = "insert") \/ writes[n].flag = "true"
      PROVE  Goal
  <2>1. Len(writes') = n - 1 /\ \A j \in 1..(n - 1) : writes'[j] = writes[j + 1]
    <3>1. /\ Len(writes') = n - 1
          /\ \A j \in 1..Len(writes') : writes'[j] = IF j < 1 THEN writes[j] ELSE writes[j + 1]
      BY <1>l, Left
    <3>2. ASSUME NEW j \in 1..(n - 1) PROVE writes'[j] = writes[j + 1]
      BY <1>0, <3>1
    <3> QED
      BY <3>1, <3>2
  <2>2. row' # "absent"
    BY <1>0, <1>l
  <2>3. ASSUME NEW j \in 1..n, j > 1, writes[j].op = "insert" PROVE Doomed'
    <3>1. j - 1 \in 1..(n - 1) /\ writes'[j - 1] = writes[j]
      BY <1>0, <2>1, <2>3
    <3> QED
      BY <1>0, <2>1, <2>2, <2>3, <3>1 DEF Doomed
  <2>4. ASSUME writes[n].flag = "true" PROVE YoungestEnables'
    <3>1. CASE n = 1
      <4>1. writes' = << >>
        BY <2>1, <3>1 DEF TypeOK
      <4> QED
        BY <1>l, <2>4, <3>1, <4>1 DEF YoungestEnables
    <3>2. CASE n # 1
      <4>1. n - 1 \in 1..(n - 1) /\ writes'[n - 1] = writes[n]
        BY <1>0, <1>l, <2>1, <3>2
      <4> QED
        BY <2>1, <2>4, <4>1 DEF YoungestEnables
    <3> QED
      BY <3>1, <3>2
  <2> QED
    BY <1>l, <2>3, <2>4
<1>7. ASSUME NEW i \in 1..MaxWrites, StoreUpdates(i) PROVE Goal
  <2>1. i = 1 /\ ~disturbed /\ 1 \in 1..n /\ UNCHANGED <<local, initPersist, off>>
    BY <1>7, ServedSmoothly DEF StoreUpdates, Serve
  <2>2. Doomed \/ writes[n].flag = "true"
    BY <2>1 DEF EnabledIsOnItsWay, YoungestEnables
  <2>3. CASE row # "absent"
    <3>1. writes' = RemoveAt(writes, 1) /\ row' = writes[1].flag /\ writes[1].op = "update"
      BY <1>7, <2>1, <2>3 DEF StoreUpdates
    <3>2. Doomed => \E j \in 1..n : j > 1 /\ writes[j].op = "insert"
      BY <1>0, <2>3, <3>1 DEF Doomed
    <3> QED
      BY <1>l, <2>1, <2>2, <3>1, <3>2
  <2>4. CASE row = "absent"
    <3>1. writes' = Append(RemoveAt(writes, 1), [writes[1] EXCEPT !.op = "insert"]) /\ row' = row
      BY <1>7, <2>1, <2>4 DEF StoreUpdates
    <3>2. Len(writes') = n /\ writes'[n].op = "insert" /\ writes'[n].flag = writes[1].flag
      BY <2>1, <3>1, Retried
    <3>3. CASE n > 1
      BY <1>0, <2>4, <3>1, <3>2, <3>3 DEF Doomed
    <3>4. CASE ~(n > 1)
      <4>1. n = 1 /\ ~Doomed
        BY <1>0, <2>1, <2>4, <3>4 DEF Doomed
      <4> QED
        BY <2>2, <3>2, <4>1 DEF YoungestEnables
    <3> QED
      BY <3>3, <3>4
  <2> QED
    BY <2>3, <2>4
<1>8. ASSUME NEW i \in 1..MaxWrites, StoreInserts(i) PROVE Goal
  <2>0. (row = "absent") \in BOOLEAN
    OBVIOUS
  <2>1. i = 1 /\ ~disturbed /\ 1 \in 1..n /\ row = "absent" /\ UNCHANGED <<local, initPersist, off>>
    BY <1>8, <2>0, ServedSmoothly DEF StoreInserts, Serve
  <2>2. Doomed \/ writes[n].flag = "true"
    BY <2>1 DEF EnabledIsOnItsWay, YoungestEnables
  <2>3. writes' = RemoveAt(writes, 1) /\ row' = writes[1].flag /\ writes[1].op = "insert"
    BY <1>8, <2>1 DEF StoreInserts
  <2>4. Doomed => \E j \in 1..n : j > 1 /\ writes[j].op = "insert"
    BY <1>0, <2>1, <2>3 DEF Doomed
  <2> QED
    BY <1>l, <2>1, <2>2, <2>3, <2>4
<1> QED
  BY <1>1, <1>2, <1>3, <1>4, <1>5, <1>6, <1>7, <1>8 DEF Next

-----------------------------------------------------------------------------
LEMMA InitIInv == Init => IInv
<1> SUFFICES ASSUME Init PROVE IInv
  OBVIOUS
<1>1. << >> \in Seq(Request) /\ Len(<< >>) <= MaxWrites
  BY JobEnabledSyncAssumption
<1>2. TypeOK
  <2>1. writes \in Seq(Request) /\ Len(writes) <= MaxWrites
    BY <1>1 DEF Init
  <2>2. restarts \in 0..MaxRestarts
    BY JobEnabledSyncAssumption DEF Init
  <2> QED
    BY <2>1, <2>2 DEF Init, TypeOK
<1> QED
  BY <1>2 DEF Init, IInv, ClaimIsClean, QuietStays, EnabledIsOnItsWay

LEMMA Inductive == IInv /\ [Next]_vars => IInv'
  BY TypeStep, CleanStep, QuietStep, EnabledStep DEF IInv

LEMMA Invariant == Spec => []IInv
  BY InitIInv, Inductive, PTL DEF Spec

\* Flag, row and requests keep their types, and no more requests are in flight
\* than the bound says.
THEOREM TypeCorrect == Spec => []TypeOK
<1>1. IInv => TypeOK
  BY DEF IInv
<1> QED
  BY Invariant, <1>1, PTL

\* upsertJobRow: over a store that serves requests in order and rejects none, no
\* snapshot of a disabled job outlives the one of a later setJobEnabled(true) or
\* start(), although an update may turn into an insert behind younger requests.
THEOREM EnablingArrives == Spec => []EnabledReachesStore
<1>1. IInv => EnabledReachesStore
  BY DEF IInv, EnabledIsOnItsWay, EnabledReachesStore, Settled, Doomed, YoungestEnables
<1> QED
  BY Invariant, <1>1, PTL

\* tick() and loadEnabled: a claim on a row that says disabled, with no persist on
\* its way, does not end in a run, whatever is switched off, sent, served out of
\* order or rejected while the answer is awaited.
THEOREM DisablingHolds == Spec => []QuietDisableHolds
<1>1. IInv => QuietDisableHolds
  BY DEF IInv, QuietStays, QuietDisableHolds
<1> QED
  BY Invariant, <1>1, PTL
=============================================================================
