---------------------------- MODULE ServiceProofs ----------------------------
(***************************************************************************)
(* Proofs about Services, for any numbers of actors and data: what each    *)
(* service promises however its calls overlap, fail and come late.  A      *)
(* service has an inductive invariant of its own; a step of another one    *)
(* leaves it alone.                                                        *)
(***************************************************************************)
EXTENDS Services, SequencesExt, FiniteSetTheorems, WellFoundedInduction, TLAPS

-----------------------------------------------------------------------------
(* CircuitBreaker *)

LEMMA BreakerMoves == [Next]_vars => Breaker!Next \/ UNCHANGED breakers
BY DEF Next, At, Unless, vars

BreakerInv == Breaker!TypeOK /\ Breaker!OneFailureReopens

LEMMA BreakerInit == Breaker!Init => BreakerInv
<1> SUFFICES ASSUME Breaker!Init PROVE BreakerInv
  OBVIOUS
<1>1. 0 \in 0 .. FailureThreshold /\ 0 \in 0 .. ResetTimeout
  BY ServicesAssumption DEF ServicesAssumption
<1>2. Breaker!TypeOK
  BY <1>1, Zenon DEF Breaker!Init, Breaker!TypeOK
<1> QED
  BY <1>2 DEF Breaker!Init, BreakerInv, Breaker!OneFailureReopens

LEMMA BreakerStep == BreakerInv /\ [Next]_vars => BreakerInv'
<1> SUFFICES ASSUME BreakerInv, Breaker!Next \/ UNCHANGED breakers PROVE BreakerInv'
  BY BreakerMoves
<1>t. /\ breaker \in {"closed", "open", "half-open"}
      /\ consecutiveFailures \in 0 .. FailureThreshold /\ sinceFailure \in 0 .. ResetTimeout
      /\ running \in [BreakerCall -> {"no", "doomed", "fine"}]
      /\ (breaker # "closed" /\ ~late => consecutiveFailures = FailureThreshold)
      /\ down \in BOOLEAN /\ late \in BOOLEAN
  BY Zenon DEF BreakerInv, Breaker!TypeOK, Breaker!OneFailureReopens
\* The flags on their own, and what is left to show.
<1>b. Breaker!Next \/ UNCHANGED breakers => down' \in BOOLEAN /\ late' \in BOOLEAN
  BY <1>t, Zenon DEF Breaker!Next, Breaker!ServiceRecovers, Breaker!Tick, Breaker!Reset, Breaker!Calls,
     Breaker!Execute, Breaker!ExecuteProbe, Breaker!ExecuteRefused, Breaker!Settles, Breaker!OnSuccess,
     Breaker!OnFailure, Breaker!kvars, breakers
<1> DEFINE Rest == /\ breaker' \in {"closed", "open", "half-open"}
                   /\ consecutiveFailures' \in 0 .. FailureThreshold /\ sinceFailure' \in 0 .. ResetTimeout
                   /\ running' \in [BreakerCall -> {"no", "doomed", "fine"}]
                   /\ (breaker' # "closed" /\ ~late' => consecutiveFailures' = FailureThreshold)
<1> USE ServicesAssumption DEF ServicesAssumption
<1>1. ASSUME Breaker!ServiceRecovers \/ Breaker!Tick \/ Breaker!Reset \/ UNCHANGED breakers PROVE Rest
  BY <1>t, <1>1 DEF Breaker!ServiceRecovers, Breaker!Tick, Breaker!Reset, breakers
<1>2. ASSUME NEW c \in BreakerCall, Breaker!Calls(c) PROVE Rest
  BY <1>t, <1>2 DEF Breaker!Calls, Breaker!Execute, Breaker!ExecuteProbe, Breaker!ExecuteRefused, Breaker!kvars
<1>3. ASSUME NEW c \in BreakerCall, Breaker!OnSuccess(c) PROVE Rest
  <2>1. /\ running' = [running EXCEPT ![c] = "no"] /\ consecutiveFailures' = 0
        /\ breaker' = IF breaker = "half-open" THEN "closed" ELSE breaker
        /\ sinceFailure' = sinceFailure
    BY <1>3, Zenon DEF Breaker!OnSuccess
  <2>2. ~late' => breaker # "open"
    BY <1>3, Zenon DEF Breaker!OnSuccess
  <2> QED
    BY <1>t, <2>1, <2>2
<1>4. ASSUME NEW c \in BreakerCall, Breaker!OnFailure(c) PROVE Rest
  BY <1>t, <1>4 DEF Breaker!OnFailure, Breaker!Counted
<1>5. Rest
  BY <1>1, <1>2, <1>3, <1>4 DEF Breaker!Next, Breaker!Settles
<1> HIDE DEF Rest
<1>6. down' \in BOOLEAN /\ late' \in BOOLEAN
  BY <1>b
<1> QED
  BY <1>5, <1>6, Zenon DEF Rest, BreakerInv, Breaker!TypeOK, Breaker!OneFailureReopens

\* CircuitBreaker.execute: a half-open breaker takes no series of failures, however
\* calls from before it opened end meanwhile, unless one of them succeeded.
THEOREM BreakerReopens == SafeSpec => []OneFailureReopens
<1>1. Init => BreakerInv
  BY BreakerInit DEF Init
<1>2. BreakerInv => OneFailureReopens
  BY DEF BreakerInv, OneFailureReopens
<1> QED
  BY <1>1, <1>2, BreakerStep, PTL DEF SafeSpec

-----------------------------------------------------------------------------
(* Sequences *)

LEMMA Concatenated ==
  ASSUME NEW S, NEW q \in Seq(S), NEW r \in Seq(S)
  PROVE  /\ q \o r \in Seq(S) /\ Len(q \o r) = Len(q) + Len(r)
         /\ \A j \in 1..(Len(q) + Len(r)) : (q \o r)[j] = IF j <= Len(q) THEN q[j] ELSE r[j - Len(q)]
  OBVIOUS

\* What is left of a sequence without one of its elements.
LEMMA Removed ==
  ASSUME NEW S, NEW q \in Seq(S), NEW i \in 1..Len(q)
  PROVE  /\ RemoveAt(q, i) \in Seq(S) /\ Len(RemoveAt(q, i)) = Len(q) - 1
         /\ \A j \in 1..(Len(q) - 1) : RemoveAt(q, i)[j] = IF j < i THEN q[j] ELSE q[j + 1]
<1> DEFINE front == SubSeq(q, 1, i - 1)
           back == SubSeq(q, i + 1, Len(q))
<1>1. front \in Seq(S) /\ Len(front) = i - 1 /\ \A j \in 1..(i - 1) : front[j] = q[j]
  OBVIOUS
<1>2. back \in Seq(S) /\ Len(back) = Len(q) - i /\ \A j \in 1..(Len(q) - i) : back[j] = q[j + i]
  OBVIOUS
<1>3. RemoveAt(q, i) = front \o back
  BY DEF RemoveAt
<1> HIDE DEF front, back
<1>4. /\ front \o back \in Seq(S) /\ Len(front \o back) = Len(front) + Len(back)
      /\ \A j \in 1..(Len(front) + Len(back)) :
           (front \o back)[j] = IF j <= Len(front) THEN front[j] ELSE back[j - Len(front)]
  BY <1>1, <1>2, Concatenated
<1>5. Len(q) \in Nat
  OBVIOUS
<1>6. ASSUME NEW j \in 1..(Len(q) - 1) PROVE (front \o back)[j] = IF j < i THEN q[j] ELSE q[j + 1]
  <2>1. CASE j < i
    BY <1>1, <1>2, <1>4, <1>5, <2>1
  <2>2. CASE ~(j < i)
    <3>1. j - (i - 1) \in 1..(Len(q) - i) /\ (j - (i - 1)) + i = j + 1
      BY <1>5, <2>2
    <3>2. back[j - (i - 1)] = q[j + 1]
      BY <1>2, <3>1
    <3> QED
      BY <1>1, <1>2, <1>4, <1>5, <2>2, <3>2
  <2> QED
    BY <2>1, <2>2
<1>7. Len(front \o back) = Len(q) - 1
  BY <1>1, <1>2, <1>4, <1>5
<1> QED
  BY <1>3, <1>4, <1>6, <1>7

-----------------------------------------------------------------------------
(* LiveState *)

LEMMA LiveMoves == [Next]_vars => Live!Next \/ UNCHANGED live
BY DEF Next, At, Unless, vars

Fetch == [issued : 1 .. MaxVersion, data : 0 .. MaxVersion, late : BOOLEAN]

\* Requests are in the order of the versions they were made at.  One that is not
\* late was made after all that have been applied.
InOrder(q) == \A i, j \in 1 .. Len(q) : i < j => q[i].issued <= q[j].issued
FetchOK(x, f, v) ==
  /\ x.issued <= v /\ (x.data # 0 => x.issued <= x.data)
  /\ x.late \/ f <= x.issued

LiveInv ==
  /\ Live!TypeOK
  /\ floor <= shown /\ floor <= server
  /\ InOrder(fetches)
  /\ \A i \in 1 .. Len(fetches) : FetchOK(fetches[i], floor, server)

LEMMA FetchRecords ==
  /\ \A v \in 1 .. MaxVersion :
       LET x == [issued |-> v, data |-> 0, late |-> FALSE] IN
         x \in Fetch /\ x.issued = v /\ x.data = 0 /\ ~x.late
  /\ \A x \in Fetch : /\ x.issued \in 1 .. MaxVersion /\ x.data \in 0 .. MaxVersion
                      /\ LET y == [x EXCEPT !.late = TRUE] IN
                           y \in Fetch /\ y.late /\ y.issued = x.issued /\ y.data = x.data
  /\ \A x \in Fetch, v \in 0 .. MaxVersion :
       LET y == [x EXCEPT !.data = v] IN
         y \in Fetch /\ (y.late <=> x.late) /\ y.issued = x.issued /\ y.data = v
<1>0. 0 \in 0 .. MaxVersion
  BY ServicesAssumption DEF ServicesAssumption
<1> QED
  BY <1>0, Zenon DEF Fetch

LEMMA LiveInit == Live!Init => LiveInv
<1> SUFFICES ASSUME Live!Init PROVE LiveInv
  OBVIOUS
<1> DEFINE x == [issued |-> 1, data |-> 0, late |-> FALSE]
<1>1. 1 \in 1 .. MaxVersion /\ 0 \in 0 .. MaxVersion
  BY ServicesAssumption DEF ServicesAssumption
<1>2. x \in Fetch /\ x.issued = 1 /\ x.data = 0
  BY <1>1, FetchRecords
<1>3. fetches = <<x>> /\ server = 1 /\ shown = 0 /\ floor = 0
  BY DEF Live!Init
<1> HIDE DEF x
<1>4. fetches \in Seq(Fetch) /\ Len(fetches) = 1 /\ fetches[1] = x
  BY <1>2, <1>3
<1>5. Live!TypeOK
  BY <1>1, <1>3, <1>4, Zenon DEF Live!Init, Live!TypeOK, Fetch
<1> QED
  BY <1>2, <1>3, <1>4, <1>5 DEF LiveInv, InOrder, FetchOK

LEMMA LiveStep == LiveInv /\ [Next]_vars => LiveInv'
<1> SUFFICES ASSUME LiveInv, Live!Next \/ UNCHANGED live PROVE LiveInv'
  BY LiveMoves
<1>t. /\ server \in 1 .. MaxVersion /\ shown \in 0 .. MaxVersion /\ floor \in 0 .. MaxVersion
      /\ fetches \in Seq(Fetch) /\ debounce \in BOOLEAN /\ event \in BOOLEAN
  BY Zenon DEF LiveInv, Live!TypeOK, Fetch
<1>m. MaxVersion \in Nat
  BY ServicesAssumption DEF ServicesAssumption
<1>i. /\ floor <= shown /\ floor <= server /\ InOrder(fetches)
      /\ \A i \in 1 .. Len(fetches) : FetchOK(fetches[i], floor, server)
  BY DEF LiveInv
<1>f. Len(fetches) \in Nat /\ DOMAIN fetches = 1 .. Len(fetches) /\ \A i \in 1 .. Len(fetches) : fetches[i] \in Fetch
  BY <1>t
<1>b. Live!Next \/ UNCHANGED live => debounce' \in BOOLEAN /\ event' \in BOOLEAN
  BY <1>t, Zenon DEF Live!Next, Live!ServerChanges, Live!StateChangeEvent, Live!IntervalFires, Live!DebounceFires,
     Live!FetchState, Live!FetchStep, Live!ServerAnswers, Live!Apply, Live!Drop, Live!FetchFails, live
<1> DEFINE Rest == /\ server' \in 1 .. MaxVersion /\ shown' \in 0 .. MaxVersion /\ floor' \in 0 .. MaxVersion
                   /\ fetches' \in Seq(Fetch)
                   /\ floor' <= shown' /\ floor' <= server' /\ InOrder(fetches')
                   /\ \A i \in 1 .. Len(fetches') : FetchOK(fetches'[i], floor', server')
<1>1. ASSUME Live!ServerChanges PROVE Rest
  <2>1. server' = server + 1 /\ server < MaxVersion /\ UNCHANGED <<shown, fetches, floor>>
    BY <1>1 DEF Live!ServerChanges
  <2>2. ASSUME NEW x \in Fetch, FetchOK(x, floor, server) PROVE FetchOK(x, floor, server + 1)
    <3>1. x.issued \in 1 .. MaxVersion
      BY FetchRecords
    <3> QED
      BY <1>t, <1>m, <2>2, <3>1 DEF FetchOK
  <2> QED
    BY <1>t, <1>m, <1>i, <1>f, <2>1, <2>2
<1>2. ASSUME Live!StateChangeEvent \/ UNCHANGED live PROVE Rest
  <2>1. UNCHANGED <<server, shown, fetches, floor>>
    BY <1>2, Zenon DEF Live!StateChangeEvent, live
  <2> QED
    BY <1>t, <1>i, <2>1
<1>3. ASSUME Live!FetchState PROVE Rest
  <2> DEFINE x == [issued |-> server, data |-> 0, late |-> FALSE]
  <2>1. fetches' = Append(fetches, x) /\ UNCHANGED <<server, shown, floor>>
    BY <1>3 DEF Live!FetchState, Live!Request
  <2>2. x \in Fetch /\ x.issued = server /\ x.data = 0
    BY <1>t, FetchRecords
  <2> HIDE DEF x
  <2>3. /\ fetches' \in Seq(Fetch) /\ Len(fetches') = Len(fetches) + 1 /\ fetches'[Len(fetches) + 1] = x
        /\ \A i \in 1 .. Len(fetches) : fetches'[i] = fetches[i]
    BY <1>t, <2>1, <2>2
  <2>4. FetchOK(x, floor, server)
    BY <1>t, <1>i, <2>2 DEF FetchOK
  <2>5. InOrder(fetches')
    BY <1>t, <1>i, <1>f, <2>2, <2>3 DEF InOrder, FetchOK
  <2> QED
    BY <1>t, <1>i, <1>f, <2>1, <2>3, <2>4, <2>5
<1>4. ASSUME NEW i \in 1 .. Len(fetches), Live!ServerAnswers(i) PROVE Rest
  <2> DEFINE y == [fetches[i] EXCEPT !.data = server]
  <2>1. y \in Fetch /\ (y.late <=> fetches[i].late) /\ y.issued = fetches[i].issued /\ y.data = server
    BY <1>t, <1>f, <1>m, FetchRecords
  <2>2. fetches' = [fetches EXCEPT ![i] = y] /\ UNCHANGED <<server, shown, floor>>
    BY <1>4, <1>f DEF Live!ServerAnswers
  <2> HIDE DEF y
  <2>3. /\ fetches' \in Seq(Fetch) /\ Len(fetches') = Len(fetches) /\ fetches'[i] = y
        /\ \A j \in 1 .. Len(fetches) : j # i => fetches'[j] = fetches[j]
    BY <1>t, <2>1, <2>2
  <2>4. FetchOK(y, floor, server)
    BY <1>i, <2>1 DEF FetchOK
  <2>5. \A j \in 1 .. Len(fetches) : fetches'[j].issued = fetches[j].issued
    BY <2>1, <2>3
  <2>6. InOrder(fetches')
    BY <1>i, <2>3, <2>5 DEF InOrder
  <2> QED
    BY <1>t, <1>i, <2>2, <2>3, <2>4, <2>6
\* A request leaves; those before it may have become late.
<1>r. ASSUME NEW q \in Seq(Fetch), NEW i \in 1 .. Len(q), InOrder(q), NEW f, NEW v,
             fetches' = RemoveAt(q, i), \A j \in 1 .. Len(q) : j # i => FetchOK(q[j], f, v)
      PROVE  /\ fetches' \in Seq(Fetch) /\ InOrder(fetches')
             /\ \A j \in 1 .. Len(fetches') : FetchOK(fetches'[j], f, v)
  <2>1. /\ fetches' \in Seq(Fetch) /\ Len(fetches') = Len(q) - 1
        /\ \A j \in 1..(Len(q) - 1) : fetches'[j] = IF j < i THEN q[j] ELSE q[j + 1]
    BY <1>r, Removed
  <2>2. Len(q) \in Nat
    OBVIOUS
  <2>3. InOrder(fetches')
    <3> SUFFICES ASSUME NEW j \in 1 .. (Len(q) - 1), NEW k \in 1 .. (Len(q) - 1), j < k
                 PROVE  fetches'[j].issued <= fetches'[k].issued
      BY <2>1 DEF InOrder
    <3>1. PICK a, b : a = (IF j < i THEN j ELSE j + 1) /\ b = (IF k < i THEN k ELSE k + 1)
      OBVIOUS
    <3>2. a \in 1 .. Len(q) /\ b \in 1 .. Len(q) /\ a < b
      BY <2>2, <3>1
    <3>3. fetches'[j] = q[a] /\ fetches'[k] = q[b]
      BY <2>1, <3>1
    <3>4. q[a].issued <= q[b].issued
      <4>1. \A x, y \in 1 .. Len(q) : x < y => q[x].issued <= q[y].issued
        BY <1>r DEF InOrder
      <4> QED
        BY <3>2, <4>1
    <3> QED
      BY <3>3, <3>4
  <2>4. \A j \in 1 .. Len(fetches') : FetchOK(fetches'[j], f, v)
    BY <1>r, <2>1, <2>2
  <2> QED
    BY <2>1, <2>3, <2>4
<1>5. ASSUME NEW i \in 1 .. Len(fetches), Live!Drop(i) \/ Live!FetchFails(i) PROVE Rest
  <2>1. fetches' = RemoveAt(fetches, i) /\ UNCHANGED <<server, shown, floor>>
    BY <1>5 DEF Live!Drop, Live!FetchFails, Live!RemoveAt, RemoveAt
  <2> QED
    BY <1>t, <1>i, <1>r, <2>1
<1>6. ASSUME NEW i \in 1 .. Len(fetches), Live!Apply(i) PROVE Rest
  <2> DEFINE q == Live!Superseded(i)
             x == fetches[i]
  <2>1. /\ x.data # 0 /\ ~x.late /\ shown' = x.data /\ server' = server
        /\ floor' = IF x.issued > floor THEN x.issued ELSE floor
        /\ fetches' = RemoveAt(q, i)
    BY <1>6 DEF Live!Apply, Live!RemoveAt, RemoveAt
  <2>2. x.issued \in 1 .. MaxVersion /\ x.data \in 0 .. MaxVersion /\ FetchOK(x, floor, server)
    BY <1>f, <1>i, FetchRecords
  <2>3. floor' = x.issued /\ x.issued <= x.data /\ x.issued <= server
    BY <1>t, <2>1, <2>2 DEF FetchOK
  <2>4. \A j \in 1 .. Len(fetches) : q[j] = IF j < i THEN [fetches[j] EXCEPT !.late = TRUE] ELSE fetches[j]
    BY <1>f DEF Live!Superseded
  <2>5. q \in Seq(Fetch) /\ Len(q) = Len(fetches)
    <3>1. q = [j \in 1 .. Len(fetches) |-> IF j < i THEN [fetches[j] EXCEPT !.late = TRUE] ELSE fetches[j]]
      BY <1>f DEF Live!Superseded
    <3>2. \A j \in 1 .. Len(fetches) :
            (IF j < i THEN [fetches[j] EXCEPT !.late = TRUE] ELSE fetches[j]) \in Fetch
      BY <1>f, FetchRecords
    <3> QED
      BY <1>f, <3>1, <3>2
  <2> HIDE DEF q
  <2>6. \A j \in 1 .. Len(fetches) : q[j].issued = fetches[j].issued /\ fetches[j].issued \in Nat
    <3>1. ASSUME NEW j \in 1 .. Len(fetches)
          PROVE  q[j].issued = fetches[j].issued /\ fetches[j].issued \in 1 .. MaxVersion
      BY <1>f, <2>4, <3>1, FetchRecords
    <3> QED
      BY <1>m, <3>1
  <2>7. InOrder(q)
    BY <1>i, <2>5, <2>6 DEF InOrder
  <2>8. ASSUME NEW j \in 1 .. Len(fetches), j # i PROVE FetchOK(q[j], x.issued, server)
    <3>1. CASE j < i
      <4>1. q[j] = [fetches[j] EXCEPT !.late = TRUE] /\ fetches[j] \in Fetch /\ FetchOK(fetches[j], floor, server)
        BY <1>f, <1>i, <2>4, <3>1
      <4>2. q[j].late /\ q[j].issued = fetches[j].issued /\ q[j].data = fetches[j].data
        BY <4>1, FetchRecords
      <4> QED
        BY <4>1, <4>2 DEF FetchOK
    <3>2. CASE ~(j < i)
      <4>0. i < j
        BY <1>f, <2>8, <3>2
      <4>1. q[j] = fetches[j] /\ i < j
        BY <2>4, <3>2, <4>0
      <4>2. x.issued <= fetches[j].issued
        BY <1>i, <4>1 DEF InOrder
      <4> QED
        BY <1>i, <4>1, <4>2 DEF FetchOK
    <3> QED
      BY <3>1, <3>2
  <2>9. /\ fetches' \in Seq(Fetch) /\ InOrder(fetches')
        /\ \A j \in 1 .. Len(fetches') : FetchOK(fetches'[j], x.issued, server)
    BY <1>r, <2>1, <2>5, <2>7, <2>8
  <2>10. x.issued \in 0 .. MaxVersion
    BY <2>2
  <2> HIDE DEF x
  <2> QED
    BY <1>t, <2>1, <2>2, <2>3, <2>9, <2>10
<1>7. Rest
  <2>1. Live!Next => \/ Live!ServerChanges \/ Live!StateChangeEvent \/ Live!FetchState
                     \/ \E i \in 1 .. Len(fetches) : Live!FetchStep(i)
    BY <1>f DEF Live!Next, Live!IntervalFires, Live!DebounceFires
  <2> QED
    BY <1>1, <1>2, <1>3, <1>4, <1>5, <1>6, <2>1 DEF Live!FetchStep
<1> HIDE DEF Rest
<1>8. debounce' \in BOOLEAN /\ event' \in BOOLEAN
  BY <1>b
<1> QED
  BY <1>7, <1>8, Zenon DEF Rest, LiveInv, Live!TypeOK, Fetch

\* useLiveState: no answer, however late and in whatever order, takes the view behind a
\* version that was current when a request was made whose answer it has shown.
THEOREM ViewNeverGoesBack == SafeSpec => []NeverGoesBack
<1>1. Init => LiveInv
  BY LiveInit DEF Init
<1>2. LiveInv => NeverGoesBack
  BY DEF LiveInv, NeverGoesBack, Live!NeverGoesBack, Live!TypeOK
<1> QED
  BY <1>1, <1>2, LiveStep, PTL DEF SafeSpec

-----------------------------------------------------------------------------
(* TaskReview *)

LEMMA TaskMoves == [Next]_vars => Task!Next \/ UNCHANGED task
BY DEF Next, At, Unless, vars

HasKind(x, k) == x # Task!NoOp /\ x.kind = k
IsAt(x, k, pc) == HasKind(x, k) /\ x.pc = pc

TaskOps == {Task!NoOp} \cup [pc : {"read", "update"}, kind : Task!Kind, issue : Issue \cup {NoIssue}]
             \cup [pc : {"create"}, kind : {"sync"}, issue : {NoIssue}]

\* What is confirmed, synced or has an issue has been approved by somebody.
TaskApproved ==
  /\ status = "pending_review" => ~approved
  /\ status \in {"confirmed", "synced"} => approved
  /\ issues # {} => approved
  /\ status = "synced" => externalId \in issues
  /\ \A o \in TaskOp :
       /\ taskOp[o].pc = "read" => taskOp[o].issue = NoIssue
       /\ IsAt(taskOp[o], "sync", "create") => approved
       /\ IsAt(taskOp[o], "sync", "update") => approved /\ taskOp[o].issue \in issues

\* Where no rejection crossed a confirmation, there is only one of them.
TaskUnraced ==
  ~raced =>
    /\ \A o, p \in TaskOp : ~(HasKind(taskOp[o], "confirm") /\ HasKind(taskOp[p], "reject"))
    /\ \A o \in TaskOp : IsAt(taskOp[o], "reject", "update") => ~approved
    /\ \A o \in TaskOp : IsAt(taskOp[o], "confirm", "update") => status # "rejected"
    /\ status = "rejected" => ~approved

\* Where no two syncs and no two confirmations crossed, there is one issue, and until
\* it is recorded no other sync is on its way.
TaskUncontended ==
  ~taskContended =>
    /\ \A o, p \in TaskOp, k \in {"confirm", "sync"} :
          HasKind(taskOp[o], k) /\ HasKind(taskOp[p], k) => o = p
    /\ \A o \in TaskOp : IsAt(taskOp[o], "confirm", "update") => ~approved
    /\ \A o \in TaskOp : IsAt(taskOp[o], "sync", "create") => issues = {}
    /\ status = "confirmed" => issues = {} \/ \E o \in TaskOp : IsAt(taskOp[o], "sync", "update")
    /\ \A i, j \in issues : i = j

TaskInv == Task!TypeOK /\ TaskApproved /\ TaskUnraced /\ TaskUncontended

LEMMA TaskRecords ==
  /\ \A k : ~HasKind(Task!NoOp, k)
  /\ Task!NoOp \in TaskOps /\ Task!NoOp.pc = "idle"
  /\ \A kind \in Task!Kind :
       LET x == [pc |-> "read", kind |-> kind, issue |-> NoIssue] IN
         /\ x \in TaskOps /\ x.pc = "read" /\ x.issue = NoIssue
         /\ \A k : HasKind(x, k) <=> k = kind
  /\ \A i \in Issue :
       LET x == [pc |-> "update", kind |-> "sync", issue |-> i] IN
         /\ x \in TaskOps /\ x.pc = "update" /\ x.issue = i
         /\ \A k : HasKind(x, k) <=> k = "sync"
  /\ \A x \in TaskOps : x.pc # "idle" =>
       /\ x # Task!NoOp /\ x.kind \in Task!Kind /\ x.issue \in Issue \cup {NoIssue}
       /\ x.pc \in {"read", "update", "create"}
  /\ \A x \in TaskOps : x.pc = "read" =>
       LET y == [x EXCEPT !.pc = "update"] IN
         /\ y \in TaskOps /\ y.pc = "update" /\ \A k : HasKind(y, k) <=> HasKind(x, k)
  /\ \A x \in TaskOps : x.pc = "read" /\ x.kind = "sync" /\ x.issue = NoIssue =>
       LET y == [x EXCEPT !.pc = "create"] IN
         /\ y \in TaskOps /\ y.pc = "create" /\ \A k : HasKind(y, k) <=> HasKind(x, k)
<1>1. \A x \in TaskOps : x.pc = "read" => x \in [pc : {"read", "update"}, kind : Task!Kind, issue : Issue \cup {NoIssue}]
  BY DEF TaskOps, Task!NoOp
<1>2. \A x \in TaskOps : x.pc = "read" =>
       LET y == [x EXCEPT !.pc = "update"] IN
         /\ y \in TaskOps /\ y.pc = "update" /\ \A k : HasKind(y, k) <=> HasKind(x, k)
  BY <1>1 DEF TaskOps, Task!NoOp, HasKind
<1>3. \A x \in TaskOps : x.pc = "read" /\ x.kind = "sync" /\ x.issue = NoIssue =>
       LET y == [x EXCEPT !.pc = "create"] IN
         /\ y \in TaskOps /\ y.pc = "create" /\ \A k : HasKind(y, k) <=> HasKind(x, k)
  BY <1>1 DEF TaskOps, Task!NoOp, HasKind
<1>4. \A kind \in Task!Kind :
       LET x == [pc |-> "read", kind |-> kind, issue |-> NoIssue] IN
         /\ x \in TaskOps /\ x.pc = "read" /\ x.issue = NoIssue
         /\ \A k : HasKind(x, k) <=> k = kind
  BY DEF TaskOps, Task!NoOp, HasKind
<1>5. \A i \in Issue :
       LET x == [pc |-> "update", kind |-> "sync", issue |-> i] IN
         /\ x \in TaskOps /\ x.pc = "update" /\ x.issue = i
         /\ \A k : HasKind(x, k) <=> k = "sync"
  BY DEF TaskOps, Task!NoOp, Task!Kind, HasKind
<1>6. \A x \in TaskOps : x.pc # "idle" =>
       /\ x # Task!NoOp /\ x.kind \in Task!Kind /\ x.issue \in Issue \cup {NoIssue}
       /\ x.pc \in {"read", "update", "create"}
  BY DEF TaskOps, Task!NoOp, Task!Kind
<1> QED
  BY <1>2, <1>3, <1>4, <1>5, <1>6 DEF TaskOps, Task!NoOp, HasKind

LEMMA TaskInit == Task!Init => TaskInv
<1> SUFFICES ASSUME Task!Init PROVE TaskInv
  OBVIOUS
<1>1. \A o \in TaskOp : taskOp[o] = Task!NoOp
  BY DEF Task!Init
<1>2. Task!TypeOK
  BY DEF Task!Init, Task!TypeOK
<1> QED
  BY <1>1, <1>2, TaskRecords DEF Task!Init, TaskInv, TaskApproved, TaskUnraced, TaskUncontended, IsAt

\* Where one request is at x and the others are where they were.
OneMoves(o, x) ==
  /\ taskOp' = [taskOp EXCEPT ![o] = x]
  /\ taskOp'[o] = x
  /\ \A p \in TaskOp : p # o => taskOp'[p] = taskOp[p]

LEMMA TaskMoved ==
  ASSUME Task!TypeOK, NEW o \in TaskOp, NEW x \in TaskOps, taskOp' = [taskOp EXCEPT ![o] = x]
  PROVE  OneMoves(o, x) /\ taskOp' \in [TaskOp -> TaskOps]
BY DEF Task!TypeOK, TaskOps, OneMoves

LEMMA TaskRequests ==
  ASSUME TaskInv, NEW o \in TaskOp, NEW kind \in Task!Kind, Task!Request(o, kind)
  PROVE  TaskInv'
<1> DEFINE x == [pc |-> "read", kind |-> kind, issue |-> NoIssue]
<1>1. x \in TaskOps /\ x.pc = "read" /\ x.issue = NoIssue /\ \A k : HasKind(x, k) <=> k = kind
  BY TaskRecords
<1> HIDE DEF x
<1>2. OneMoves(o, x) /\ taskOp' \in [TaskOp -> TaskOps]
  BY <1>1, TaskMoved DEF TaskInv, Task!Request, x
<1>3. Task!TypeOK'
  BY <1>2 DEF TaskInv, Task!TypeOK, Task!Request, TaskOps
<1>4. TaskApproved'
  BY <1>1, <1>2 DEF TaskInv, TaskApproved, Task!Request, OneMoves, IsAt
<1>5. ~raced' => ~raced /\ (kind # "sync" => Task!Others(o, {"confirm", "reject"} \ {kind}) = {})
  BY Zenon DEF Task!Request
<1>6. ~taskContended' => ~taskContended /\ (kind # "reject" => Task!Others(o, {kind}) = {})
  BY Zenon DEF Task!Request
<1>7. \A p \in TaskOp : taskOp[p] = Task!NoOp => \A k : ~HasKind(taskOp[p], k)
  BY DEF HasKind
<1>8. TaskUnraced'
  BY <1>1, <1>2, <1>5 DEF TaskInv, TaskUnraced, Task!Request, Task!Others, Task!Kind, OneMoves, IsAt, HasKind
<1>9. TaskUncontended'
  BY <1>1, <1>2, <1>6 DEF TaskInv, TaskUncontended, Task!Request, Task!Others, Task!Kind, OneMoves, IsAt, HasKind
<1> QED
  BY <1>3, <1>4, <1>8, <1>9 DEF TaskInv

\* A request that leaves has no kind.
LEMMA TaskLeaves ==
  ASSUME TaskInv, NEW o \in TaskOp, Task!Leave(o)
  PROVE  OneMoves(o, Task!NoOp) /\ taskOp' \in [TaskOp -> TaskOps]
BY TaskRecords, TaskMoved DEF TaskInv, Task!Leave

\* A request goes on from its reading, by what it has read.
LEMMA TaskReads ==
  ASSUME TaskInv, NEW o \in TaskOp, Task!ReadsPending(o) \/ Task!ReadsConfirmed(o)
  PROVE  TaskInv'
<1> USE DEF TaskInv
<1>1. taskOp \in [TaskOp -> TaskOps] /\ UNCHANGED <<status, externalId, issues, approved, raced, taskContended>>
  BY DEF Task!ReadsPending, Task!ReadsConfirmed, Task!TypeOK, TaskOps
<1>2. taskOp[o].pc = "read" /\ taskOp[o].issue = NoIssue
  BY <1>1 DEF Task!ReadsPending, Task!ReadsConfirmed, Task!Now, TaskApproved
<1>3. ASSUME Task!Leave(o) PROVE TaskInv'
  <2>1. OneMoves(o, Task!NoOp) /\ taskOp' \in [TaskOp -> TaskOps]
    BY <1>3, TaskLeaves
  <2>2. Task!TypeOK'
    BY <1>1, <2>1 DEF Task!TypeOK, TaskOps
  <2>3. TaskApproved' /\ TaskUnraced'
    BY <1>1, <2>1, TaskRecords DEF TaskApproved, TaskUnraced, OneMoves, IsAt
  <2>4. TaskUncontended'
    BY <1>1, <1>2, <2>1, TaskRecords DEF TaskUncontended, OneMoves, IsAt
  <2> QED
    BY <2>2, <2>3, <2>4
<1>4. ASSUME Task!ReadsPending(o), status = "pending_review" PROVE TaskInv'
  <2> DEFINE y == [taskOp[o] EXCEPT !.pc = "update"]
  <2>1. y \in TaskOps /\ y.pc = "update" /\ \A k : HasKind(y, k) <=> HasKind(taskOp[o], k)
    BY <1>1, <1>2, TaskRecords
  <2>2. taskOp' = [taskOp EXCEPT ![o] = y] /\ (HasKind(taskOp[o], "confirm") \/ HasKind(taskOp[o], "reject"))
    BY <1>4 DEF Task!ReadsPending, Task!Now, HasKind
  <2>3. ~HasKind(taskOp[o], "sync")
    BY <2>2 DEF HasKind
  <2> HIDE DEF y
  <2>4. OneMoves(o, y) /\ taskOp' \in [TaskOp -> TaskOps]
    BY <2>1, <2>2, TaskMoved
  <2>5. Task!TypeOK'
    BY <1>1, <2>4 DEF Task!TypeOK, TaskOps
  <2>6. TaskApproved' /\ TaskUnraced'
    BY <1>1, <1>4, <2>1, <2>3, <2>4 DEF TaskApproved, TaskUnraced, OneMoves, IsAt
  <2>7. TaskUncontended'
    BY <1>1, <1>4, <2>1, <2>3, <2>4 DEF TaskApproved, TaskUncontended, OneMoves, IsAt
  <2> QED
    BY <2>5, <2>6, <2>7
<1>5. ASSUME Task!ReadsConfirmed(o), status = "confirmed" PROVE TaskInv'
  <2> DEFINE y == [taskOp[o] EXCEPT !.pc = "create"]
  <2>1. HasKind(taskOp[o], "sync") /\ taskOp' = [taskOp EXCEPT ![o] = y]
    BY <1>5 DEF Task!ReadsConfirmed, Task!Now, HasKind
  <2>2. y \in TaskOps /\ y.pc = "create" /\ \A k : HasKind(y, k) <=> k = "sync"
    BY <1>1, <1>2, <2>1, TaskRecords DEF HasKind
  <2> HIDE DEF y
  <2>4. OneMoves(o, y) /\ taskOp' \in [TaskOp -> TaskOps]
    BY <2>1, <2>2, TaskMoved
  <2>5. Task!TypeOK'
    BY <1>1, <2>4 DEF Task!TypeOK, TaskOps
  <2>6. TaskApproved' /\ TaskUnraced'
    BY <1>1, <1>5, <2>1, <2>2, <2>4 DEF TaskApproved, TaskUnraced, OneMoves, IsAt
  <2>7. TaskUncontended'
    BY <1>1, <1>2, <1>5, <2>1, <2>2, <2>4 DEF TaskUncontended, OneMoves, IsAt
  <2> QED
    BY <2>5, <2>6, <2>7
<1> QED
  BY <1>3, <1>4, <1>5 DEF Task!ReadsPending, Task!ReadsConfirmed

LEMMA TaskCreates ==
  ASSUME TaskInv, NEW o \in TaskOp, Task!TargetSyncs(o)
  PROVE  TaskInv'
<1> USE DEF TaskInv
<1>1. PICK i \in Issue \ issues :
        /\ issues' = issues \cup {i}
        /\ taskOp' = [taskOp EXCEPT ![o] = [pc |-> "update", kind |-> "sync", issue |-> i]]
  BY DEF Task!TargetSyncs
<1> DEFINE x == [pc |-> "update", kind |-> "sync", issue |-> i]
<1>2. x \in TaskOps /\ x.pc = "update" /\ x.issue = i /\ \A k : HasKind(x, k) <=> k = "sync"
  BY TaskRecords
<1>3. taskOp' = [taskOp EXCEPT ![o] = x]
  BY <1>1
<1> HIDE DEF x
<1>4. OneMoves(o, x) /\ taskOp' \in [TaskOp -> TaskOps]
  BY <1>2, <1>3, TaskMoved
<1>5. IsAt(taskOp[o], "sync", "create") /\ UNCHANGED <<status, externalId, approved, raced, taskContended>>
  BY DEF Task!TargetSyncs, Task!Now, IsAt, HasKind
<1>6. Task!TypeOK'
  BY <1>1, <1>4, <1>5 DEF Task!TypeOK, TaskOps
<1>7. TaskApproved' /\ TaskUnraced'
  BY <1>1, <1>2, <1>4, <1>5 DEF TaskApproved, TaskUnraced, OneMoves, IsAt
<1>8. TaskUncontended'
  BY <1>1, <1>2, <1>4, <1>5 DEF TaskUncontended, OneMoves, IsAt
<1> QED
  BY <1>6, <1>7, <1>8

LEMMA TaskFails ==
  ASSUME TaskInv, NEW o \in TaskOp, Task!TargetFails(o) \/ Task!UpdateFails(o)
  PROVE  TaskInv'
<1> USE DEF TaskInv
<1>1. OneMoves(o, Task!NoOp) /\ taskOp' \in [TaskOp -> TaskOps]
  BY TaskLeaves DEF Task!TargetFails, Task!UpdateFails
<1>2. UNCHANGED <<status, externalId, issues, approved, raced>> /\ taskOp[o] # Task!NoOp
  BY TaskRecords DEF Task!TargetFails, Task!UpdateFails, Task!Now
<1>2c. ~taskContended' => ~taskContended
  BY Zenon DEF Task!TargetFails, Task!UpdateFails
<1>3. ~taskContended' => ~IsAt(taskOp[o], "sync", "update")
  <2>1. CASE Task!TargetFails(o)
    BY <2>1 DEF Task!TargetFails, Task!Now, IsAt
  <2>2. CASE Task!UpdateFails(o)
    BY <2>2, Zenon DEF Task!UpdateFails, IsAt, HasKind
  <2> QED
    BY <2>1, <2>2
<1>4. Task!TypeOK'
  BY <1>1, <1>2 DEF Task!TypeOK, TaskOps
<1>5. TaskApproved' /\ TaskUnraced'
  BY <1>1, <1>2, TaskRecords DEF TaskApproved, TaskUnraced, OneMoves, IsAt
<1>6. TaskUncontended'
  BY <1>1, <1>2, <1>2c, <1>3, TaskRecords DEF TaskUncontended, OneMoves, IsAt
<1> QED
  BY <1>4, <1>5, <1>6

LEMMA TaskUpdates ==
  ASSUME TaskInv, NEW o \in TaskOp, Task!UpdateStatus(o)
  PROVE  TaskInv'
<1> USE DEF TaskInv
<1>1. OneMoves(o, Task!NoOp) /\ taskOp' \in [TaskOp -> TaskOps]
  BY TaskLeaves DEF Task!UpdateStatus
<1>2. taskOp[o] \in TaskOps /\ taskOp[o].pc = "update"
  BY DEF Task!UpdateStatus, Task!TypeOK, TaskOps
<1>3. taskOp[o] # Task!NoOp /\ taskOp[o].kind \in Task!Kind /\ taskOp[o].issue \in Issue \cup {NoIssue}
  BY <1>2, TaskRecords
<1>4. HasKind(taskOp[o], taskOp[o].kind) /\ \A k : HasKind(taskOp[o], k) => k = taskOp[o].kind
  BY <1>3 DEF HasKind
<1>5. UNCHANGED <<issues, raced, taskContended>>
  BY DEF Task!UpdateStatus
<1>6. CASE taskOp[o].kind = "confirm"
  <2>1. status' = "confirmed" /\ externalId' = externalId
    BY <1>6 DEF Task!UpdateStatus
  <2>2. approved'
    BY <1>6, Zenon DEF Task!UpdateStatus
  <2>3. IsAt(taskOp[o], "confirm", "update")
    BY <1>2, <1>4, <1>6 DEF IsAt
  <2>4. Task!TypeOK'
    BY <1>1, <1>5, <2>1 DEF Task!TypeOK, TaskOps
  <2>5. TaskApproved'
    BY <1>1, <1>5, <2>1, <2>2, TaskRecords DEF TaskApproved, OneMoves, IsAt
  <2>6. TaskUnraced'
    BY <1>1, <1>5, <2>1, <2>2, <2>3, TaskRecords DEF TaskUnraced, OneMoves, IsAt
  <2>7. TaskUncontended'
    BY <1>1, <1>5, <2>1, <2>2, <2>3, TaskRecords DEF TaskApproved, TaskUncontended, OneMoves, IsAt
  <2> QED
    BY <2>4, <2>5, <2>6, <2>7
<1>7. CASE taskOp[o].kind = "reject"
  <2>1. status' = "rejected" /\ externalId' = externalId
    BY <1>7 DEF Task!UpdateStatus
  <2>2. approved' <=> approved
    BY <1>7, Zenon DEF Task!UpdateStatus
  <2>3. IsAt(taskOp[o], "reject", "update")
    BY <1>2, <1>4, <1>7 DEF IsAt
  <2>4. Task!TypeOK'
    BY <1>1, <1>5, <2>1 DEF Task!TypeOK, TaskOps
  <2>5. TaskApproved'
    BY <1>1, <1>5, <2>1, <2>2, TaskRecords DEF TaskApproved, OneMoves, IsAt
  <2>6. TaskUnraced'
    BY <1>1, <1>5, <2>1, <2>2, <2>3, TaskRecords DEF TaskUnraced, OneMoves, IsAt
  <2>7. TaskUncontended'
    BY <1>1, <1>5, <2>1, <2>2, TaskRecords DEF TaskUncontended, OneMoves, IsAt
  <2> QED
    BY <2>4, <2>5, <2>6, <2>7
<1>8. CASE taskOp[o].kind = "sync"
  <2>1. status' = "synced" /\ externalId' = taskOp[o].issue
    BY <1>8 DEF Task!UpdateStatus
  <2>2. approved' <=> approved
    BY <1>8, Zenon DEF Task!UpdateStatus
  <2>3. IsAt(taskOp[o], "sync", "update")
    BY <1>2, <1>4, <1>8 DEF IsAt
  <2>4. Task!TypeOK'
    BY <1>1, <1>3, <1>5, <2>1 DEF Task!TypeOK, TaskOps
  <2>5. TaskApproved'
    BY <1>1, <1>5, <2>1, <2>2, <2>3, TaskRecords DEF TaskApproved, OneMoves, IsAt
  <2>6. TaskUnraced'
    BY <1>1, <1>5, <2>1, <2>2, TaskRecords DEF TaskUnraced, OneMoves, IsAt
  <2>7. TaskUncontended'
    BY <1>1, <1>5, <2>1, <2>2, TaskRecords DEF TaskUncontended, OneMoves, IsAt
  <2> QED
    BY <2>4, <2>5, <2>6, <2>7
<1> QED
  BY <1>3, <1>6, <1>7, <1>8 DEF Task!Kind

LEMMA TaskStep == TaskInv /\ [Next]_vars => TaskInv'
<1> SUFFICES ASSUME TaskInv, [Next]_vars PROVE TaskInv'
  OBVIOUS
<1>1. CASE UNCHANGED task
  BY <1>1 DEF task, TaskInv, Task!TypeOK, TaskApproved, TaskUnraced, TaskUncontended
<1>2. CASE Task!Next
  BY <1>2, TaskRequests, TaskReads, TaskCreates, TaskFails, TaskUpdates DEF Task!Next, Task!OpStep
<1> QED
  BY <1>1, <1>2, TaskMoves

\* A set any two members of which are equal has one at most.
LEMMA AtMostOne == ASSUME NEW S, \A i, j \in S : i = j PROVE Cardinality(S) \in {0, 1}
<1>1. CASE S = {}
  BY <1>1, FS_EmptySet
<1>2. ASSUME NEW i \in S PROVE Cardinality(S) \in {0, 1}
  <2>1. S = {i}
    OBVIOUS
  <2>2. Cardinality(S) = 1
    BY <2>1, FS_Singleton, Zenon
  <2> QED
    BY <2>2
<1> QED
  BY <1>1, <1>2

\* (An instance has its own name for it.)
LEMMA TaskCardinality == \A S : Task!Cardinality(S) = Cardinality(S)
BY DEF Task!Cardinality, Cardinality

LEMMA TaskAgrees == TaskInv => Task!IssueNeedsConfirmation /\ Task!SyncedToItsIssue
<1> SUFFICES ASSUME TaskInv PROVE Task!IssueNeedsConfirmation /\ Task!SyncedToItsIssue
  OBVIOUS
<1>1. Task!IssueNeedsConfirmation
  BY DEF TaskInv, TaskApproved, TaskUnraced, Task!IssueNeedsConfirmation
<1>2. ~taskContended => Task!Cardinality(issues) \in {0, 1}
  BY AtMostOne, TaskCardinality DEF TaskInv, TaskUncontended
<1>3. ~taskContended => ~(Task!Cardinality(issues) > 1)
  BY <1>2
<1>4. status = "synced" => externalId \in issues
  BY DEF TaskInv, TaskApproved
<1> QED
  BY <1>1, <1>3, <1>4, Zenon DEF Task!SyncedToItsIssue

-----------------------------------------------------------------------------
(* DecisionMemory *)

LEMMA MemoryMoves == [Next]_vars => Memory!Next \/ UNCHANGED memory
BY DEF Next, At, Unless, vars

MemOps == {Memory!NoOp} \cup [pc : {"embed", "reject"}] \cup [pc : {"link"}, row : Decision]
            \cup [pc : {"reembed"}, row : Decision, patch : Patch, embedded : Memory!Text]

MemTypes ==
  /\ Memory!TypeOK
  /\ memOp \in [MemOp -> MemOps]

\* Where no two reviews crossed and every decision was linked, one was made at most, and
\* while the candidate is pending somebody is about to link it.
MemReviews ==
  /\ candidate = "confirmed" => linked \in made
  /\ \A o \in MemOp : memOp[o].pc = "link" => memOp[o].row \in made
  /\ ~memContended =>
       /\ \A o, p \in MemOp : o \in Memory!Reviewing /\ p \in Memory!Reviewing => o = p
       /\ \A o \in MemOp : o \in Memory!Reviewing => candidate = "pending"
       /\ \A o \in MemOp : memOp[o].pc \in {"embed", "reject"} => made = {}
       /\ candidate = "pending" => made = {} \/ \E o \in MemOp : memOp[o].pc = "link"
       /\ candidate = "rejected" => made = {}
       /\ \A i, j \in made : i = j

\* The text as the embedder got it, some of its parts empty.
AsEmbedded(text, parts) == [p \in Memory!Part |-> IF p \in parts THEN Memory!Empty ELSE text[p]]

\* An update that is alone has embedded the text of the row as its patch has it.
MemEmbeds ==
  /\ \A o \in MemOp : memOp[o].pc = "reembed" => decision[memOp[o].row] # Memory!Unused
  /\ \A d \in Decision : decision[d] = Memory!Unused => unread[d] = {}
  /\ \A d \in Decision \ mixed :
       /\ Memory!Exists(d) => decision[d].embedded = AsEmbedded(decision[d].text, unread[d])
       /\ \A o, p \in MemOp : o \in Memory!Updating(d) /\ p \in Memory!Updating(d) => o = p
       /\ \A o \in MemOp : o \in Memory!Updating(d) /\ Memory!Exists(d) =>
            memOp[o].embedded = Memory!Embedded(decision[d].text, memOp[o].patch)

MemInv == MemTypes /\ MemReviews /\ MemEmbeds

LEMMA MemRecords ==
  /\ Memory!NoOp \in MemOps /\ Memory!NoOp.pc = "idle"
  /\ Memory!Unused # Memory!Gone
  /\ \A x \in Memory!Text, y \in Memory!Text :
       LET r == [text |-> x, embedded |-> y] IN
         /\ r \in Memory!Row /\ r.text = x /\ r.embedded = y
         /\ r # Memory!Unused /\ r # Memory!Gone
  /\ \A z \in {Memory!Empty, Memory!First} : Memory!Starts(z) \in Memory!Text
  /\ \A x \in MemOps : x.pc = "link" => x.row \in Decision
  /\ \A x \in MemOps : x.pc = "reembed" => x.row \in Decision /\ x.patch \in Patch /\ x.embedded \in Memory!Text
  /\ \A x \in MemOps : x.pc \in {"idle", "embed", "reject", "link", "reembed"}
<1>1. Memory!Unused # Memory!Gone
  BY DEF Memory!Unused, Memory!Gone
<1>2. ASSUME NEW x \in Memory!Text, NEW y \in Memory!Text
      PROVE  LET r == [text |-> x, embedded |-> y] IN
               /\ r \in Memory!Row /\ r.text = x /\ r.embedded = y
               /\ r # Memory!Unused /\ r # Memory!Gone
  BY DEF Memory!Row, Memory!Unused, Memory!Gone
<1>3. \A z \in {Memory!Empty, Memory!First} : Memory!Starts(z) \in Memory!Text
  BY DEF Memory!Starts, Memory!Text, Memory!Empty, Memory!First
<1> QED
  BY <1>1, <1>2, <1>3 DEF MemOps, Memory!NoOp

LEMMA PatchIsOfParts ==
  ASSUME NEW patch \in Patch
  PROVE  DOMAIN patch \subseteq Memory!Part /\ \A p \in DOMAIN patch : patch[p] \in {0, 1, 2}
<1>1. Patch \subseteq UNION {[parts -> 0 .. 2] : parts \in SUBSET Memory!Part}
  BY DataAssumption, Zenon DEF Memory!Part
<1>2. PICK parts \in SUBSET Memory!Part : patch \in [parts -> 0 .. 2]
  BY <1>1
<1> QED
  BY <1>2

\* What is embedded is the text that the patch makes of a row, but for the parts it has empty.
LEMMA PatchedIsText ==
  ASSUME NEW text \in Memory!Text, NEW patch \in Patch
  PROVE  /\ Memory!Patched(text, patch) \in Memory!Text /\ Memory!Embedded(text, patch) \in Memory!Text
         /\ Memory!Blank(patch) \in SUBSET Memory!Part
         /\ Memory!Embedded(text, patch) = AsEmbedded(Memory!Patched(text, patch), Memory!Blank(patch))
<1> USE PatchIsOfParts DEF Memory!Empty, Memory!First
<1>1. Memory!Embedded(text, patch) \in Memory!Text
  BY DEF Memory!Embedded, Memory!Text
<1>2. Memory!Patched(text, patch) \in Memory!Text
  BY DEF Memory!Patched, Memory!Patches, Memory!Text
<1>3. Memory!Blank(patch) \in SUBSET Memory!Part
  BY DEF Memory!Blank
<1>4. Memory!Embedded(text, patch) = AsEmbedded(Memory!Patched(text, patch), Memory!Blank(patch))
  BY DEF Memory!Embedded, Memory!Patched, Memory!Patches, Memory!Blank, AsEmbedded
<1> QED
  BY <1>1, <1>2, <1>3, <1>4

LEMMA StartIsRead ==
  /\ Memory!Starts(Memory!Empty) = AsEmbedded(Memory!Starts(Memory!First), {"context"})
  /\ \A z \in {Memory!Empty, Memory!First} : Memory!Starts(z) = AsEmbedded(Memory!Starts(z), {})
  /\ {"context"} \in SUBSET Memory!Part
BY DEF Memory!Starts, AsEmbedded, Memory!Empty, Memory!First, Memory!Part

LEMMA MemInit == Memory!Init => MemInv
<1> SUFFICES ASSUME Memory!Init PROVE MemInv
  OBVIOUS
<1>1. MemTypes
  BY MemRecords DEF Memory!Init, Memory!TypeOK, MemTypes
<1>2. MemReviews
  BY MemRecords DEF Memory!Init, MemReviews, Memory!Reviewing
<1>3. MemEmbeds
  BY MemRecords DEF Memory!Init, MemEmbeds, Memory!Updating, Memory!Exists
<1> QED
  BY <1>1, <1>2, <1>3 DEF MemInv

\* A request that reviews the candidate goes on to x, which may review it.
LEMMA MemReviewBegins ==
  ASSUME MemInv, NEW o \in MemOp, NEW pc \in {"embed", "reject"}, Memory!Review(o, pc)
  PROVE  MemInv'
<1> USE DEF MemInv
<1> DEFINE x == [pc |-> pc]
<1>1. x \in MemOps /\ x.pc = pc /\ memOp \in [MemOp -> MemOps]
  BY DEF MemOps, MemTypes
<1>2. memOp[o].pc = "idle" /\ memOp' = [memOp EXCEPT ![o] = x] /\ candidate = "pending"
  BY MemRecords DEF Memory!Review
<1>3. UNCHANGED <<candidate, linked, decision, made, mixed, unread>>
  BY DEF Memory!Review
<1>4. ~memContended' => ~memContended /\ Memory!Reviewing = {}
  BY Zenon DEF Memory!Review
<1> HIDE DEF x
<1>5. memOp' \in [MemOp -> MemOps] /\ memOp'[o] = x /\ \A p \in MemOp : p # o => memOp'[p] = memOp[p]
  BY <1>1, <1>2
<1>6. MemTypes'
  BY <1>1, <1>3, <1>5, MemRecords DEF MemTypes, Memory!TypeOK
<1>7. MemReviews'
  BY <1>1, <1>2, <1>3, <1>4, <1>5 DEF MemReviews, Memory!Reviewing
<1>8. MemEmbeds'
  BY <1>1, <1>2, <1>3, <1>5 DEF MemEmbeds, Memory!Updating, Memory!Exists, Memory!Embedded, AsEmbedded
<1> QED
  BY <1>6, <1>7, <1>8

LEMMA MemInserts ==
  ASSUME MemInv, NEW o \in MemOp, Memory!Insert(o)
  PROVE  MemInv'
<1> USE DEF MemInv
<1>1. PICK d \in Decision :
        /\ decision[d] = Memory!Unused
        /\ decision' = [decision EXCEPT ![d] =
             [text |-> Memory!Starts(Memory!First), embedded |-> Memory!Starts(Memory!Empty)]]
        /\ unread' = [unread EXCEPT ![d] = {"context"}]
        /\ made' = made \cup {d}
        /\ memOp' = [memOp EXCEPT ![o] = [pc |-> "link", row |-> d]]
  BY DEF Memory!Insert, Memory!Fresh
<1> DEFINE x == [pc |-> "link", row |-> d]
           r == [text |-> Memory!Starts(Memory!First), embedded |-> Memory!Starts(Memory!Empty)]
<1>2. x \in MemOps /\ x.pc = "link" /\ x.row = d /\ memOp \in [MemOp -> MemOps]
  BY DEF MemOps, MemTypes
<1>3. r \in Memory!Row /\ r.embedded = AsEmbedded(r.text, {"context"}) /\ r # Memory!Unused
  BY MemRecords, StartIsRead
<1>4. memOp[o].pc = "embed" /\ UNCHANGED <<candidate, linked, memContended, mixed>>
  BY DEF Memory!Insert
<1>5. memOp' = [memOp EXCEPT ![o] = x] /\ decision' = [decision EXCEPT ![d] = r]
  BY <1>1
<1> HIDE DEF x, r
<1>6. memOp' \in [MemOp -> MemOps] /\ memOp'[o] = x /\ \A p \in MemOp : p # o => memOp'[p] = memOp[p]
  BY <1>2, <1>5
<1>7. /\ decision'[d] = r /\ \A e \in Decision : e # d => decision'[e] = decision[e] /\ unread'[e] = unread[e]
      /\ unread'[d] = {"context"}
  BY <1>1, <1>5 DEF MemTypes, Memory!TypeOK
<1>8. MemTypes'
  BY <1>1, <1>3, <1>4, <1>5, <1>6, MemRecords, StartIsRead DEF MemTypes, Memory!TypeOK
<1>9. MemReviews'
  BY <1>1, <1>2, <1>4, <1>6 DEF MemReviews, Memory!Reviewing
<1>10. MemEmbeds'
  <2>1. \A p \in MemOp : memOp'[p].pc = "reembed" => memOp'[p] = memOp[p] /\ memOp[p].row # d /\ memOp[p].row \in Decision
    BY <1>1, <1>2, <1>6, MemRecords DEF MemEmbeds
  <2> QED
    BY <1>1, <1>2, <1>3, <1>4, <1>6, <1>7, <2>1, MemRecords DEF MemEmbeds, Memory!Updating, Memory!Exists, Memory!Embedded, AsEmbedded
<1> QED
  BY <1>8, <1>9, <1>10

\* A request ends, and with it what it may change but the rows.
LEMMA MemReviewEnds ==
  ASSUME MemInv, NEW o \in MemOp,
         Memory!Link(o) \/ Memory!Reject(o) \/ Memory!ReviewFails(o) \/ Memory!UpdateFails(o)
  PROVE  MemInv'
<1> USE DEF MemInv
<1>1. memOp' = [memOp EXCEPT ![o] = Memory!NoOp] /\ memOp \in [MemOp -> MemOps]
  BY DEF Memory!Link, Memory!Reject, Memory!ReviewFails, Memory!UpdateFails, Memory!Leave, MemTypes
<1>2. memOp' \in [MemOp -> MemOps] /\ memOp'[o].pc = "idle" /\ \A p \in MemOp : p # o => memOp'[p] = memOp[p]
  BY <1>1, MemRecords
<1>3. UNCHANGED <<decision, made, mixed, unread>>
  BY DEF Memory!Link, Memory!Reject, Memory!ReviewFails, Memory!UpdateFails
<1>4. MemEmbeds'
  BY <1>2, <1>3 DEF MemEmbeds, Memory!Updating, Memory!Exists, Memory!Embedded, AsEmbedded
<1>5. ASSUME Memory!Link(o) PROVE MemTypes' /\ MemReviews'
  <2>1. candidate' = "confirmed" /\ linked' = memOp[o].row /\ memOp[o].pc = "link" /\ memContended' = memContended
    BY <1>5 DEF Memory!Link
  <2>2. memOp[o].row \in Decision
    BY <1>1, <2>1, MemRecords
  <2>3. MemTypes'
    BY <1>2, <1>3, <2>1, <2>2, MemRecords DEF MemTypes, Memory!TypeOK
  <2> QED
    BY <1>2, <1>3, <2>1, <2>3 DEF MemReviews, Memory!Reviewing
<1>6. ASSUME Memory!Reject(o) PROVE MemTypes' /\ MemReviews'
  <2>1. candidate' = "rejected" /\ linked' = linked /\ memOp[o].pc = "reject" /\ memContended' = memContended
    BY <1>6 DEF Memory!Reject
  <2>2. MemTypes'
    BY <1>2, <1>3, <2>1, MemRecords DEF MemTypes, Memory!TypeOK
  <2> QED
    BY <1>2, <1>3, <2>1, <2>2 DEF MemReviews, Memory!Reviewing
<1>7. ASSUME Memory!ReviewFails(o) \/ Memory!UpdateFails(o) PROVE MemTypes' /\ MemReviews'
  <2>1. UNCHANGED <<candidate, linked>>
    BY <1>7 DEF Memory!ReviewFails, Memory!UpdateFails
  <2>2. ~memContended' => ~memContended
    BY <1>7, Zenon DEF Memory!ReviewFails, Memory!UpdateFails
  <2>3. ~memContended' => memOp[o].pc # "link"
    <3>1. CASE Memory!ReviewFails(o)
      BY <3>1, Zenon DEF Memory!ReviewFails
    <3>2. CASE Memory!UpdateFails(o)
      BY <3>2 DEF Memory!UpdateFails
    <3> QED
      BY <1>7, <3>1, <3>2
  <2>4. MemTypes'
    BY <1>2, <1>3, <2>1, MemRecords DEF MemTypes, Memory!TypeOK
  <2> QED
    BY <1>2, <1>3, <2>1, <2>2, <2>3, <2>4 DEF MemReviews, Memory!Reviewing
<1> QED
  BY <1>4, <1>5, <1>6, <1>7

LEMMA MemCreates ==
  ASSUME MemInv, NEW d \in Decision, NEW context \in {Memory!Empty, Memory!First}, Memory!Create(d, context)
  PROVE  MemInv'
<1> USE DEF MemInv
<1> DEFINE r == [text |-> Memory!Starts(context), embedded |-> Memory!Starts(context)]
<1>1. r \in Memory!Row /\ r.embedded = AsEmbedded(r.text, {}) /\ r # Memory!Unused
  BY MemRecords, StartIsRead
<1>2. decision[d] = Memory!Unused /\ decision' = [decision EXCEPT ![d] = r] /\ memOp \in [MemOp -> MemOps]
  BY DEF Memory!Create, Memory!Fresh, MemTypes
<1>3. UNCHANGED <<candidate, linked, memOp, made, memContended, mixed, unread>> /\ unread[d] = {}
  BY <1>2 DEF Memory!Create, MemEmbeds
<1> HIDE DEF r
<1>4. decision'[d] = r /\ \A e \in Decision : e # d => decision'[e] = decision[e]
  BY <1>2 DEF MemTypes, Memory!TypeOK
<1>5. MemTypes'
  BY <1>1, <1>2, <1>3 DEF MemTypes, Memory!TypeOK
<1>6. MemReviews'
  BY <1>3 DEF MemReviews, Memory!Reviewing
<1>7. MemEmbeds'
  <2>1. \A p \in MemOp : memOp[p].pc = "reembed" => memOp[p].row # d /\ memOp[p].row \in Decision
    BY <1>2, MemRecords DEF MemEmbeds
  <2> QED
    BY <1>1, <1>3, <1>4, <2>1 DEF MemEmbeds, Memory!Updating, Memory!Exists, Memory!Embedded, AsEmbedded
<1> QED
  BY <1>5, <1>6, <1>7

LEMMA MemUpdates ==
  ASSUME MemInv, NEW o \in MemOp, NEW d \in Edited, NEW patch \in Patch, Memory!Update(o, d, patch)
  PROVE  MemInv'
<1> USE DEF MemInv
<1> DEFINE text == Memory!Embedded(decision[d].text, patch)
           x == [pc |-> "reembed", row |-> d, patch |-> patch, embedded |-> text]
<1>1. d \in Decision /\ Memory!Exists(d) /\ decision[d] \in Memory!Row /\ memOp \in [MemOp -> MemOps]
  BY DataAssumption DEF Memory!Update, Memory!Exists, MemTypes, Memory!TypeOK
<1>2. text \in Memory!Text
  BY <1>1, PatchedIsText DEF Memory!Row
<1>3. memOp[o].pc = "idle" /\ memOp' = [memOp EXCEPT ![o] = x]
  BY MemRecords DEF Memory!Update
<1>4. /\ UNCHANGED <<candidate, linked, decision, made, memContended, unread>>
      /\ mixed' = IF Memory!Updating(d) = {} THEN mixed ELSE mixed \cup {d}
  BY DEF Memory!Update
<1>5. x \in MemOps /\ x.pc = "reembed" /\ x.row = d /\ x.embedded = Memory!Embedded(decision[d].text, x.patch)
  BY <1>1, <1>2 DEF MemOps
<1> HIDE DEF x, text
<1>6. memOp' \in [MemOp -> MemOps] /\ memOp'[o] = x /\ \A p \in MemOp : p # o => memOp'[p] = memOp[p]
  BY <1>1, <1>3, <1>5
<1>7. MemTypes'
  BY <1>1, <1>4, <1>6, MemRecords DEF MemTypes, Memory!TypeOK
<1>8. MemReviews'
  BY <1>3, <1>4, <1>5, <1>6 DEF MemReviews, Memory!Reviewing
<1>9. MemEmbeds'
  <2>1. \A p \in MemOp : memOp'[p].pc = "reembed" => decision'[memOp'[p].row] # Memory!Unused
    BY <1>1, <1>4, <1>5, <1>6 DEF MemEmbeds, Memory!Exists
  <2>0. \A e \in Decision : decision'[e] = Memory!Unused => unread'[e] = {}
    BY <1>4 DEF MemEmbeds
  <2> SUFFICES ASSUME NEW e \in Decision \ mixed'
               PROVE  /\ Memory!Exists(e)' => decision'[e].embedded = AsEmbedded(decision'[e].text, unread'[e])
                      /\ \A p, q \in MemOp : p \in Memory!Updating(e)' /\ q \in Memory!Updating(e)' => p = q
                      /\ \A p \in MemOp : p \in Memory!Updating(e)' /\ Memory!Exists(e)' =>
                           memOp'[p].embedded = Memory!Embedded(decision'[e].text, memOp'[p].patch)
    BY <2>0, <2>1 DEF MemEmbeds, Memory!Embedded, AsEmbedded
  <2>2. e \notin mixed /\ (e = d => Memory!Updating(d) = {})
    BY <1>4
  <2>3. Memory!Exists(e)' => Memory!Exists(e) /\ decision'[e] = decision[e]
    BY <1>4 DEF Memory!Exists
  <2>4. CASE e = d
    <3>1. Memory!Updating(e)' = {o}
      BY <1>5, <1>6, <2>2, <2>4 DEF Memory!Updating
    <3> QED
      BY <1>4, <1>5, <1>6, <2>2, <2>3, <2>4, <3>1 DEF MemEmbeds
  <2>5. CASE e # d
    <3>1. \A p \in MemOp : p \in Memory!Updating(e)' => p \in Memory!Updating(e) /\ memOp'[p] = memOp[p]
      BY <1>5, <1>6, <2>5 DEF Memory!Updating
    <3> QED
      BY <1>4, <2>2, <2>3, <3>1 DEF MemEmbeds
  <2> QED
    BY <2>4, <2>5
<1> QED
  BY <1>7, <1>8, <1>9

\* An update ends without having changed the row.
LEMMA MemUpdateEnds ==
  ASSUME MemInv, NEW o \in MemOp, memOp[o].pc = "reembed", Memory!Leave(o),
         UNCHANGED <<candidate, linked, decision, made, memContended, mixed, unread>>
  PROVE  MemInv'
<1> USE DEF MemInv
<1>1. memOp' = [memOp EXCEPT ![o] = Memory!NoOp] /\ memOp \in [MemOp -> MemOps]
  BY DEF Memory!Leave, MemTypes
<1>2. memOp' \in [MemOp -> MemOps] /\ memOp'[o].pc = "idle" /\ \A p \in MemOp : p # o => memOp'[p] = memOp[p]
  BY <1>1, MemRecords
<1>3. MemTypes'
  BY <1>2, MemRecords DEF MemTypes, Memory!TypeOK
<1>4. MemReviews'
  BY <1>2 DEF MemReviews, Memory!Reviewing
<1>5. MemEmbeds'
  BY <1>2 DEF MemEmbeds, Memory!Updating, Memory!Exists, Memory!Embedded, AsEmbedded
<1> QED
  BY <1>3, <1>4, <1>5

LEMMA MemPatches ==
  ASSUME MemInv, NEW o \in MemOp, Memory!ApplyPatch(o), Memory!Patches(memOp[o].patch) # {}
  PROVE  MemInv'
<1> USE DEF MemInv
<1> DEFINE d == memOp[o].row
           text == Memory!Patched(decision[d].text, memOp[o].patch)
           blank == Memory!Blank(memOp[o].patch)
           r == [text |-> text, embedded |-> memOp[o].embedded]
<1>1. memOp[o].pc = "reembed" /\ Memory!Exists(d) /\ memOp \in [MemOp -> MemOps]
  BY DEF Memory!ApplyPatch, MemTypes
<1>2. d \in Decision /\ memOp[o].patch \in Patch /\ memOp[o].embedded \in Memory!Text
  BY <1>1, MemRecords
<1>3. decision[d].text \in Memory!Text
  BY <1>1, <1>2 DEF MemTypes, Memory!TypeOK, Memory!Exists, Memory!Row
<1>4. /\ decision' = [decision EXCEPT ![d] = r] /\ memOp' = [memOp EXCEPT ![o] = Memory!NoOp]
      /\ unread' = [unread EXCEPT ![d] = blank]
      /\ UNCHANGED <<candidate, linked, made, memContended, mixed>>
  BY DEF Memory!ApplyPatch, Memory!Leave
<1>5. /\ r \in Memory!Row /\ r # Memory!Unused /\ r.embedded = memOp[o].embedded /\ r.text = text
      /\ blank \in SUBSET Memory!Part
  BY <1>2, <1>3, PatchedIsText, MemRecords
<1>6. o \in Memory!Updating(d)
  BY <1>1 DEF Memory!Updating
<1>7. d \notin mixed => r.embedded = AsEmbedded(r.text, blank)
  <2>1. d \notin mixed => memOp[o].embedded = Memory!Embedded(decision[d].text, memOp[o].patch)
    BY <1>1, <1>2, <1>6 DEF MemEmbeds
  <2> QED
    BY <1>2, <1>3, <1>5, <2>1, PatchedIsText
<1> HIDE DEF r, text, blank
<1>8. memOp' \in [MemOp -> MemOps] /\ memOp'[o].pc = "idle" /\ \A p \in MemOp : p # o => memOp'[p] = memOp[p]
  BY <1>1, <1>4, MemRecords
<1>9. /\ decision'[d] = r /\ unread'[d] = blank
      /\ \A e \in Decision : e # d => decision'[e] = decision[e] /\ unread'[e] = unread[e]
  BY <1>2, <1>4 DEF MemTypes, Memory!TypeOK
<1>10. MemTypes'
  BY <1>4, <1>5, <1>8, MemRecords DEF MemTypes, Memory!TypeOK
<1>11. MemReviews'
  BY <1>1, <1>4, <1>8 DEF MemReviews, Memory!Reviewing
<1>12. MemEmbeds'
  <2>1. ASSUME NEW p \in MemOp, memOp'[p].pc = "reembed" PROVE decision'[memOp'[p].row] # Memory!Unused
    <3>1. p # o /\ memOp'[p] = memOp[p] /\ memOp[p].row \in Decision
      BY <1>1, <1>8, <2>1, MemRecords
    <3> QED
      BY <1>5, <1>9, <2>1, <3>1 DEF MemEmbeds
  <2> HIDE DEF d
  <2>2. \A e \in Decision : decision'[e] = Memory!Unused => unread'[e] = {}
    BY <1>5, <1>9 DEF MemEmbeds
  <2> SUFFICES ASSUME NEW e \in Decision \ mixed'
               PROVE  /\ Memory!Exists(e)' => decision'[e].embedded = AsEmbedded(decision'[e].text, unread'[e])
                      /\ \A p, q \in MemOp : p \in Memory!Updating(e)' /\ q \in Memory!Updating(e)' => p = q
                      /\ \A p \in MemOp : p \in Memory!Updating(e)' /\ Memory!Exists(e)' =>
                           memOp'[p].embedded = Memory!Embedded(decision'[e].text, memOp'[p].patch)
    BY <2>1, <2>2 DEF MemEmbeds, Memory!Embedded, AsEmbedded
  <2>3. e \notin mixed
    BY <1>4
  <2>4. \A p \in MemOp : p \in Memory!Updating(e)' => p \in Memory!Updating(e) /\ p # o /\ memOp'[p] = memOp[p]
    BY <1>8 DEF Memory!Updating
  <2>5. CASE e = d
    <3>1. Memory!Updating(e)' = {}
      BY <1>6, <2>3, <2>4, <2>5 DEF MemEmbeds, Memory!Updating
    <3>2. decision'[e].embedded = AsEmbedded(decision'[e].text, unread'[e])
      BY <1>7, <1>9, <2>3, <2>5
    <3> QED
      BY <3>1, <3>2
  <2>6. CASE e # d
    <3>1. decision'[e] = decision[e] /\ unread'[e] = unread[e] /\ (Memory!Exists(e)' => Memory!Exists(e))
      BY <1>9, <2>6 DEF Memory!Exists
    <3> QED
      BY <2>3, <2>4, <3>1 DEF MemEmbeds
  <2> QED
    BY <2>5, <2>6
<1> QED
  BY <1>10, <1>11, <1>12

LEMMA MemDeletes ==
  ASSUME MemInv, NEW d \in Decision, Memory!Delete(d)
  PROVE  MemInv'
<1> USE DEF MemInv
<1>1. /\ decision' = [decision EXCEPT ![d] = Memory!Gone]
      /\ UNCHANGED <<candidate, linked, memOp, made, memContended, mixed, unread>>
  BY DEF Memory!Delete
<1>2. decision'[d] = Memory!Gone /\ \A e \in Decision : e # d => decision'[e] = decision[e]
  BY <1>1 DEF MemTypes, Memory!TypeOK
<1>3. MemTypes'
  BY <1>1 DEF MemTypes, Memory!TypeOK
<1>4. MemReviews'
  BY <1>1 DEF MemReviews, Memory!Reviewing
<1>5. MemEmbeds'
  <2>1. \A p \in MemOp : memOp[p].pc = "reembed" => memOp[p].row \in Decision
    BY MemRecords DEF MemTypes
  <2>2. \A e \in Decision : decision'[e] = Memory!Unused => unread'[e] = {}
    BY <1>1, <1>2, MemRecords DEF MemEmbeds
  <2>3. \A e \in Decision : Memory!Exists(e)' => Memory!Exists(e) /\ decision'[e] = decision[e]
    BY <1>2 DEF Memory!Exists
  <2>4. \A p \in MemOp : memOp'[p].pc = "reembed" => decision'[memOp'[p].row] # Memory!Unused
    BY <1>1, <1>2, <2>1, MemRecords DEF MemEmbeds
  <2> SUFFICES ASSUME NEW e \in Decision \ mixed
               PROVE  /\ Memory!Exists(e)' => decision'[e].embedded = AsEmbedded(decision'[e].text, unread'[e])
                      /\ \A o, p \in MemOp : o \in Memory!Updating(e)' /\ p \in Memory!Updating(e)' => o = p
                      /\ \A o \in MemOp : o \in Memory!Updating(e)' /\ Memory!Exists(e)' =>
                           memOp'[o].embedded = Memory!Embedded(decision'[e].text, memOp'[o].patch)
    BY <1>1, <2>2, <2>4 DEF MemEmbeds, Memory!Embedded, AsEmbedded
  <2>5. Memory!Updating(e)' = Memory!Updating(e) /\ UNCHANGED <<memOp, unread>>
    BY <1>1 DEF Memory!Updating
  <2> QED
    BY <2>3, <2>5 DEF MemEmbeds
<1> QED
  BY <1>3, <1>4, <1>5

LEMMA MemStep == MemInv /\ [Next]_vars => MemInv'
<1> SUFFICES ASSUME MemInv, [Next]_vars PROVE MemInv'
  OBVIOUS
<1>1. CASE UNCHANGED memory
  BY <1>1 DEF memory, MemInv, MemTypes, Memory!TypeOK, MemReviews, Memory!Reviewing, MemEmbeds,
              Memory!Updating, Memory!Exists, Memory!Embedded, AsEmbedded
<1>2. ASSUME NEW o \in MemOp, Memory!ConfirmPending(o) \/ Memory!RejectPending(o) PROVE MemInv'
  BY <1>2, MemReviewBegins DEF Memory!ConfirmPending, Memory!RejectPending
<1>3. ASSUME NEW o \in MemOp, Memory!ApplyPatch(o) PROVE MemInv'
  <2>1. CASE Memory!Patches(memOp[o].patch) = {}
    BY <1>3, <2>1, MemUpdateEnds DEF Memory!ApplyPatch
  <2>2. CASE Memory!Patches(memOp[o].patch) # {}
    BY <1>3, <2>2, MemPatches
  <2> QED
    BY <2>1, <2>2
<1>4. CASE Memory!Next
  BY <1>2, <1>3, <1>4, MemInserts, MemReviewEnds, MemCreates, MemUpdates, MemDeletes
     DEF Memory!Next, Memory!OpStep
<1> QED
  BY <1>1, <1>4, MemoryMoves

LEMMA MemoryCardinality == \A S : Memory!Cardinality(S) = Cardinality(S)
BY DEF Memory!Cardinality, Cardinality

LEMMA MemoryAgrees == MemInv => Memory!CandidateFitsDecision /\ Memory!EmbeddingFitsText
<1> SUFFICES ASSUME MemInv PROVE Memory!CandidateFitsDecision /\ Memory!EmbeddingFitsText
  OBVIOUS
<1>1. ~memContended => Memory!Cardinality(made) <= 1
  <2>1. ~memContended => Memory!Cardinality(made) \in {0, 1}
    BY AtMostOne, MemoryCardinality DEF MemInv, MemReviews
  <2> QED
    BY <2>1
<1>2. /\ candidate = "confirmed" => linked \in made
      /\ ~memContended => (candidate = "rejected" => made = {})
  BY DEF MemInv, MemReviews
<1>3. Memory!CandidateFitsDecision
  BY <1>1, <1>2, Zenon DEF Memory!CandidateFitsDecision
<1>4. Memory!EmbeddingFitsText
  BY DEF MemInv, MemEmbeds, AsEmbedded, Memory!EmbeddingFitsText
<1> QED
  BY <1>3, <1>4

-----------------------------------------------------------------------------
(* AuditChain *)

LEMMA AuditMoves == [Next]_vars => Audit!Next \/ UNCHANGED audit
BY DEF Next, At, Unless, vars

Logging(x) == x.pc \in {"last", "insert"}

\* Stamps are not from the future.
StampsArePast ==
  /\ \A i \in 1 .. Len(auditRows) : auditRows[i].at <= clock
  /\ \A w \in Writer : Logging(writer[w]) => writer[w].at <= clock

IsLatest(x, set) == IF set = {} THEN x = Audit!NoHash ELSE x \in set /\ \A j \in set : j <= x

\* The rows of a tenant have a last one by their stamps.  Where no two of its entries were logged at once,
\* they were stamped in the order of their insertion, the writer that is about to insert
\* the next one knows the last, and every row names the one before it.
RowsHaveALast ==
  \A t \in Tenant : Audit!Of(t) # {} =>
    \E x \in Audit!Of(t) : \A j \in Audit!Of(t) \ {x} : Audit!After(x, j)
RowsAreInOrder ==
  \A t \in Tenant \ overlapped :
    /\ \A i, j \in Audit!Of(t) : i < j => auditRows[i].at <= auditRows[j].at
    /\ \A w \in Writer, i \in Audit!Of(t) :
         Logging(writer[w]) /\ writer[w].tenant = t => auditRows[i].at <= writer[w].at
LoggedOneByOne ==
  \A t \in Tenant \ overlapped : \A v, w \in Writer :
    Logging(writer[v]) /\ Logging(writer[w]) /\ writer[v].tenant = t /\ writer[w].tenant = t => v = w
RowsAreChained ==
  \A t \in Tenant \ overlapped :
    /\ \A w \in Writer : writer[w].pc = "insert" /\ writer[w].tenant = t => IsLatest(writer[w].prev, Audit!Of(t))
    /\ \A i \in Audit!Of(t) : IsLatest(auditRows[i].prev, {j \in Audit!Of(t) : j < i})

AuditInv ==
  /\ Audit!TypeOK /\ StampsArePast /\ RowsHaveALast /\ RowsAreInOrder /\ LoggedOneByOne /\ RowsAreChained

Writers == {Audit!NoWriter} \cup [pc : {"last"}, tenant : Tenant, at : 0 .. MaxTime]
             \cup [pc : {"insert"}, tenant : Tenant, at : 0 .. MaxTime, prev : Audit!Hash \cup {Audit!NoHash}]

LEMMA WriterRecords ==
  /\ Audit!NoWriter \in Writers /\ ~Logging(Audit!NoWriter) /\ Audit!NoWriter.pc # "insert"
  /\ \A x \in Writers : x = Audit!NoWriter \/ Logging(x)
  /\ \A x \in Writers : Logging(x) => x.tenant \in Tenant /\ x.at \in 0 .. MaxTime
  /\ \A x \in Writers : x.pc = "insert" => x.prev \in Audit!Hash \cup {Audit!NoHash}
BY DEF Writers, Audit!NoWriter, Logging

LEMMA RowFacts ==
  ASSUME Audit!TypeOK
  PROVE  /\ Len(auditRows) \in Nat
         /\ \A i \in 1 .. Len(auditRows) : auditRows[i].tenant \in Tenant /\ auditRows[i].at \in Nat
<1> DEFINE R == [tenant : Tenant, at : 0 .. MaxTime, prev : Audit!Hash \cup {Audit!NoHash}]
<1>1. auditRows \in Seq(R) /\ \A x \in R : x.tenant \in Tenant /\ x.at \in Nat
  BY DEF Audit!TypeOK
<1> HIDE DEF R
<1>2. \A i \in 1 .. Len(auditRows) : auditRows[i] \in R
  BY <1>1
<1> QED
  BY <1>1, <1>2

\* Of rows in the order of their stamps, the last is the one inserted last.
LEMMA LastIsLatest ==
  ASSUME Audit!TypeOK, RowsAreInOrder, NEW t \in Tenant \ overlapped, NEW set \in SUBSET Audit!Of(t),
         NEW x, IsLatest(x, set)
  PROVE  Audit!Last(set) = x
<1>1. CASE set = {}
  BY <1>1 DEF Audit!Last, IsLatest
<1>2. CASE set # {}
  <2>1. x \in set /\ \A j \in set : j <= x
    BY <1>2 DEF IsLatest
  <2>2. set \subseteq 1 .. Len(auditRows) /\ \A i \in set : auditRows[i].at \in Nat
    BY RowFacts DEF Audit!Of
  <2>3. \A j \in set \ {x} : Audit!After(x, j)
    BY <2>1, <2>2 DEF RowsAreInOrder, Audit!After
  <2>4. \A i, j \in set : ~(Audit!After(i, j) /\ Audit!After(j, i))
    BY <2>2 DEF Audit!After
  <2> DEFINE last == CHOOSE i \in set : \A j \in set \ {i} : Audit!After(i, j)
  <2>5. last \in set /\ \A j \in set \ {last} : Audit!After(last, j)
    BY <2>1, <2>3
  <2>6. Audit!Last(set) = last
    BY <1>2 DEF Audit!Last
  <2> QED
    BY <2>1, <2>3, <2>4, <2>5, <2>6
<1> QED
  BY <1>1, <1>2

LEMMA AuditInit == Audit!Init => AuditInv
<1> SUFFICES ASSUME Audit!Init PROVE AuditInv
  OBVIOUS
<1>1. auditRows = << >> /\ \A w \in Writer : writer[w] = Audit!NoWriter
  BY DEF Audit!Init
<1>2. Audit!TypeOK
  BY ServicesAssumption DEF Audit!Init, Audit!TypeOK
<1>3. \A t \in Tenant : Audit!Of(t) = {}
  BY <1>1 DEF Audit!Of
<1> QED
  BY <1>1, <1>2, <1>3, WriterRecords
     DEF AuditInv, StampsArePast, RowsHaveALast, RowsAreInOrder, LoggedOneByOne, RowsAreChained

\* What rows there are and how they are ordered does not change where no row is added.
LEMMA RowsStay ==
  ASSUME UNCHANGED auditRows
  PROVE  /\ \A t : Audit!Of(t)' = Audit!Of(t)
         /\ \A i, j : Audit!After(i, j)' <=> Audit!After(i, j)
BY DEF Audit!Of, Audit!After

\* A writer that moves on without a row: it stops logging or keeps tenant and stamp.
LEMMA WriterMoves ==
  ASSUME AuditInv, UNCHANGED <<auditRows, clock, overlapped>>, NEW w \in Writer, NEW x \in Writers,
         writer' = [writer EXCEPT ![w] = x],
         Logging(x) => Logging(writer[w]) /\ x.tenant = writer[w].tenant /\ x.at = writer[w].at,
         \A t \in Tenant \ overlapped : x.pc = "insert" /\ x.tenant = t => IsLatest(x.prev, Audit!Of(t))
  PROVE  AuditInv'
<1> USE DEF AuditInv
<1>1. writer \in [Writer -> Writers]
  BY DEF Audit!TypeOK, Writers
<1>2. writer' \in [Writer -> Writers] /\ writer'[w] = x /\ \A v \in Writer : v # w => writer'[v] = writer[v]
  BY <1>1
<1>3. Audit!TypeOK'
  BY <1>2 DEF Audit!TypeOK, Writers
<1>4. StampsArePast'
  BY <1>2 DEF StampsArePast
<1>5. RowsHaveALast'
  BY RowsStay DEF RowsHaveALast
<1>6. RowsAreInOrder'
  BY <1>2, RowsStay DEF RowsAreInOrder
<1>7. LoggedOneByOne'
  BY <1>2 DEF LoggedOneByOne
<1>8. RowsAreChained'
  BY <1>2, RowsStay DEF RowsAreChained
<1> QED
  BY <1>3, <1>4, <1>5, <1>6, <1>7, <1>8

LEMMA AuditReads ==
  ASSUME AuditInv, NEW w \in Writer, Audit!GetLastEntry(w)
  PROVE  AuditInv'
<1> USE DEF AuditInv
<1> DEFINE t == writer[w].tenant
           last == Audit!Last(Audit!Of(t))
           x == [pc |-> "insert", tenant |-> t, at |-> writer[w].at, prev |-> last]
<1>1. /\ writer[w].pc = "last" /\ writer' = [writer EXCEPT ![w] = x]
      /\ UNCHANGED <<auditRows, clock, overlapped>>
  BY DEF Audit!GetLastEntry
<1>2. Logging(writer[w]) /\ t \in Tenant /\ writer[w].at \in 0 .. MaxTime
  BY <1>1, WriterRecords DEF Audit!TypeOK, Writers, Logging
<1>3. Audit!Of(t) # {} => last \in Audit!Of(t) /\ \A j \in Audit!Of(t) \ {last} : Audit!After(last, j)
  BY <1>2 DEF RowsHaveALast, Audit!Last
<1>4. Audit!Of(t) = {} => last = Audit!NoHash
  BY DEF Audit!Last
<1>5. last \in Audit!Hash \cup {Audit!NoHash}
  BY <1>3, <1>4, RowFacts, ServicesAssumption DEF Audit!Of, Audit!Hash, Audit!TypeOK
<1>6. t \notin overlapped => IsLatest(last, Audit!Of(t))
  <2> HIDE DEF t, last
  <2>1. ASSUME t \notin overlapped, NEW j \in Audit!Of(t) PROVE j <= last
    <3>1. last \in Audit!Of(t) /\ (j # last => Audit!After(last, j))
      BY <1>3
    <3>2. last < j => auditRows[last].at <= auditRows[j].at
      BY <1>2, <2>1, <3>1 DEF RowsAreInOrder
    <3>3. j \in 1 .. Len(auditRows) /\ last \in 1 .. Len(auditRows)
      BY <3>1 DEF Audit!Of
    <3> QED
      BY <3>1, <3>2, <3>3, RowFacts DEF Audit!After
  <2> QED
    BY <1>3, <1>4, <2>1 DEF IsLatest
<1>7. /\ x \in Writers /\ Logging(x) /\ x.pc = "insert" /\ x.tenant = t /\ x.at = writer[w].at /\ x.prev = last
  BY <1>2, <1>5 DEF Writers, Logging
<1> HIDE DEF x, last
<1> QED
  BY <1>1, <1>2, <1>6, <1>7, WriterMoves

LEMMA AuditFails ==
  ASSUME AuditInv, NEW w \in Writer, Audit!Fails(w)
  PROVE  AuditInv'
BY WriterRecords, WriterMoves DEF Audit!Fails

LEMMA AuditTicks ==
  ASSUME AuditInv, Audit!Tick
  PROVE  AuditInv'
<1> USE DEF AuditInv
<1>1. clock \in 0 .. MaxTime /\ clock' = clock + 1 /\ clock < MaxTime /\ UNCHANGED <<auditRows, writer, overlapped>>
  BY DEF Audit!Tick, Audit!TypeOK
<1>2. Audit!TypeOK'
  BY <1>1, ServicesAssumption DEF Audit!TypeOK
<1>3. \A w \in Writer : Logging(writer[w]) => writer[w].at \in 0 .. MaxTime
  BY WriterRecords DEF Audit!TypeOK, Writers
<1>4. StampsArePast'
  BY <1>1, <1>3, RowFacts DEF StampsArePast
<1>5. RowsHaveALast' /\ RowsAreInOrder' /\ LoggedOneByOne' /\ RowsAreChained'
  BY <1>1, RowsStay DEF RowsHaveALast, RowsAreInOrder, LoggedOneByOne, RowsAreChained
<1> QED
  BY <1>2, <1>4, <1>5

LEMMA AuditBegins ==
  ASSUME AuditInv, NEW w \in Writer, NEW t \in Tenant, Audit!LogAudit(w, t)
  PROVE  AuditInv'
<1> USE DEF AuditInv
<1> DEFINE x == [pc |-> "last", tenant |-> t, at |-> clock]
<1>1. /\ writer[w] = Audit!NoWriter /\ writer' = [writer EXCEPT ![w] = x]
      /\ UNCHANGED <<auditRows, clock>>
      /\ overlapped' = IF \E o \in Writer : writer[o] # Audit!NoWriter /\ writer[o].tenant = t
                       THEN overlapped \cup {t} ELSE overlapped
  BY DEF Audit!LogAudit
<1>2. x \in Writers /\ Logging(x) /\ x.pc = "last" /\ x.tenant = t /\ x.at = clock /\ writer \in [Writer -> Writers]
  BY DEF Audit!TypeOK, Writers, Logging
<1>3. ~Logging(writer[w])
  BY <1>1, WriterRecords
<1> HIDE DEF x
<1>4. writer' \in [Writer -> Writers] /\ writer'[w] = x /\ \A v \in Writer : v # w => writer'[v] = writer[v]
  BY <1>1, <1>2
<1>5. overlapped \subseteq overlapped' /\ overlapped' \subseteq overlapped \cup {t}
  BY <1>1
<1>6. t \notin overlapped' => \A v \in Writer : Logging(writer[v]) => writer[v].tenant # t
  BY <1>1, WriterRecords
<1>7. Audit!TypeOK'
  BY <1>1, <1>4, <1>5 DEF Audit!TypeOK, Writers
<1>8. StampsArePast'
  BY <1>1, <1>2, <1>4, ServicesAssumption DEF StampsArePast, Audit!TypeOK
<1>9. RowsHaveALast'
  BY <1>1, RowsStay DEF RowsHaveALast
<1>10. RowsAreInOrder'
  <2>1. \A i \in Audit!Of(t) : auditRows[i].at <= clock
    BY DEF Audit!Of, StampsArePast
  <2> QED
    BY <1>1, <1>2, <1>4, <1>5, <2>1, RowsStay DEF RowsAreInOrder
<1>11. LoggedOneByOne'
  BY <1>2, <1>4, <1>5, <1>6 DEF LoggedOneByOne
<1>12. RowsAreChained'
  BY <1>1, <1>2, <1>4, <1>5, RowsStay DEF RowsAreChained
<1> QED
  BY <1>7, <1>8, <1>9, <1>10, <1>11, <1>12

LEMMA AuditInserts ==
  ASSUME AuditInv, NEW w \in Writer, Audit!Insert(w)
  PROVE  AuditInv'
<1> USE DEF AuditInv
<1>0. PICK t, r, n : t = writer[w].tenant /\ r = Audit!Row(w) /\ n = Len(auditRows) + 1
  OBVIOUS
<1> DEFINE R == [tenant : Tenant, at : 0 .. MaxTime, prev : Audit!Hash \cup {Audit!NoHash}]
<1>1. /\ writer[w].pc = "insert" /\ writer' = [writer EXCEPT ![w] = Audit!NoWriter]
      /\ Len(auditRows) < MaxRows /\ auditRows' = Append(auditRows, r)
      /\ UNCHANGED <<clock, overlapped>>
  BY <1>0 DEF Audit!Insert
<1>2. Logging(writer[w]) /\ r \in R /\ writer[w].at <= clock /\ t \in Tenant
  BY <1>0, <1>1, WriterRecords DEF Audit!TypeOK, Audit!Row, Writers, Logging, StampsArePast
<1>3. writer \in [Writer -> Writers] /\ auditRows \in Seq(R)
  BY DEF Audit!TypeOK, Writers
<1>4. r.tenant = t /\ r.at = writer[w].at /\ r.prev = writer[w].prev /\ r.at \in Nat
  BY <1>0, <1>2 DEF Audit!Row
<1> HIDE DEF R
<1>5. auditRows' \in Seq(R) /\ Len(auditRows') = n /\ auditRows'[n] = r
      /\ \A i \in 1 .. Len(auditRows) : auditRows'[i] = auditRows[i]
  BY <1>0, <1>1, <1>2, <1>3
<1>6. n \in Nat /\ n > Len(auditRows) /\ n <= MaxRows
  BY <1>0, <1>1, <1>3, ServicesAssumption
<1>7. Audit!Of(t)' = Audit!Of(t) \cup {n}
  BY <1>0, <1>3, <1>4, <1>5, <1>6 DEF Audit!Of
<1>8. \A u : u # t => Audit!Of(u)' = Audit!Of(u)
  BY <1>0, <1>3, <1>4, <1>5, <1>6 DEF Audit!Of
<1>9. /\ \A v \in Writer : Logging(writer'[v]) => v # w /\ writer'[v] = writer[v]
      /\ \A v \in Writer : writer'[v].pc = "insert" => v # w /\ writer'[v] = writer[v]
      /\ writer' \in [Writer -> Writers]
  BY <1>1, <1>3, WriterRecords
<1>10. t \notin overlapped => \A v \in Writer : Logging(writer'[v]) => writer'[v].tenant # t
  BY <1>0, <1>2, <1>9 DEF LoggedOneByOne
<1>11. Audit!TypeOK'
  BY <1>1, <1>5, <1>6, <1>9 DEF Audit!TypeOK, Writers, R
<1>12. StampsArePast'
  BY <1>1, <1>2, <1>3, <1>4, <1>5, <1>6, <1>9 DEF StampsArePast
<1>13. \A u \in Tenant : \A i \in Audit!Of(u) : i \in 1 .. Len(auditRows) /\ auditRows'[i] = auditRows[i] /\ i < n
  BY <1>3, <1>5, <1>6 DEF Audit!Of
<1>14. RowsHaveALast'
  <2> SUFFICES ASSUME NEW u \in Tenant, Audit!Of(u)' # {}
               PROVE  \E x \in Audit!Of(u)' : \A j \in Audit!Of(u)' \ {x} : Audit!After(x, j)'
    BY DEF RowsHaveALast
  <2>1. CASE u # t
    <3>1. PICK x \in Audit!Of(u) : \A j \in Audit!Of(u) \ {x} : Audit!After(x, j)
      BY <1>8, <2>1 DEF RowsHaveALast
    <3>2. \A j \in Audit!Of(u) \ {x} : Audit!After(x, j)'
      BY <1>13, <3>1 DEF Audit!After
    <3> QED
      BY <1>8, <2>1, <3>1, <3>2
  <2>2. CASE u = t /\ Audit!Of(t) = {}
    BY <1>7, <2>2
  <2>3. CASE u = t /\ Audit!Of(t) # {}
    <3>1. PICK x \in Audit!Of(t) : \A j \in Audit!Of(t) \ {x} : Audit!After(x, j)
      BY <1>2, <2>3 DEF RowsHaveALast
    <3>2. \A j \in Audit!Of(t) : j \in 1 .. Len(auditRows) /\ auditRows'[j] = auditRows[j] /\ j < n
      BY <1>2, <1>13
    <3>3. \A j \in Audit!Of(t) \ {x} : Audit!After(x, j)'
      BY <3>1, <3>2 DEF Audit!After
    <3>4. CASE auditRows[x].at > r.at
      <4>1. Audit!After(x, n)'
        BY <1>5, <3>1, <3>2, <3>4 DEF Audit!After
      <4> QED
        BY <1>7, <2>3, <3>1, <3>3, <4>1
    <3>5. CASE ~(auditRows[x].at > r.at)
      <4>1. \A j \in Audit!Of(t) : auditRows[j].at <= auditRows[x].at
        BY <3>1, <3>2, RowFacts DEF Audit!After
      <4>2. \A j \in Audit!Of(t) : Audit!After(n, j)'
        BY <1>4, <1>5, <1>6, <3>1, <3>2, <3>5, <4>1, RowFacts DEF Audit!After
      <4> QED
        BY <1>7, <2>3, <4>2
    <3> QED
      BY <3>4, <3>5
  <2> QED
    BY <2>1, <2>2, <2>3
<1>15. RowsAreInOrder'
  <2> SUFFICES ASSUME NEW u \in Tenant \ overlapped'
               PROVE  /\ \A i, j \in Audit!Of(u)' : i < j => auditRows'[i].at <= auditRows'[j].at
                      /\ \A v \in Writer, i \in Audit!Of(u)' :
                           Logging(writer'[v]) /\ writer'[v].tenant = u => auditRows'[i].at <= writer'[v].at
    BY DEF RowsAreInOrder, Logging
  <2>1. CASE u # t
    BY <1>1, <1>8, <1>9, <1>13, <2>1 DEF RowsAreInOrder
  <2>2. CASE u = t
    <3>1. \A i \in Audit!Of(t) : auditRows'[i].at <= r.at
      BY <1>0, <1>1, <1>2, <1>4, <1>13, <2>2 DEF RowsAreInOrder
    <3>2. \A i, j \in Audit!Of(t) : i < j => auditRows'[i].at <= auditRows'[j].at
      BY <1>1, <1>13, <2>2 DEF RowsAreInOrder
    <3>3. \A i \in Audit!Of(t) : i < n /\ ~(n < i)
      BY <1>2, <1>6, <1>13
    <3>4. \A i, j \in Audit!Of(u)' : i < j => auditRows'[i].at <= auditRows'[j].at
      BY <1>5, <1>6, <1>7, <2>2, <3>1, <3>2, <3>3
    <3>5. \A v \in Writer : ~(Logging(writer'[v]) /\ writer'[v].tenant = u)
      BY <1>1, <1>10, <2>2
    <3> QED
      BY <3>4, <3>5
  <2> QED
    BY <2>1, <2>2
<1>16. LoggedOneByOne'
  BY <1>1, <1>9 DEF LoggedOneByOne
<1>17. RowsAreChained'
  <2> SUFFICES ASSUME NEW u \in Tenant \ overlapped'
               PROVE  /\ \A v \in Writer : writer'[v].pc = "insert" /\ writer'[v].tenant = u =>
                           IsLatest(writer'[v].prev, Audit!Of(u)')
                      /\ \A i \in Audit!Of(u)' : IsLatest(auditRows'[i].prev, {j \in Audit!Of(u)' : j < i})
    BY DEF RowsAreChained, IsLatest
  <2>1. CASE u # t
    <3>1. Audit!Of(u)' = Audit!Of(u) /\ u \in Tenant \ overlapped
      BY <1>1, <1>8, <2>1
    <3>2. \A v \in Writer : writer'[v].pc = "insert" /\ writer'[v].tenant = u => IsLatest(writer'[v].prev, Audit!Of(u))
      BY <1>9, <3>1 DEF RowsAreChained
    <3>3. \A i \in Audit!Of(u) : IsLatest(auditRows'[i].prev, {j \in Audit!Of(u) : j < i})
      BY <1>13, <3>1 DEF RowsAreChained
    <3> QED
      BY <3>1, <3>2, <3>3
  <2>2. CASE u = t
    <3>1. \A v \in Writer : writer'[v].pc = "insert" => writer'[v].tenant # t
      BY <1>1, <1>10, <2>2 DEF Logging
    <3>2. {j \in Audit!Of(t)' : j < n} = Audit!Of(t)
      BY <1>2, <1>6, <1>7, <1>13
    <3>3. IsLatest(auditRows'[n].prev, {j \in Audit!Of(t)' : j < n})
      BY <1>0, <1>1, <1>2, <1>4, <1>5, <2>2, <3>2 DEF RowsAreChained
    <3>4. ASSUME NEW i \in Audit!Of(t) PROVE IsLatest(auditRows'[i].prev, {j \in Audit!Of(t)' : j < i})
      <4>1. {j \in Audit!Of(t)' : j < i} = {j \in Audit!Of(t) : j < i}
        BY <1>2, <1>6, <1>7, <1>13
      <4> QED
        BY <1>1, <1>2, <1>13, <2>2, <4>1 DEF RowsAreChained
    <3> QED
      BY <1>7, <2>2, <3>1, <3>3, <3>4
  <2> QED
    BY <2>1, <2>2
<1> QED
  BY <1>11, <1>12, <1>14, <1>15, <1>16, <1>17

LEMMA AuditStep == AuditInv /\ [Next]_vars => AuditInv'
<1> SUFFICES ASSUME AuditInv, [Next]_vars PROVE AuditInv'
  OBVIOUS
<1>1. CASE UNCHANGED audit
  <2>1. Audit!TypeOK' /\ StampsArePast' /\ LoggedOneByOne'
    BY <1>1 DEF audit, AuditInv, Audit!TypeOK, StampsArePast, LoggedOneByOne
  <2>2. UNCHANGED <<auditRows, writer, overlapped>>
    BY <1>1 DEF audit
  <2>3. /\ \A t : Audit!Of(t)' = Audit!Of(t)
        /\ \A i, j : Audit!After(i, j)' <=> Audit!After(i, j)
    BY <2>2, RowsStay
  <2>4. RowsHaveALast'
    BY <2>3 DEF AuditInv, RowsHaveALast
  <2>5. RowsAreInOrder' /\ RowsAreChained'
    BY <2>2, <2>3 DEF AuditInv, RowsAreInOrder, RowsAreChained
  <2> QED
    BY <2>1, <2>4, <2>5 DEF AuditInv
<1>2. CASE Audit!Next
  BY <1>2, AuditTicks, AuditReads, AuditInserts, AuditFails, AuditBegins DEF Audit!Next
<1> QED
  BY <1>1, <1>2, AuditMoves

LEMMA AuditAgrees == AuditInv => Audit!ChainVerifies
<1> SUFFICES ASSUME AuditInv, NEW t \in Tenant \ overlapped, NEW i \in Audit!Of(t)
             PROVE  auditRows[i].prev = Audit!Last({j \in Audit!Of(t) : Audit!After(i, j)})
  BY DEF Audit!ChainVerifies, Audit!VerifyHashChain
<1>1. \A j \in Audit!Of(t) : Audit!After(i, j) <=> j < i
  <2>1. \A j \in Audit!Of(t) : j \in 1 .. Len(auditRows) /\ auditRows[j].at \in Nat
    BY RowFacts DEF AuditInv, Audit!Of
  <2> QED
    BY <2>1 DEF AuditInv, RowsAreInOrder, Audit!After
<1>2. {j \in Audit!Of(t) : Audit!After(i, j)} = {j \in Audit!Of(t) : j < i}
  BY <1>1
<1>3. IsLatest(auditRows[i].prev, {j \in Audit!Of(t) : j < i})
  BY DEF AuditInv, RowsAreChained
<1> QED
  BY <1>2, <1>3, LastIsLatest DEF AuditInv

-----------------------------------------------------------------------------
(* FlagOverrides *)

LEMMA FlagMoves == [Next]_vars => Flags!Next \/ UNCHANGED flags
BY DEF Next, At, Unless, vars

LEMMA FlagNumbers == TTL \in Nat
BY ServicesAssumption

FlagAnswer == [age : 0 .. TTL, off : BOOLEAN, failed : BOOLEAN, crossed : BOOLEAN]
FlagAsked == [pc : {"asked"}, scope : Scope]
FlagAnswered == [pc : {"answered"}, scope : Scope, off : BOOLEAN, failed : BOOLEAN, crossed : BOOLEAN]
FlagWriting == [pc : {"upsert", "clear", "audit"}, scope : Scope, off : BOOLEAN]

\* What was answered is still so, or counts as failed or crossed.
StillSo(x, s) == x.failed = TRUE \/ x.crossed = TRUE \/ x.off = flagOff[s]
AboutToClear(s) == \E w \in Write : flagWrite[w].pc = "clear" /\ flagWrite[w].scope = s

AnswersAreTrue == \A r \in Read : flagRead[r].pc = "answered" => StillSo(flagRead[r], flagRead[r].scope)
EntriesAreTrue == \A s \in Scope : Flags!Fresh(s) => StillSo(flagCache[s], s) \/ AboutToClear(s)

FlagInv == Flags!TypeOK /\ AnswersAreTrue /\ EntriesAreTrue

LEMMA FlagTypes ==
  Flags!TypeOK <=> /\ flagOff \in [Scope -> BOOLEAN] /\ storeUp \in BOOLEAN
                   /\ flagCache \in [Scope -> {Flags!NoEntry} \cup FlagAnswer]
                   /\ flagRead \in [Read -> {Flags!NoCall} \cup FlagAsked \cup FlagAnswered]
                   /\ flagWrite \in [Write -> {Flags!NoCall} \cup FlagWriting]
BY DEF Flags!TypeOK, FlagAnswer, FlagAsked, FlagAnswered, FlagWriting

LEMMA FlagRecords ==
  /\ Flags!NoCall.pc = "idle" /\ Flags!NoEntry.age = TTL
  /\ \A x \in FlagAsked : x.pc = "asked" /\ x.scope \in Scope
  /\ \A x \in FlagAnswered :
       /\ x.pc = "answered" /\ x.scope \in Scope
       /\ x.off \in BOOLEAN /\ x.failed \in BOOLEAN /\ x.crossed \in BOOLEAN
  /\ \A x \in FlagWriting : x.pc \in {"upsert", "clear", "audit"} /\ x.scope \in Scope /\ x.off \in BOOLEAN
  /\ \A x \in FlagAnswer : x.age \in 0 .. TTL
BY DEF FlagAsked, FlagAnswered, FlagWriting, FlagAnswer, Flags!NoCall, Flags!NoEntry

LEMMA FlagInit == Flags!Init => FlagInv
<1> SUFFICES ASSUME Flags!Init PROVE FlagInv
  OBVIOUS
<1>1. Flags!TypeOK
  BY FlagTypes DEF Flags!Init
<1>2. AnswersAreTrue /\ EntriesAreTrue
  BY FlagRecords DEF Flags!Init, AnswersAreTrue, EntriesAreTrue, Flags!Fresh
<1> QED
  BY <1>1, <1>2 DEF FlagInv

LEMMA FlagReads ==
  ASSUME FlagInv, NEW r \in Read, NEW s \in Scope, Flags!GetOverrides(r, s)
  PROVE  FlagInv'
<1> USE DEF FlagInv
<1> DEFINE x == [pc |-> "asked", scope |-> s]
<1>1. /\ flagRead' = [flagRead EXCEPT ![r] = x]
      /\ UNCHANGED <<flagOff, flagCache, flagWrite, storeUp>>
  BY DEF Flags!GetOverrides
<1>2. x \in FlagAsked
  BY DEF FlagAsked
<1> HIDE DEF x
<1>3. Flags!TypeOK'
  BY <1>1, <1>2, FlagTypes DEF Flags!TypeOK, FlagAnswer, FlagAsked, FlagAnswered, FlagWriting
<1>4. AnswersAreTrue'
  BY <1>1, <1>2, FlagTypes, FlagRecords DEF AnswersAreTrue, StillSo
<1>5. EntriesAreTrue'
  BY <1>1 DEF EntriesAreTrue, StillSo, AboutToClear, Flags!Fresh
<1> QED
  BY <1>3, <1>4, <1>5

LEMMA FlagAnswers ==
  ASSUME FlagInv, NEW r \in Read, Flags!ListOverrides(r)
  PROVE  FlagInv'
<1> USE DEF FlagInv
<1> DEFINE s == flagRead[r].scope
           x == [pc |-> "answered", scope |-> s, off |-> storeUp /\ flagOff[s], failed |-> ~storeUp, crossed |-> FALSE]
<1>1. /\ flagRead[r].pc = "asked" /\ flagRead' = [flagRead EXCEPT ![r] = x]
      /\ UNCHANGED <<flagOff, flagCache, flagWrite, storeUp>>
  BY DEF Flags!ListOverrides
<1>2. s \in Scope
  BY <1>1, FlagTypes, FlagRecords
<1>3. storeUp \in BOOLEAN /\ flagOff[s] \in BOOLEAN
  BY <1>2, FlagTypes
<1>4. x \in FlagAnswered /\ x.scope = s
  BY <1>2, Zenon DEF FlagAnswered
<1>5. StillSo(x, s)
  <2>1. CASE storeUp = TRUE
    <3>1. x.off = flagOff[s]
      BY <1>3, <2>1
    <3> QED
      BY <3>1 DEF StillSo
  <2>2. CASE storeUp = FALSE
    BY <2>2 DEF StillSo
  <2> QED
    BY <1>3, <2>1, <2>2
<1> HIDE DEF x, s
<1>6. Flags!TypeOK'
  BY <1>1, <1>4, FlagTypes DEF Flags!TypeOK, FlagAnswer, FlagAsked, FlagAnswered, FlagWriting
<1>7. AnswersAreTrue'
  <2>1. \A q \in Read : flagRead'[q] = IF q = r THEN x ELSE flagRead[q]
    BY <1>1, FlagTypes
  <2>2. StillSo(x, x.scope)
    BY <1>4, <1>5
  <2> QED
    BY <1>1, <2>1, <2>2 DEF AnswersAreTrue, StillSo
<1>8. EntriesAreTrue'
  BY <1>1 DEF EntriesAreTrue, StillSo, AboutToClear, Flags!Fresh
<1> QED
  BY <1>6, <1>7, <1>8

LEMMA FlagCaches ==
  ASSUME FlagInv, NEW r \in Read, Flags!CacheAnswer(r)
  PROVE  FlagInv'
<1> USE DEF FlagInv
<1>0. PICK s, x :
        /\ s = flagRead[r].scope
        /\ x = [age |-> 0, off |-> flagRead[r].off, failed |-> flagRead[r].failed, crossed |-> flagRead[r].crossed]
  OBVIOUS
<1>1. /\ flagRead[r].pc = "answered"
      /\ flagRead' = [flagRead EXCEPT ![r] = Flags!NoCall] /\ flagCache' = [flagCache EXCEPT ![s] = x]
      /\ UNCHANGED <<flagOff, flagWrite, storeUp>>
  BY <1>0 DEF Flags!CacheAnswer
<1>2. flagRead[r] \in FlagAnswered
  BY <1>1, FlagTypes, FlagRecords
<1>3. s \in Scope /\ x \in FlagAnswer
  <2>1. 0 \in 0 .. TTL
    BY FlagNumbers
  <2>2. flagRead[r].off \in BOOLEAN /\ flagRead[r].failed \in BOOLEAN /\ flagRead[r].crossed \in BOOLEAN /\ s \in Scope
    BY <1>0, <1>2, FlagRecords
  <2> QED
    BY <1>0, <2>1, <2>2, Zenon DEF FlagAnswer
<1>4. StillSo(x, s)
  BY <1>0, <1>1 DEF AnswersAreTrue, StillSo
<1>5. Flags!TypeOK'
  BY <1>1, <1>3, FlagTypes DEF Flags!TypeOK, FlagAnswer, FlagAsked, FlagAnswered, FlagWriting
<1>6. AnswersAreTrue'
  BY <1>1, FlagTypes, FlagRecords DEF AnswersAreTrue, StillSo
<1>7. EntriesAreTrue'
  <2>1. \A z \in Scope : flagCache'[z] = IF z = s THEN x ELSE flagCache[z]
    BY <1>1, FlagTypes
  <2>2. \A z \in Scope : z # s /\ Flags!Fresh(z)' => StillSo(flagCache[z], z)' \/ AboutToClear(z)'
    BY <1>1, <2>1 DEF EntriesAreTrue, StillSo, AboutToClear, Flags!Fresh
  <2>3. s \in Scope => StillSo(flagCache[s], s)'
    BY <1>1, <1>4, <2>1 DEF StillSo
  <2> QED
    BY <2>2, <2>3 DEF EntriesAreTrue
<1> QED
  BY <1>5, <1>6, <1>7

\* A write begins or its event is taken or refused: nothing is about to clear that was not.
LEMMA FlagWrites ==
  ASSUME FlagInv, NEW w \in Write,
         Flags!Audit(w) \/ \E s \in Scope, v \in BOOLEAN : Flags!SetOverride(w, s, v)
  PROVE  FlagInv'
<1> USE DEF FlagInv
<1>1. /\ UNCHANGED <<flagOff, flagCache, flagRead, storeUp>>
      /\ flagWrite[w].pc # "clear"
  BY FlagRecords DEF Flags!Audit, Flags!SetOverride
<1>2. flagWrite' \in [Write -> {Flags!NoCall} \cup FlagWriting] /\ \A q \in Write : q # w => flagWrite'[q] = flagWrite[q]
  <2>1. CASE Flags!Audit(w)
    BY <2>1, FlagTypes DEF Flags!Audit
  <2>2. ASSUME NEW s \in Scope, NEW v \in BOOLEAN, Flags!SetOverride(w, s, v)
        PROVE  flagWrite' \in [Write -> {Flags!NoCall} \cup FlagWriting] /\ \A q \in Write : q # w => flagWrite'[q] = flagWrite[q]
    <3> DEFINE x == [pc |-> "upsert", scope |-> s, off |-> v]
    <3>1. x \in FlagWriting
      BY Zenon DEF FlagWriting
    <3>2. flagWrite' = [flagWrite EXCEPT ![w] = x]
      BY <2>2 DEF Flags!SetOverride
    <3> HIDE DEF x
    <3> QED
      BY <3>1, <3>2, FlagTypes
  <2> QED
    BY <2>1, <2>2
<1>3. Flags!TypeOK'
  BY <1>1, <1>2, FlagTypes DEF Flags!TypeOK, FlagAnswer, FlagAsked, FlagAnswered, FlagWriting
<1>4. AnswersAreTrue'
  BY <1>1 DEF AnswersAreTrue, StillSo
<1>5. EntriesAreTrue'
  <2>1. \A s : AboutToClear(s) => AboutToClear(s)'
    BY <1>1, <1>2 DEF AboutToClear
  <2> QED
    BY <1>1, <2>1 DEF EntriesAreTrue, StillSo, Flags!Fresh
<1> QED
  BY <1>3, <1>4, <1>5

LEMMA FlagClears ==
  ASSUME FlagInv, NEW w \in Write, Flags!ClearCache(w)
  PROVE  FlagInv'
<1> USE DEF FlagInv
<1>0. PICK s, x : s = flagWrite[w].scope /\ x = [flagWrite[w] EXCEPT !.pc = "audit"]
  OBVIOUS
<1>1. /\ flagWrite[w].pc = "clear" /\ flagCache' = [flagCache EXCEPT ![s] = Flags!NoEntry]
      /\ flagWrite' = [flagWrite EXCEPT ![w] = x] /\ UNCHANGED <<flagOff, flagRead, storeUp>>
  BY <1>0 DEF Flags!ClearCache
<1>2. flagWrite[w] \in FlagWriting /\ s \in Scope
  BY <1>0, <1>1, FlagTypes, FlagRecords
<1>3. x \in FlagWriting
  BY <1>0, <1>2 DEF FlagWriting
<1>4. Flags!TypeOK'
  BY <1>1, <1>3, FlagTypes DEF Flags!TypeOK, FlagAnswer, FlagAsked, FlagAnswered, FlagWriting
<1>5. AnswersAreTrue'
  BY <1>1 DEF AnswersAreTrue, StillSo
<1>6. EntriesAreTrue'
  <2>1. \A z \in Scope : z # s => flagCache'[z] = flagCache[z]
    BY <1>1, FlagTypes
  <2>2. ~Flags!Fresh(s)'
    BY <1>1, <1>2, FlagTypes DEF Flags!Fresh
  <2>3. \A z \in Scope : z # s /\ AboutToClear(z) => AboutToClear(z)'
    <3>1. \A q \in Write : q # w => flagWrite'[q] = flagWrite[q]
      BY <1>1, FlagTypes
    <3> QED
      BY <1>0, <3>1 DEF AboutToClear
  <2> QED
    BY <1>1, <2>1, <2>2, <2>3 DEF EntriesAreTrue, StillSo, Flags!Fresh
<1> QED
  BY <1>4, <1>5, <1>6

\* The row changes: what was answered about it counts as crossed from now on.
LEMMA FlagStores ==
  ASSUME FlagInv, NEW w \in Write, flagWrite[w].pc = "upsert", Flags!Store(w)
  PROVE  /\ flagOff' \in [Scope -> BOOLEAN]
         /\ \A z \in Scope : z # flagWrite[w].scope => flagOff'[z] = flagOff[z]
         /\ flagRead' \in [Read -> {Flags!NoCall} \cup FlagAsked \cup FlagAnswered]
         /\ AnswersAreTrue'
<1> USE DEF FlagInv
<1>0. PICK s : s = flagWrite[w].scope
  OBVIOUS
<1>1. flagWrite[w] \in FlagWriting
  BY FlagTypes, FlagRecords
<1>2. s \in Scope /\ flagWrite[w].off \in BOOLEAN
  BY <1>0, <1>1, FlagRecords
<1>3. flagOff' = [flagOff EXCEPT ![s] = flagWrite[w].off]
  BY <1>0 DEF Flags!Store
<1>4. flagOff' \in [Scope -> BOOLEAN] /\ \A z \in Scope : z # s => flagOff'[z] = flagOff[z]
  BY <1>2, <1>3, FlagTypes
<1>5. flagRead' = [r \in Read |-> IF flagRead[r].pc = "answered" /\ flagRead[r].scope = s
                                 THEN [flagRead[r] EXCEPT !.crossed = TRUE] ELSE flagRead[r]]
  BY <1>0 DEF Flags!Store
<1>6. ASSUME NEW r \in Read, flagRead[r].pc = "answered", flagRead[r].scope = s
      PROVE  flagRead'[r] \in FlagAnswered /\ StillSo(flagRead[r], s)'
  <2>1. flagRead[r] \in FlagAnswered
    BY <1>6, FlagTypes, FlagRecords
  <2>2. flagRead'[r] = [flagRead[r] EXCEPT !.crossed = TRUE]
    BY <1>5, <1>6
  <2>3. flagRead'[r] \in FlagAnswered
    BY <2>1, <2>2 DEF FlagAnswered
  <2>4. flagRead'[r].crossed = TRUE
    BY <2>1, <2>2 DEF FlagAnswered
  <2> QED
    BY <2>3, <2>4 DEF StillSo
<1>7. ASSUME NEW r \in Read, ~(flagRead[r].pc = "answered" /\ flagRead[r].scope = s)
      PROVE  flagRead'[r] = flagRead[r]
  BY <1>5, <1>7
<1>8. flagRead' \in [Read -> {Flags!NoCall} \cup FlagAsked \cup FlagAnswered]
  <2>1. \A r \in Read : flagRead'[r] \in {Flags!NoCall} \cup FlagAsked \cup FlagAnswered
    BY <1>6, <1>7, FlagTypes
  <2> QED
    BY <1>5, <2>1
<1>9. ASSUME NEW r \in Read, flagRead'[r].pc = "answered" PROVE StillSo(flagRead[r], flagRead[r].scope)'
  <2>1. CASE flagRead[r].pc = "answered" /\ flagRead[r].scope = s
    <3>1. flagRead[r] \in FlagAnswered /\ flagRead'[r] = [flagRead[r] EXCEPT !.crossed = TRUE]
      BY <1>5, <2>1, FlagTypes, FlagRecords
    <3>2. flagRead'[r].scope = s
      BY <2>1, <3>1 DEF FlagAnswered
    <3> QED
      BY <1>6, <2>1, <3>2 DEF StillSo
  <2>2. CASE ~(flagRead[r].pc = "answered" /\ flagRead[r].scope = s)
    <3>1. flagRead'[r] = flagRead[r] /\ flagRead[r].scope # s /\ flagRead[r] \in FlagAnswered
      BY <1>7, <1>9, <2>2, FlagTypes, FlagRecords
    <3>2. flagOff'[flagRead[r].scope] = flagOff[flagRead[r].scope]
      BY <1>4, <3>1, FlagRecords
    <3> QED
      BY <1>9, <3>1, <3>2 DEF AnswersAreTrue, StillSo
  <2> QED
    BY <2>1, <2>2
<1> QED
  BY <1>0, <1>4, <1>8, <1>9 DEF AnswersAreTrue, StillSo

LEMMA FlagUpserts ==
  ASSUME FlagInv, NEW w \in Write, Flags!Upsert(w)
  PROVE  FlagInv'
<1> USE DEF FlagInv
<1>0. PICK s, x : s = flagWrite[w].scope /\ x = [flagWrite[w] EXCEPT !.pc = "clear"]
  OBVIOUS
<1>1. /\ flagWrite[w].pc = "upsert" /\ Flags!Store(w)
      /\ flagWrite' = [flagWrite EXCEPT ![w] = x] /\ UNCHANGED <<flagCache, storeUp>>
  BY <1>0 DEF Flags!Upsert
<1>2. flagWrite[w] \in FlagWriting
  BY <1>1, FlagTypes, FlagRecords
<1>3. x \in FlagWriting /\ x.pc = "clear" /\ x.scope = s
  BY <1>0, <1>2 DEF FlagWriting
<1>4. /\ flagOff' \in [Scope -> BOOLEAN] /\ \A z \in Scope : z # s => flagOff'[z] = flagOff[z]
      /\ flagRead' \in [Read -> {Flags!NoCall} \cup FlagAsked \cup FlagAnswered]
      /\ AnswersAreTrue'
  BY <1>0, <1>1, FlagStores
<1>5. \A q \in Write : flagWrite'[q] = IF q = w THEN x ELSE flagWrite[q]
  BY <1>1, FlagTypes
<1>6. Flags!TypeOK'
  BY <1>1, <1>3, <1>4, FlagTypes DEF Flags!TypeOK, FlagAnswer, FlagAsked, FlagAnswered, FlagWriting
<1>7. EntriesAreTrue'
  <2>1. AboutToClear(s)'
    BY <1>3, <1>5 DEF AboutToClear
  <2>2. \A z \in Scope : AboutToClear(z) => AboutToClear(z)'
    BY <1>1, <1>5 DEF AboutToClear
  <2>3. \A z \in Scope : z # s /\ StillSo(flagCache[z], z) => StillSo(flagCache[z], z)'
    BY <1>1, <1>4 DEF StillSo
  <2>4. \A z \in Scope : Flags!Fresh(z)' => Flags!Fresh(z)
    BY <1>1 DEF Flags!Fresh
  <2> QED
    BY <2>1, <2>2, <2>3, <2>4 DEF EntriesAreTrue
<1> QED
  BY <1>4, <1>6, <1>7

LEMMA FlagRejects ==
  ASSUME FlagInv, NEW w \in Write, Flags!UpsertRejects(w)
  PROVE  FlagInv'
<1> USE DEF FlagInv
<1>0. PICK s : s = flagWrite[w].scope
  OBVIOUS
<1>1. /\ flagWrite[w].pc = "upsert" /\ flagWrite' = [flagWrite EXCEPT ![w] = Flags!NoCall]
      /\ UNCHANGED storeUp
  BY DEF Flags!UpsertRejects
<1>2. \A z \in Scope : AboutToClear(z) => AboutToClear(z)'
  <2>1. \A q \in Write : q # w => flagWrite'[q] = flagWrite[q]
    BY <1>1, FlagTypes
  <2> QED
    BY <1>1, <2>1 DEF AboutToClear
<1>3. CASE UNCHANGED <<flagOff, flagCache, flagRead>>
  <2>1. Flags!TypeOK'
    BY <1>1, <1>3, FlagTypes DEF Flags!TypeOK, FlagAnswer, FlagAsked, FlagAnswered, FlagWriting
  <2>2. AnswersAreTrue'
    BY <1>3 DEF AnswersAreTrue, StillSo
  <2>3. EntriesAreTrue'
    BY <1>2, <1>3 DEF EntriesAreTrue, StillSo, Flags!Fresh
  <2> QED
    BY <2>1, <2>2, <2>3
<1>4. ASSUME Flags!Store(w),
             flagCache' = [z \in Scope |-> IF z = s /\ flagCache[z] # Flags!NoEntry
                                           THEN [flagCache[z] EXCEPT !.crossed = TRUE] ELSE flagCache[z]]
      PROVE  FlagInv'
  <2>1. /\ flagOff' \in [Scope -> BOOLEAN] /\ \A z \in Scope : z # s => flagOff'[z] = flagOff[z]
        /\ flagRead' \in [Read -> {Flags!NoCall} \cup FlagAsked \cup FlagAnswered]
        /\ AnswersAreTrue'
    BY <1>0, <1>1, <1>4, FlagStores
  <2>2. ASSUME NEW z \in Scope, z = s, flagCache[z] # Flags!NoEntry
        PROVE  /\ flagCache'[z] \in FlagAnswer /\ StillSo(flagCache[z], z)'
    <3>1. flagCache[z] \in FlagAnswer /\ flagCache'[z] = [flagCache[z] EXCEPT !.crossed = TRUE]
      BY <1>4, <2>2, FlagTypes
    <3>2. flagCache'[z] \in FlagAnswer
      BY <3>1 DEF FlagAnswer
    <3>3. flagCache'[z].crossed = TRUE
      BY <3>1 DEF FlagAnswer
    <3> QED
      BY <3>2, <3>3 DEF StillSo
  <2>3. ASSUME NEW z \in Scope, ~(z = s /\ flagCache[z] # Flags!NoEntry) PROVE flagCache'[z] = flagCache[z]
    BY <1>4, <2>3
  <2>4. flagCache' \in [Scope -> {Flags!NoEntry} \cup FlagAnswer]
    <3>1. \A z \in Scope : flagCache'[z] \in {Flags!NoEntry} \cup FlagAnswer
      BY <2>2, <2>3, FlagTypes
    <3> QED
      BY <1>4, <3>1
  <2>5. Flags!TypeOK'
    BY <1>1, <2>1, <2>4, FlagTypes DEF Flags!TypeOK, FlagAnswer, FlagAsked, FlagAnswered, FlagWriting
  <2>6. ASSUME NEW z \in Scope, Flags!Fresh(z)' PROVE StillSo(flagCache[z], z)' \/ AboutToClear(z)'
    <3>1. CASE z = s /\ flagCache[z] # Flags!NoEntry
      BY <2>2, <3>1
    <3>2. CASE ~(z = s /\ flagCache[z] # Flags!NoEntry)
      <4>1. Flags!Fresh(z) /\ z # s /\ flagCache'[z] = flagCache[z]
        BY <2>3, <2>6, <3>2 DEF Flags!Fresh
      <4>2. StillSo(flagCache[z], z) => StillSo(flagCache[z], z)'
        BY <2>1, <4>1 DEF StillSo
      <4> QED
        BY <1>2, <4>1, <4>2 DEF EntriesAreTrue
    <3> QED
      BY <3>1, <3>2
  <2> QED
    BY <2>1, <2>5, <2>6 DEF EntriesAreTrue
<1> QED
  BY <1>0, <1>3, <1>4 DEF Flags!UpsertRejects

\* An entry only grows older; what has expired stays so.
LEMMA FlagTicks ==
  ASSUME FlagInv, Flags!Tick
  PROVE  FlagInv'
<1> USE DEF FlagInv
<1> DEFINE older(x) == [x EXCEPT !.age = IF @ < TTL THEN @ + 1 ELSE @]
<1>1. /\ flagCache' = [s \in Scope |-> older(flagCache[s])]
      /\ UNCHANGED <<flagOff, flagRead, flagWrite, storeUp>>
  BY DEF Flags!Tick
<1>2. older(Flags!NoEntry) = Flags!NoEntry
  BY FlagNumbers DEF Flags!NoEntry
<1>3. ASSUME NEW x \in FlagAnswer
      PROVE  /\ older(x) \in FlagAnswer
             /\ older(x).age < TTL => x.age < TTL
             /\ older(x).off = x.off /\ older(x).failed = x.failed /\ older(x).crossed = x.crossed
  <2>1. TTL \in Nat
    BY FlagNumbers
  <2> QED
    BY <2>1 DEF FlagAnswer
<1> HIDE DEF older
<1>4. flagCache' \in [Scope -> {Flags!NoEntry} \cup FlagAnswer]
  <2>1. \A s \in Scope : flagCache[s] = Flags!NoEntry \/ flagCache[s] \in FlagAnswer
    BY FlagTypes
  <2>2. \A s \in Scope : older(flagCache[s]) \in {Flags!NoEntry} \cup FlagAnswer
    BY <1>2, <1>3, <2>1
  <2> QED
    BY <1>1, <2>2
<1>5. Flags!TypeOK'
  BY <1>1, <1>4, FlagTypes DEF Flags!TypeOK, FlagAnswer, FlagAsked, FlagAnswered, FlagWriting
<1>6. AnswersAreTrue'
  BY <1>1 DEF AnswersAreTrue, StillSo
<1>7. ASSUME NEW s \in Scope, Flags!Fresh(s)' PROVE StillSo(flagCache[s], s)' \/ AboutToClear(s)'
  <2>1. flagCache'[s] = older(flagCache[s])
    BY <1>1
  <2>2. flagCache[s] \in FlagAnswer
    <3>1. flagCache[s] = Flags!NoEntry \/ flagCache[s] \in FlagAnswer
      BY FlagTypes
    <3>2. flagCache[s] # Flags!NoEntry
      BY <1>2, <1>7, <2>1 DEF Flags!Fresh
    <3> QED
      BY <3>1, <3>2
  <2>3. Flags!Fresh(s)
    <3>1. older(flagCache[s]).age < TTL /\ flagCache[s] # Flags!NoEntry
      BY <1>2, <1>7, <2>1 DEF Flags!Fresh
    <3> QED
      BY <1>3, <2>2, <3>1 DEF Flags!Fresh
  <2>4. StillSo(flagCache[s], s) => StillSo(flagCache[s], s)'
    BY <1>1, <1>3, <2>1, <2>2 DEF StillSo
  <2>5. AboutToClear(s) => AboutToClear(s)'
    BY <1>1 DEF AboutToClear
  <2> QED
    BY <2>3, <2>4, <2>5 DEF EntriesAreTrue
<1> QED
  BY <1>5, <1>6, <1>7 DEF EntriesAreTrue

LEMMA FlagStep == FlagInv /\ [Next]_vars => FlagInv'
<1> SUFFICES ASSUME FlagInv, [Next]_vars PROVE FlagInv'
  OBVIOUS
<1>1. ASSUME UNCHANGED <<flagOff, flagCache, flagRead, flagWrite>>, storeUp' \in BOOLEAN PROVE FlagInv'
  <2>1. Flags!TypeOK'
    BY <1>1, FlagTypes, Zenon
       DEF FlagInv, Flags!TypeOK, FlagAnswer, FlagAsked, FlagAnswered, FlagWriting
  <2>2. AnswersAreTrue' /\ EntriesAreTrue'
    BY <1>1 DEF FlagInv, AnswersAreTrue, EntriesAreTrue, StillSo, AboutToClear, Flags!Fresh
  <2> QED
    BY <2>1, <2>2 DEF FlagInv
<1>2. CASE UNCHANGED flags
  <2>1. storeUp' \in BOOLEAN
    BY <1>2, FlagTypes DEF FlagInv, flags
  <2> QED
    BY <1>1, <1>2, <2>1 DEF flags
<1>3. CASE Flags!StoreChanges
  <2>1. storeUp' \in BOOLEAN
    BY <1>3, Zenon DEF Flags!StoreChanges
  <2> QED
    BY <1>1, <1>3, <2>1 DEF Flags!StoreChanges
<1>4. CASE Flags!Tick
  BY <1>4, FlagTicks
<1>5. ASSUME NEW r \in Read,
             Flags!ListOverrides(r) \/ Flags!CacheAnswer(r) \/ \E s \in Scope : Flags!GetOverrides(r, s)
      PROVE  FlagInv'
  BY <1>5, FlagReads, FlagAnswers, FlagCaches
<1>6. ASSUME NEW w \in Write,
             \/ Flags!Upsert(w) \/ Flags!ClearCache(w) \/ Flags!Audit(w) \/ Flags!UpsertRejects(w)
             \/ \E s \in Scope, v \in BOOLEAN : Flags!SetOverride(w, s, v)
      PROVE  FlagInv'
  BY <1>6, FlagUpserts, FlagClears, FlagWrites, FlagRejects
<1> QED
  BY <1>2, <1>3, <1>4, <1>5, <1>6, FlagMoves DEF Flags!Next

LEMMA FlagAgrees == FlagInv => Flags!CacheIsTrue
<1> SUFFICES ASSUME FlagInv, NEW s \in Scope, Flags!Fresh(s), flagCache[s].off # flagOff[s]
             PROVE  \/ flagCache[s].failed \/ flagCache[s].crossed
                    \/ \E w \in Write : flagWrite[w].pc = "clear" /\ flagWrite[w].scope = s
  BY Zenon DEF Flags!CacheIsTrue
<1>1. StillSo(flagCache[s], s) \/ AboutToClear(s)
  BY DEF FlagInv, EntriesAreTrue
<1>2. CASE AboutToClear(s)
  BY <1>2, Zenon DEF AboutToClear
<1>3. CASE StillSo(flagCache[s], s)
  BY <1>3, Zenon DEF StillSo
<1> QED
  BY <1>1, <1>2, <1>3

-----------------------------------------------------------------------------
(* TaskFeedback *)

LEMMA GrowthMoves == [Next]_vars => Growth!Next \/ UNCHANGED growth
BY DEF Next, At, Unless, vars

LEMMA SetHasLeast == ASSUME NEW S \in SUBSET Nat, S # {} PROVE \E j \in S : \A k \in S : j <= k
<1>1. PICK j \in S : \A k \in S : ~(<<k, j>> \in OpToRel(<, Nat))
  BY NatLessThanWellFounded, WFMin, Zenon
<1>2. \A k \in S : ~(k < j)
  BY <1>1 DEF OpToRel
<1> QED
  BY <1>2

FeedbackPromoting == [pc : {"promote"}, at : Growth!Skill, listed : [Growth!Skill -> Nat]]
FeedbackBusy == {Growth!NoFeedback} \cup [pc : {"cv", "skills"}]

GrowthTypes ==
  /\ level \in [Growth!Skill -> Nat] /\ raised \in [Growth!Skill -> Nat]
  /\ entries \in Nat /\ listCrossed \in BOOLEAN
  /\ feedback \in [Feedback -> FeedbackBusy \cup FeedbackPromoting]

\* The feedbacks whose entry may still raise the first skill, ...
MayRaise == {f \in Feedback : \/ feedback[f].pc = "skills"
                              \/ feedback[f].pc = "promote" /\ feedback[f].at = 1}

\* ... for which there is room above every level they start from.
LevelsHaveRoom ==
  /\ IsFiniteSet(MayRaise)
  /\ level[1] + Cardinality(MayRaise) <= entries
  /\ \A f \in MayRaise : feedback[f].pc = "promote" => feedback[f].listed[1] + Cardinality(MayRaise) <= entries

\* Where no feedbacks overlap at the promotions, what the only one has listed and not
\* yet promoted is so.
LevelsAreKept ==
  ~listCrossed =>
    /\ level = raised
    /\ \A f, g \in Feedback : feedback[f].pc = "promote" /\ feedback[g].pc = "promote" => f = g
    /\ \A f \in Feedback : feedback[f].pc = "promote" =>
         \A j \in Growth!Skill : j >= feedback[f].at => feedback[f].listed[j] = level[j]

GrowthInv == GrowthTypes /\ LevelsHaveRoom /\ LevelsAreKept

LEMMA GrowthRecords ==
  /\ 1 \in Growth!Skill /\ Growth!Skill \subseteq Nat
  /\ Growth!NoFeedback.pc = "idle" /\ Growth!NoFeedback \in FeedbackBusy
  /\ [pc |-> "cv"] \in FeedbackBusy /\ [pc |-> "skills"] \in FeedbackBusy
  /\ \A x \in FeedbackBusy : x.pc \in {"idle", "cv", "skills"}
  /\ \A x \in FeedbackPromoting : x.pc = "promote" /\ x.at \in Growth!Skill /\ x.listed \in [Growth!Skill -> Nat]
BY ServicesAssumption DEF FeedbackBusy, FeedbackPromoting, Growth!NoFeedback, Growth!Skill

\* It goes on with a later skill, or is at its end.
GoesOn(x, listed, i) ==
  \/ x = Growth!NoFeedback
  \/ x \in FeedbackPromoting /\ x.listed = listed /\ x.at >= i

LEMMA GrowthGoesOn ==
  ASSUME NEW f, NEW listed \in [Growth!Skill -> Nat], NEW i \in Nat \ {0}, Growth!Promotes(f, listed, i)
  PROVE  \E x : GoesOn(x, listed, i) /\ feedback' = [feedback EXCEPT ![f] = x]
<1> DEFINE rest == {j \in i .. Skills : j <= MaxPromotions /\ listed[j] < Top}
           least == CHOOSE j \in rest : \A k \in rest : j <= k
           x == [pc |-> "promote", listed |-> listed, at |-> least]
<1>1. Growth!Becomes(f, IF rest = {} THEN Growth!NoFeedback ELSE x)
  BY DEF Growth!Promotes
<1>2. CASE rest = {}
  BY <1>1, <1>2 DEF GoesOn, Growth!Becomes
<1>3. CASE rest # {}
  <2>1. rest \in SUBSET Nat
    BY ServicesAssumption
  <2>2. least \in rest
    <3> HIDE DEF rest
    <3>1. \E j \in rest : \A k \in rest : j <= k
      BY <1>3, <2>1, SetHasLeast
    <3> QED
      BY <3>1
  <2>3. least \in Growth!Skill /\ least >= i
    BY <2>2, ServicesAssumption DEF Growth!Skill
  <2> HIDE DEF least, rest
  <2>4. GoesOn(x, listed, i)
    BY <2>3 DEF GoesOn, FeedbackPromoting
  <2> QED
    BY <1>1, <1>3, <2>4 DEF Growth!Becomes
<1> QED
  BY <1>2, <1>3

LEMMA GrowthInit == Growth!Init => GrowthInv
<1> SUFFICES ASSUME Growth!Init PROVE GrowthInv
  OBVIOUS
<1>1. GrowthTypes
  <2>1. level \in [Growth!Skill -> Nat] /\ raised = level
    BY DEF Growth!Init
  <2> QED
    BY <2>1, GrowthRecords DEF Growth!Init, GrowthTypes
<1>2. MayRaise = {}
  BY GrowthRecords DEF Growth!Init, MayRaise
<1>3. LevelsHaveRoom
  BY <1>2, FS_EmptySet, GrowthRecords DEF Growth!Init, LevelsHaveRoom
<1>4. LevelsAreKept
  BY GrowthRecords DEF Growth!Init, LevelsAreKept
<1> QED
  BY <1>1, <1>3, <1>4 DEF GrowthInv

\* One feedback moves and the CV grows no less than the number that may raise the level.
LEMMA RoomIsKept ==
  ASSUME GrowthInv, NEW f \in Feedback, NEW x, feedback' = [feedback EXCEPT ![f] = x],
         level' = level, entries' \in Nat,
         \/ entries' = entries + 1
         \/ entries' >= entries /\ (f \in MayRaise \/ f \notin MayRaise'),
         x.pc = "promote" => feedback[f].pc = "skills" /\ x.listed = level
  PROVE  LevelsHaveRoom'
<1> USE DEF GrowthInv
<1>1. \A g \in Feedback : feedback'[g] = IF g = f THEN x ELSE feedback[g]
  BY DEF GrowthTypes
<1>2. \A g \in Feedback : g # f => (g \in MayRaise' <=> g \in MayRaise)
  BY <1>1 DEF MayRaise
<1>3. \/ MayRaise' = MayRaise \/ MayRaise' = MayRaise \cup {f} \/ MayRaise' = MayRaise \ {f}
  <2>1. MayRaise \subseteq Feedback /\ MayRaise' \subseteq Feedback
    BY DEF MayRaise
  <2> QED
    BY <1>2, <2>1
<1>4. /\ IsFiniteSet(MayRaise')
      /\ Cardinality(MayRaise') \in Nat /\ Cardinality(MayRaise) \in Nat
      /\ Cardinality(MayRaise') <= Cardinality(MayRaise) + 1
      /\ (f \in MayRaise \/ f \notin MayRaise') => Cardinality(MayRaise') <= Cardinality(MayRaise)
  BY <1>3, FS_AddElement, FS_RemoveElement, FS_CardinalityType DEF LevelsHaveRoom
<1>5. Cardinality(MayRaise') + entries <= Cardinality(MayRaise) + entries'
  BY <1>4 DEF GrowthTypes
<1>6. level[1] \in Nat /\ entries \in Nat
  BY GrowthRecords DEF GrowthTypes
<1>7. level'[1] + Cardinality(MayRaise') <= entries'
  BY <1>4, <1>5, <1>6 DEF LevelsHaveRoom
<1>8. ASSUME NEW g \in MayRaise', feedback'[g].pc = "promote"
      PROVE  feedback'[g].listed[1] + Cardinality(MayRaise') <= entries'
  <2>1. CASE g = f
    BY <1>1, <1>7, <1>8, <2>1 DEF MayRaise
  <2>2. CASE g # f
    <3>1. g \in Feedback /\ g \in MayRaise /\ feedback'[g] = feedback[g]
      BY <1>1, <1>2, <1>8, <2>2 DEF MayRaise
    <3>2. feedback[g].listed[1] \in Nat /\ feedback[g].listed[1] + Cardinality(MayRaise) <= entries
      BY <1>8, <3>1, GrowthRecords DEF LevelsHaveRoom, GrowthTypes
    <3> QED
      BY <1>4, <1>5, <1>6, <3>1, <3>2
  <2> QED
    BY <2>1, <2>2
<1> QED
  BY <1>4, <1>7, <1>8 DEF LevelsHaveRoom

\* A feedback that has not come to its promotions, or does not go on with them, moves.
LEMMA FeedbackMoves ==
  ASSUME GrowthInv, NEW f \in Feedback, NEW x \in FeedbackBusy,
         feedback' = [feedback EXCEPT ![f] = x], UNCHANGED <<level, raised, listCrossed>>, entries' \in Nat,
         \/ entries' = entries + 1
         \/ entries' >= entries /\ x.pc # "skills"
  PROVE  GrowthInv'
<1> USE DEF GrowthInv
<1>1. \A g \in Feedback : feedback'[g] = IF g = f THEN x ELSE feedback[g]
  BY DEF GrowthTypes
<1>2. x.pc # "promote"
  BY GrowthRecords
<1>3. GrowthTypes'
  BY DEF GrowthTypes
<1>4. x.pc # "skills" => f \notin MayRaise'
  BY <1>1, <1>2 DEF MayRaise
<1>5. LevelsHaveRoom'
  BY <1>2, <1>4, RoomIsKept
<1>6. LevelsAreKept'
  <2>1. ~listCrossed' => ~listCrossed
    BY Zenon
  <2> QED
    BY <1>1, <1>2, <2>1 DEF LevelsAreKept
<1> QED
  BY <1>3, <1>5, <1>6

LEMMA GrowthLists ==
  ASSUME GrowthInv, NEW f \in Feedback, Growth!ListByCharacter(f)
  PROVE  GrowthInv'
<1> USE DEF GrowthInv
<1>1. /\ feedback[f].pc = "skills" /\ UNCHANGED <<level, entries, raised>>
      /\ Growth!Promotes(f, level, 1)
      /\ listCrossed' = (listCrossed \/ \E o \in Feedback : feedback[o].pc = "promote")
  BY Zenon DEF Growth!ListByCharacter
<1>2. PICK x : GoesOn(x, level, 1) /\ feedback' = [feedback EXCEPT ![f] = x]
  BY <1>1, GrowthGoesOn DEF GrowthTypes
<1>3. \A g \in Feedback : feedback'[g] = IF g = f THEN x ELSE feedback[g]
  BY <1>2 DEF GrowthTypes
<1>4. listCrossed' \in BOOLEAN
  BY <1>1, Zenon
<1>5. GrowthTypes'
  BY <1>1, <1>2, <1>4, GrowthRecords DEF GrowthTypes, GoesOn
<1>6. LevelsHaveRoom'
  <2>1. f \in MayRaise
    BY <1>1 DEF MayRaise
  <2>2. x.pc = "promote" => x.listed = level
    BY <1>2, GrowthRecords DEF GoesOn
  <2>3. entries' \in Nat /\ entries' >= entries
    BY <1>1 DEF GrowthTypes
  <2> QED
    BY <1>1, <1>2, <2>1, <2>2, <2>3, RoomIsKept
<1>7. LevelsAreKept'
  <2>1. ~listCrossed' => ~listCrossed /\ \A o \in Feedback : feedback[o].pc # "promote"
    BY <1>1, Zenon
  <2>2. x.pc = "promote" => x.listed = level
    BY <1>2, GrowthRecords DEF GoesOn
  <2> QED
    BY <1>1, <1>3, <2>1, <2>2 DEF LevelsAreKept
<1> QED
  BY <1>5, <1>6, <1>7

\* The level is set to the one above the one listed.
LEMMA GrowthSets ==
  ASSUME GrowthInv, NEW f \in Feedback, feedback[f].pc = "promote",
         Growth!Set(feedback[f].at, feedback[f].listed[feedback[f].at] + 1),
         NEW x, GoesOn(x, feedback[f].listed, feedback[f].at + 1), feedback' = [feedback EXCEPT ![f] = x],
         UNCHANGED <<entries, listCrossed>>
  PROVE  GrowthInv'
<1> USE DEF GrowthInv
<1>0. PICK at, listed : at = feedback[f].at /\ listed = feedback[f].listed
  OBVIOUS
<1>1. feedback[f] \in FeedbackPromoting
  BY GrowthRecords DEF GrowthTypes
<1>2. /\ at \in Growth!Skill /\ at \in Nat \ {0} /\ listed \in [Growth!Skill -> Nat]
      /\ listed[at] \in Nat /\ listed[1] \in Nat
  <2>1. at \in Growth!Skill /\ listed \in [Growth!Skill -> Nat]
    BY <1>0, <1>1, GrowthRecords
  <2> QED
    BY <2>1, GrowthRecords DEF Growth!Skill
<1>3. /\ level' = [level EXCEPT ![at] = listed[at] + 1]
      /\ raised' = [raised EXCEPT ![at] = raised[at] + 1]
  BY <1>0 DEF Growth!Set
<1>4. \A g \in Feedback : feedback'[g] = IF g = f THEN x ELSE feedback[g]
  BY DEF GrowthTypes
<1>5. GrowthTypes'
  BY <1>0, <1>2, <1>3, GrowthRecords DEF GrowthTypes, GoesOn
<1>6. f \notin MayRaise'
  <2>1. x.pc = "idle" \/ (x.pc = "promote" /\ x.at >= at + 1)
    BY <1>0, GrowthRecords DEF GoesOn
  <2>2. x.pc # "skills" /\ (x.pc = "promote" => x.at # 1)
    BY <1>2, <2>1
  <2> QED
    BY <1>4, <2>2 DEF MayRaise
<1>7. MayRaise' = MayRaise \ {f}
  BY <1>4, <1>6 DEF MayRaise
<1>8. /\ IsFiniteSet(MayRaise') /\ Cardinality(MayRaise) \in Nat
      /\ Cardinality(MayRaise') \in Nat /\ Cardinality(MayRaise') <= Cardinality(MayRaise)
      /\ f \in MayRaise => Cardinality(MayRaise') = Cardinality(MayRaise) - 1
  <2>1. IsFiniteSet(MayRaise)
    BY DEF LevelsHaveRoom
  <2>2. /\ IsFiniteSet(MayRaise')
        /\ Cardinality(MayRaise') = IF f \in MayRaise THEN Cardinality(MayRaise) - 1 ELSE Cardinality(MayRaise)
    BY <1>7, <2>1, FS_RemoveElement
  <2>3. Cardinality(MayRaise) \in Nat /\ Cardinality(MayRaise') \in Nat
    BY <2>1, <2>2, FS_CardinalityType
  <2> QED
    BY <2>2, <2>3
<1>9. level'[1] + Cardinality(MayRaise') <= entries'
  <2>0. level[1] \in Nat /\ entries \in Nat /\ entries' = entries
    BY GrowthRecords DEF GrowthTypes
  <2>1. CASE at = 1
    <3>1. f \in MayRaise
      BY <1>0, <2>1 DEF MayRaise
    <3>2. listed[1] + Cardinality(MayRaise) <= entries
      BY <1>0, <3>1 DEF LevelsHaveRoom
    <3>3. level'[1] = listed[1] + 1
      BY <1>2, <1>3, <2>1 DEF GrowthTypes
    <3> QED
      BY <1>2, <1>8, <2>0, <3>1, <3>2, <3>3
  <2>2. CASE at # 1
    <3>1. level'[1] = level[1]
      BY <1>3, <2>2, GrowthRecords DEF GrowthTypes
    <3> QED
      BY <1>8, <2>0, <3>1 DEF LevelsHaveRoom
  <2> QED
    BY <2>1, <2>2
<1>10. ASSUME NEW g \in MayRaise', feedback'[g].pc = "promote"
       PROVE  feedback'[g].listed[1] + Cardinality(MayRaise') <= entries'
  <2>1. g \in MayRaise /\ g \in Feedback /\ feedback'[g] = feedback[g]
    BY <1>4, <1>6, <1>7, <1>10 DEF MayRaise
  <2>2. feedback[g].listed[1] \in Nat /\ feedback[g].listed[1] + Cardinality(MayRaise) <= entries
    BY <1>10, <2>1, GrowthRecords DEF LevelsHaveRoom, GrowthTypes
  <2>3. entries \in Nat /\ entries' = entries
    BY DEF GrowthTypes
  <2> QED
    BY <1>8, <2>1, <2>2, <2>3
<1>11. LevelsHaveRoom'
  BY <1>8, <1>9, <1>10 DEF LevelsHaveRoom
<1>12. ASSUME ~listCrossed
       PROVE  /\ level' = raised'
              /\ \A g, h \in Feedback : feedback'[g].pc = "promote" /\ feedback'[h].pc = "promote" => g = h
              /\ \A g \in Feedback : feedback'[g].pc = "promote" =>
                   \A j \in Growth!Skill : j >= feedback'[g].at => feedback'[g].listed[j] = level'[j]
  <2>1. \A g \in Feedback : feedback[g].pc = "promote" => g = f
    BY <1>12 DEF LevelsAreKept
  <2>2. \A j \in Growth!Skill : j >= at => listed[j] = level[j]
    BY <1>0, <1>12 DEF LevelsAreKept
  <2>3. level = raised /\ listed[at] = level[at]
    BY <1>2, <1>12, <2>2 DEF LevelsAreKept
  <2>4. level' = raised'
    BY <1>3, <2>3
  <2>5. \A g \in Feedback : feedback'[g].pc = "promote" => g = f
    BY <1>4, <2>1
  <2>6. ASSUME NEW j \in Growth!Skill, x.pc = "promote", j >= x.at PROVE x.listed[j] = level'[j]
    <3>1. x.listed = listed /\ x.at >= at + 1 /\ x.at \in Nat /\ j \in Nat
      BY <1>0, <2>6, GrowthRecords DEF GoesOn
    <3>2. j >= at /\ j # at
      BY <1>2, <2>6, <3>1
    <3> QED
      BY <1>3, <2>2, <3>1, <3>2 DEF GrowthTypes
  <2> QED
    BY <1>4, <2>4, <2>5, <2>6
<1>13. LevelsAreKept'
  <2>1. ~listCrossed' => ~listCrossed
    BY Zenon
  <2> QED
    BY <1>12, <2>1 DEF LevelsAreKept
<1> QED
  BY <1>5, <1>11, <1>13

LEMMA GrowthStep == GrowthInv /\ [Next]_vars => GrowthInv'
<1> SUFFICES ASSUME GrowthInv, [Next]_vars PROVE GrowthInv'
  OBVIOUS
<1>1. CASE UNCHANGED growth
  BY <1>1 DEF growth, GrowthInv, GrowthTypes, LevelsHaveRoom, LevelsAreKept, MayRaise
<1>2. ASSUME NEW f \in Feedback, Growth!RecordTaskFeedback(f) PROVE GrowthInv'
  <2>1. entries' \in Nat /\ entries' >= entries
    BY <1>2 DEF Growth!RecordTaskFeedback, GrowthInv, GrowthTypes
  <2> DEFINE x == [pc |-> "cv"]
  <2>2. x \in FeedbackBusy /\ x.pc # "skills"
    BY GrowthRecords
  <2>3. feedback' = [feedback EXCEPT ![f] = x] /\ UNCHANGED <<level, raised, listCrossed>>
    BY <1>2 DEF Growth!RecordTaskFeedback, Growth!Becomes
  <2> QED
    BY <2>1, <2>2, <2>3, FeedbackMoves
<1>3. ASSUME NEW f \in Feedback, Growth!Insert(f) PROVE GrowthInv'
  <2>1. entries' \in Nat /\ entries' = entries + 1
    BY <1>3 DEF Growth!Insert, GrowthInv, GrowthTypes
  <2>2. feedback' = [feedback EXCEPT ![f] = [pc |-> "skills"]] /\ UNCHANGED <<level, raised, listCrossed>>
    BY <1>3 DEF Growth!Insert, Growth!Becomes
  <2> QED
    BY <2>1, <2>2, FeedbackMoves, GrowthRecords
<1>4. ASSUME NEW f \in Feedback, Growth!InsertRejects(f) PROVE GrowthInv'
  <2>1. entries' \in Nat /\ entries' >= entries
    BY <1>4 DEF Growth!InsertRejects, GrowthInv, GrowthTypes
  <2>2. feedback' = [feedback EXCEPT ![f] = Growth!NoFeedback] /\ UNCHANGED <<level, raised, listCrossed>>
    BY <1>4 DEF Growth!InsertRejects, Growth!Becomes
  <2>3. Growth!NoFeedback.pc # "skills" /\ Growth!NoFeedback \in FeedbackBusy
    BY GrowthRecords
  <2> QED
    BY <2>1, <2>2, <2>3, FeedbackMoves
<1>5. ASSUME NEW f \in Feedback, Growth!ListByCharacter(f) PROVE GrowthInv'
  BY <1>5, GrowthLists
<1>6. ASSUME NEW f \in Feedback, Growth!SetProficiency(f) PROVE GrowthInv'
  <2>1. /\ feedback[f].pc = "promote" /\ UNCHANGED <<entries, listCrossed>>
        /\ Growth!Set(feedback[f].at, feedback[f].listed[feedback[f].at] + 1)
        /\ Growth!Promotes(f, feedback[f].listed, feedback[f].at + 1)
    BY <1>6 DEF Growth!SetProficiency
  <2>2. feedback[f].at + 1 \in Nat \ {0} /\ feedback[f].listed \in [Growth!Skill -> Nat]
    <3>1. feedback[f] \in FeedbackPromoting
      BY <2>1, GrowthRecords DEF GrowthInv, GrowthTypes
    <3>2. feedback[f].at \in Nat
      BY <3>1, GrowthRecords
    <3> QED
      BY <3>1, <3>2, GrowthRecords
  <2>3. PICK x : GoesOn(x, feedback[f].listed, feedback[f].at + 1) /\ feedback' = [feedback EXCEPT ![f] = x]
    BY <2>1, <2>2, GrowthGoesOn
  <2> QED
    BY <2>1, <2>3, GrowthSets
<1>7. ASSUME NEW f \in Feedback, Growth!SkillsReject(f) PROVE GrowthInv'
  <2>1. /\ feedback' = [feedback EXCEPT ![f] = Growth!NoFeedback] /\ UNCHANGED <<entries, listCrossed>>
    BY <1>7 DEF Growth!SkillsReject, Growth!Becomes
  <2>2. CASE UNCHANGED <<level, raised>>
    <3>1. entries' \in Nat /\ entries' >= entries
      BY <2>1 DEF GrowthInv, GrowthTypes
    <3>2. Growth!NoFeedback.pc # "skills" /\ Growth!NoFeedback \in FeedbackBusy
      BY GrowthRecords
    <3> QED
      BY <2>1, <2>2, <3>1, <3>2, FeedbackMoves
  <2>3. CASE feedback[f].pc = "promote" /\ Growth!Set(feedback[f].at, feedback[f].listed[feedback[f].at] + 1)
    <3>1. GoesOn(Growth!NoFeedback, feedback[f].listed, feedback[f].at + 1)
      BY DEF GoesOn
    <3> QED
      BY <2>1, <2>3, <3>1, GrowthSets
  <2> QED
    BY <1>7, <2>2, <2>3 DEF Growth!SkillsReject
<1>8. CASE Growth!Next
  BY <1>2, <1>3, <1>4, <1>5, <1>6, <1>7, <1>8 DEF Growth!Next
<1> QED
  BY <1>1, <1>8, GrowthMoves

LEMMA GrowthAgrees == GrowthInv => Growth!LevelsAreEarned
<1> SUFFICES ASSUME GrowthInv PROVE Growth!LevelsAreEarned
  OBVIOUS
<1>1. level[1] <= entries
  <2>1. level[1] \in Nat /\ entries \in Nat /\ Cardinality(MayRaise) \in Nat
    BY GrowthRecords, FS_CardinalityType DEF GrowthInv, GrowthTypes, LevelsHaveRoom
  <2> QED
    BY <2>1 DEF GrowthInv, LevelsHaveRoom
<1>2. ~listCrossed => level = raised
  BY DEF GrowthInv, LevelsAreKept
<1> QED
  BY <1>1, <1>2 DEF Growth!LevelsAreEarned

-----------------------------------------------------------------------------
(* BillingWebhook *)

LEMMA BillingMoves == [Next]_vars => Billing!Next \/ UNCHANGED billing
BY DEF Next, At, Unless, vars

BillFlight == [pc : {"check", "handle", "mark"}, event : Event]

\* What is accepted or marked was handled, if it has a handler, and so was what is to be marked.
BillHandled ==
  /\ Billing!AcceptedWasHandled
  /\ \A d \in Delivery : Billing!Awaits(d, "handle") => Billing!Of(d) \in Subscribed
  /\ \A d \in Delivery : Billing!Awaits(d, "mark") /\ Billing!Of(d) \in Subscribed => Billing!Of(d) \in done

\* Unless it was contended, one delivery of an event is under way at most, which handles
\* it for the first time, and what was handled is marked or about to be.
BillOnce ==
  /\ again \subseteq billContended
  /\ \A d, o \in Delivery :
       ~Billing!Free(d) /\ ~Billing!Free(o) /\ Billing!Of(d) = Billing!Of(o) => d = o \/ Billing!Of(d) \in billContended
  /\ \A d \in Delivery : Billing!Awaits(d, "handle") /\ Billing!Of(d) \in done => Billing!Of(d) \in billContended
  /\ \A e \in done \ processed :
       e \in billContended \/ \E d \in Delivery : Billing!Awaits(d, "mark") /\ Billing!Of(d) = e

BillInv == Billing!TypeOK /\ BillHandled /\ BillOnce

LEMMA BillTypes ==
  Billing!TypeOK <=> /\ delivery \in [Delivery -> {Billing!NoDelivery} \cup BillFlight]
                     /\ processed \subseteq Event /\ acked \subseteq Event /\ billContended \subseteq Event
                     /\ done \subseteq Subscribed /\ again \subseteq done
BY DEF Billing!TypeOK, BillFlight

LEMMA BillRecords ==
  /\ Billing!NoDelivery.pc = "idle"
  /\ \A x \in BillFlight :
       x # Billing!NoDelivery /\ x.pc \in {"check", "handle", "mark"} /\ x.event \in Event
  /\ \A e \in Event : LET x == [pc |-> "check", event |-> e] IN x \in BillFlight /\ x.pc = "check" /\ x.event = e
  /\ \A x \in BillFlight : \A pc \in {"handle", "mark"} :
       LET y == [x EXCEPT !.pc = pc] IN y \in BillFlight /\ y.pc = pc /\ y.event = x.event
BY DEF BillFlight, Billing!NoDelivery

LEMMA BillInit == Billing!Init => BillInv
<1> SUFFICES ASSUME Billing!Init PROVE BillInv
  OBVIOUS
<1>1. Billing!TypeOK
  BY BillTypes DEF Billing!Init
<1>2. BillHandled /\ BillOnce
  BY BillRecords DEF Billing!Init, BillHandled, BillOnce, Billing!AcceptedWasHandled, Billing!Awaits, Billing!Free
<1> QED
  BY <1>1, <1>2 DEF BillInv

\* A delivery that is under way moves on with its event, or leaves.
BillGoes(d, y) ==
  /\ d \in Delivery /\ ~Billing!Free(d) /\ delivery' = [delivery EXCEPT ![d] = y]
  /\ y = Billing!NoDelivery \/ (y \in BillFlight /\ y.event = Billing!Of(d))

LEMMA BillOthers ==
  ASSUME BillInv, NEW d, NEW y, BillGoes(d, y)
  PROVE  /\ delivery' \in [Delivery -> {Billing!NoDelivery} \cup BillFlight]
         /\ \A o \in Delivery : delivery'[o] = IF o = d THEN y ELSE delivery[o]
         /\ \A o \in Delivery : ~Billing!Free(o)' => ~Billing!Free(o) /\ Billing!Of(o)' = Billing!Of(o)
         /\ delivery[d] \in BillFlight /\ Billing!Of(d) \in Event
<1> USE DEF BillInv, BillGoes
<1>1. /\ delivery' \in [Delivery -> {Billing!NoDelivery} \cup BillFlight]
      /\ \A o \in Delivery : delivery'[o] = IF o = d THEN y ELSE delivery[o]
  BY BillTypes
<1>2. delivery[d] \in BillFlight /\ Billing!Of(d) \in Event
  BY BillTypes, BillRecords DEF Billing!Free, Billing!Of
<1> QED
  BY <1>1, <1>2, BillRecords DEF Billing!Free, Billing!Of

LEMMA BillLeaves == ASSUME NEW d \in Delivery, ~Billing!Free(d), Billing!Leaves(d) PROVE BillGoes(d, Billing!NoDelivery)
BY DEF BillGoes, Billing!Leaves

LEMMA BillGoesTo ==
  ASSUME BillInv, NEW d \in Delivery, ~Billing!Free(d), NEW pc \in {"handle", "mark"}, Billing!Goto(d, pc)
  PROVE  \E y : BillGoes(d, y) /\ y # Billing!NoDelivery /\ y.pc = pc
<1>1. delivery[d] \in BillFlight
  BY BillTypes DEF BillInv, Billing!Free
<1>2. PICK y : y = [delivery[d] EXCEPT !.pc = pc]
  OBVIOUS
<1>3. delivery' = [delivery EXCEPT ![d] = y]
  BY <1>2 DEF Billing!Goto
<1>4. y \in BillFlight /\ y.pc = pc /\ y.event = delivery[d].event /\ y # Billing!NoDelivery
  BY <1>1, <1>2, BillRecords
<1>5. BillGoes(d, y)
  BY <1>3, <1>4 DEF BillGoes, Billing!Of
<1> QED
  BY <1>4, <1>5

LEMMA BillDelivers ==
  ASSUME BillInv, NEW d \in Delivery, NEW e \in Event, Billing!Deliver(d, e)
  PROVE  BillInv'
<1> USE DEF BillInv
<1>1. PICK y : y = [pc |-> "check", event |-> e]
  OBVIOUS
<1>2. /\ Billing!Free(d) /\ delivery' = [delivery EXCEPT ![d] = y]
      /\ billContended' = IF \E o \in Delivery : ~Billing!Free(o) /\ Billing!Of(o) = e
                          THEN billContended \cup {e} ELSE billContended
      /\ UNCHANGED <<processed, acked, done, again>>
  BY <1>1 DEF Billing!Deliver
<1>3. y \in BillFlight /\ y.pc = "check" /\ y.event = e
  BY <1>1, BillRecords
<1>4. \A o \in Delivery : delivery'[o] = IF o = d THEN y ELSE delivery[o]
  BY <1>2, BillTypes
<1>5. Billing!TypeOK'
  BY <1>2, <1>3, BillTypes DEF Billing!TypeOK, BillFlight
<1>6. BillHandled'
  BY <1>2, <1>3, <1>4 DEF BillHandled, Billing!AcceptedWasHandled, Billing!Awaits, Billing!Of
<1>7. BillOnce'
  BY <1>2, <1>3, <1>4, BillTypes, BillRecords DEF BillOnce, Billing!Awaits, Billing!Of, Billing!Free
<1> QED
  BY <1>5, <1>6, <1>7

\* Nothing but the delivery changes, and what Stripe has seen.
LEMMA BillChecks ==
  ASSUME BillInv, NEW d \in Delivery,
         Billing!HasProcessed(d) \/ Billing!HasProcessedRejects(d) \/ Billing!HandlerThrows(d)
  PROVE  BillInv'
<1> USE DEF BillInv
<1>1. /\ Billing!Awaits(d, "check") \/ Billing!Awaits(d, "handle")
      /\ ~Billing!Free(d)
      /\ UNCHANGED <<processed, done, again, billContended>>
  BY BillRecords DEF Billing!HasProcessed, Billing!HasProcessedRejects, Billing!HandlerThrows, Billing!Awaits, Billing!Free
<1>2. PICK y : /\ BillGoes(d, y) /\ acked' \subseteq acked \cup processed
               /\ \/ y = Billing!NoDelivery
                  \/ /\ y # Billing!NoDelivery /\ Billing!Awaits(d, "check") /\ Billing!Of(d) \notin processed
                     /\ y.pc = Billing!Dispatched(Billing!Of(d))
  <2>1. CASE Billing!HasProcessed(d) /\ Billing!Of(d) \notin processed
    <3>1. /\ Billing!Awaits(d, "check") /\ Billing!Goto(d, Billing!Dispatched(Billing!Of(d)))
          /\ acked' = acked /\ Billing!Dispatched(Billing!Of(d)) \in {"handle", "mark"}
      BY <2>1 DEF Billing!HasProcessed, Billing!Dispatched
    <3> QED
      BY <1>1, <2>1, <3>1, BillGoesTo
  <2>2. CASE Billing!Leaves(d) /\ acked' \in {acked, acked \cup {Billing!Of(d)}} /\ (acked' # acked => Billing!Of(d) \in processed)
    BY <1>1, <2>2, BillLeaves
  <2> QED
    BY <2>1, <2>2 DEF Billing!HasProcessed, Billing!HasProcessedRejects, Billing!HandlerThrows, Billing!Accept, Billing!Refuse
<1>3. /\ delivery' \in [Delivery -> {Billing!NoDelivery} \cup BillFlight]
      /\ \A o \in Delivery : delivery'[o] = IF o = d THEN y ELSE delivery[o]
      /\ \A o \in Delivery : ~Billing!Free(o)' => ~Billing!Free(o) /\ Billing!Of(o)' = Billing!Of(o)
      /\ delivery[d] \in BillFlight /\ Billing!Of(d) \in Event
  BY <1>2, BillOthers
<1>4. y.pc = "handle" => Billing!Of(d) \in Subscribed
  BY <1>2, BillRecords DEF Billing!Dispatched
<1>5. y.pc = "mark" => Billing!Of(d) \notin Subscribed
  BY <1>2, BillRecords DEF Billing!Dispatched
<1>6. y # Billing!NoDelivery => y.event = Billing!Of(d)
  BY <1>2 DEF BillGoes
<1>7. Billing!TypeOK'
  BY <1>1, <1>2, <1>3, BillTypes DEF Billing!TypeOK, BillFlight
<1>8. BillHandled'
  <2>1. Billing!AcceptedWasHandled'
    BY <1>1, <1>2 DEF BillHandled, Billing!AcceptedWasHandled
  <2> QED
    BY <1>1, <1>3, <1>4, <1>5, <1>6, <2>1, BillRecords DEF BillHandled, Billing!Awaits, Billing!Of
<1>9. BillOnce'
  <2>1. \A e \in done \ processed :
          e \in billContended \/ \E o \in Delivery : (Billing!Awaits(o, "mark") /\ Billing!Of(o) = e)'
    BY <1>1, <1>3 DEF BillOnce, Billing!Awaits, Billing!Of
  <2>2. ASSUME y.pc = "handle", Billing!Of(d) \in done PROVE Billing!Of(d) \in billContended
    <3>1. Billing!Of(d) \notin processed /\ Billing!Awaits(d, "check")
      BY <1>2, <2>2, BillRecords
    <3>2. PICK o \in Delivery : Billing!Of(d) \in billContended \/ (Billing!Awaits(o, "mark") /\ Billing!Of(o) = Billing!Of(d))
      BY <2>2, <3>1 DEF BillOnce
    <3>3. Billing!Awaits(o, "mark") => ~Billing!Free(o) /\ o # d
      BY <3>1, BillRecords DEF Billing!Awaits, Billing!Free
    <3> QED
      BY <1>1, <3>2, <3>3 DEF BillOnce
  <2>3. \A o \in Delivery : Billing!Awaits(o, "handle")' /\ Billing!Of(o)' \in done => Billing!Of(o)' \in billContended
    BY <1>3, <1>6, <2>2, BillRecords DEF BillOnce, Billing!Awaits, Billing!Of
  <2> QED
    BY <1>1, <1>3, <2>1, <2>3 DEF BillOnce
<1> QED
  BY <1>7, <1>8, <1>9

LEMMA BillHandles ==
  ASSUME BillInv, NEW d \in Delivery, Billing!HandlerSucceeds(d)
  PROVE  BillInv'
<1> USE DEF BillInv
<1>0. PICK e : e = Billing!Of(d)
  OBVIOUS
<1>1. /\ Billing!Awaits(d, "handle") /\ ~Billing!Free(d)
      /\ done' = done \cup {e} /\ again' = IF e \in done THEN again \cup {e} ELSE again
      /\ UNCHANGED <<processed, acked, billContended>>
  BY <1>0, BillRecords DEF Billing!HandlerSucceeds, Billing!Awaits, Billing!Free
<1>2. PICK y : BillGoes(d, y) /\ y # Billing!NoDelivery /\ y.pc = "mark"
  BY <1>1, BillGoesTo DEF Billing!HandlerSucceeds
<1>3. /\ delivery' \in [Delivery -> {Billing!NoDelivery} \cup BillFlight]
      /\ \A o \in Delivery : delivery'[o] = IF o = d THEN y ELSE delivery[o]
      /\ \A o \in Delivery : ~Billing!Free(o)' => ~Billing!Free(o) /\ Billing!Of(o)' = Billing!Of(o)
      /\ e \in Event /\ y.event = e
  BY <1>0, <1>2, BillOthers DEF BillGoes
<1>4. e \in Subscribed /\ (e \in done => e \in billContended)
  BY <1>0, <1>1 DEF BillHandled, BillOnce
<1>5. Billing!TypeOK'
  BY <1>1, <1>3, <1>4, BillTypes DEF Billing!TypeOK, BillFlight
<1>6. BillHandled'
  BY <1>1, <1>2, <1>3 DEF BillHandled, Billing!AcceptedWasHandled, Billing!Awaits, Billing!Of
<1>7. BillOnce'
  <2>1. again' \subseteq billContended'
    BY <1>1, <1>4 DEF BillOnce
  <2>2. \A o \in Delivery : Billing!Awaits(o, "handle")' /\ Billing!Of(o)' \in done' => Billing!Of(o)' \in billContended'
    <3>1. ASSUME NEW o \in Delivery, Billing!Awaits(o, "handle")', Billing!Of(o)' = e PROVE e \in billContended
      <4>1. o # d /\ delivery'[o] = delivery[o]
        BY <1>2, <1>3, <3>1 DEF Billing!Awaits
      <4>2. ~Billing!Free(o) /\ Billing!Of(o) = e
        BY <3>1, <4>1, BillRecords DEF Billing!Free, Billing!Of, Billing!Awaits
      <4> QED
        BY <1>0, <1>1, <4>1, <4>2 DEF BillOnce
    <3>2. \A o \in Delivery : Billing!Awaits(o, "handle")' => Billing!Awaits(o, "handle") /\ Billing!Of(o)' = Billing!Of(o)
      BY <1>2, <1>3 DEF Billing!Awaits, Billing!Of
    <3> QED
      BY <1>1, <3>1, <3>2 DEF BillOnce
  <2>3. \A c \in done' \ processed' :
          c \in billContended' \/ \E o \in Delivery : (Billing!Awaits(o, "mark") /\ Billing!Of(o) = c)'
    BY <1>1, <1>2, <1>3 DEF BillOnce, Billing!Awaits, Billing!Of
  <2> QED
    BY <1>1, <1>3, <2>1, <2>2, <2>3 DEF BillOnce
<1> QED
  BY <1>5, <1>6, <1>7

LEMMA BillMarks ==
  ASSUME BillInv, NEW d \in Delivery, Billing!MarkProcessed(d) \/ Billing!MarkFails(d)
  PROVE  BillInv'
<1> USE DEF BillInv
<1>0. PICK e, y : e = Billing!Of(d) /\ y = Billing!NoDelivery
  OBVIOUS
<1>1. /\ Billing!Awaits(d, "mark") /\ ~Billing!Free(d) /\ BillGoes(d, y)
      /\ acked' \in {acked, acked \cup {e}} /\ UNCHANGED <<done, again>>
      /\ \/ processed' = processed \cup {e} /\ UNCHANGED billContended
         \/ billContended' = billContended \cup {e} /\ UNCHANGED processed
  BY <1>0, BillLeaves, BillRecords
     DEF Billing!MarkProcessed, Billing!MarkFails, Billing!Accept, Billing!Awaits, Billing!Free
<1>2. /\ delivery' \in [Delivery -> {Billing!NoDelivery} \cup BillFlight]
      /\ \A o \in Delivery : delivery'[o] = IF o = d THEN y ELSE delivery[o]
      /\ \A o \in Delivery : ~Billing!Free(o)' => ~Billing!Free(o) /\ Billing!Of(o)' = Billing!Of(o)
      /\ e \in Event
  BY <1>0, <1>1, BillOthers
<1>3. Billing!TypeOK'
  BY <1>1, <1>2, BillTypes DEF Billing!TypeOK, BillFlight
<1>4. BillHandled'
  BY <1>0, <1>1, <1>2, BillRecords DEF BillHandled, Billing!AcceptedWasHandled, Billing!Awaits, Billing!Of
<1>5. BillOnce'
  <2>1. \A o \in Delivery : \A pc \in {"handle", "mark"} :
           Billing!Awaits(o, pc)' => Billing!Awaits(o, pc) /\ Billing!Of(o)' = Billing!Of(o)
    BY <1>0, <1>2, BillRecords DEF Billing!Awaits, Billing!Of
  <2>2. \A c \in done' \ processed' :
          c \in billContended' \/ \E o \in Delivery : (Billing!Awaits(o, "mark") /\ Billing!Of(o) = c)'
    BY <1>0, <1>1, <1>2 DEF BillOnce, Billing!Awaits, Billing!Of
  <2>3. billContended \subseteq billContended'
    BY <1>1
  <2> QED
    BY <1>1, <1>2, <2>1, <2>2, <2>3 DEF BillOnce
<1> QED
  BY <1>3, <1>4, <1>5

LEMMA BillCrashes == ASSUME BillInv, Billing!Crash PROVE BillInv'
<1> USE DEF BillInv
<1>1. /\ delivery' = [d \in Delivery |-> Billing!NoDelivery]
      /\ billContended' = billContended \cup
           {e \in Event : \E d \in Delivery : Billing!Awaits(d, "mark") /\ Billing!Of(d) = e}
      /\ UNCHANGED <<processed, acked, done, again>>
  BY DEF Billing!Crash
<1>2. Billing!TypeOK'
  BY <1>1, BillTypes DEF Billing!TypeOK, BillFlight
<1>3. \A d \in Delivery : Billing!Free(d)' /\ ~Billing!Awaits(d, "handle")' /\ ~Billing!Awaits(d, "mark")'
  BY <1>1, BillRecords DEF Billing!Free, Billing!Awaits
<1>4. BillHandled'
  BY <1>1, <1>3 DEF BillHandled, Billing!AcceptedWasHandled
<1>5. \A e \in done \ processed : e \in billContended'
  <2>1. \A d \in Delivery : Billing!Awaits(d, "mark") => Billing!Of(d) \in Event
    BY BillTypes, BillRecords DEF Billing!Awaits, Billing!Of
  <2> QED
    BY <1>1, <2>1 DEF BillOnce
<1>6. BillOnce'
  BY <1>1, <1>3, <1>5 DEF BillOnce
<1> QED
  BY <1>2, <1>4, <1>6

LEMMA BillStep == BillInv /\ [Next]_vars => BillInv'
<1> SUFFICES ASSUME BillInv, [Next]_vars PROVE BillInv'
  OBVIOUS
<1>1. CASE UNCHANGED billing
  BY <1>1 DEF billing, BillInv, Billing!TypeOK, BillHandled, BillOnce, Billing!AcceptedWasHandled,
              Billing!Awaits, Billing!Of, Billing!Free
<1>2. CASE Billing!Next
  BY <1>2, BillDelivers, BillChecks, BillHandles, BillMarks, BillCrashes DEF Billing!Next, Billing!DeliveryStep
<1> QED
  BY <1>1, <1>2, BillingMoves

-----------------------------------------------------------------------------
(* OAuthState *)

LEMMA OAuthMoves == [Next]_vars => OAuth!Next \/ UNCHANGED oauth
BY DEF Next, At, Unless, vars

Option == {"default", "fallback"}
Consuming == [pc : {"get", "del"}, state : Nonce, type : Type, option : Option]

\* A state no two callbacks had in hand at once is with one of them at most; what was
\* found valid in the store is gone; and what is to be deleted has not been found before.
OAuthOnce ==
  /\ twice \subseteq crossed \cup trusted
  /\ \A s \in valid \ trusted : stored[s] = "gone"
  /\ \A c, o \in Callback :
       /\ callback[c] # OAuth!NoCallback /\ callback[o] # OAuth!NoCallback
       /\ callback[c].state = callback[o].state
       => c = o \/ callback[c].state \in crossed
  /\ \A c \in Callback : callback[c].pc = "del" /\ callback[c].state \in valid =>
       callback[c].state \in crossed \cup trusted

OAuthInv == OAuth!TypeOK /\ OAuthOnce

LEMMA OAuthTypes ==
  OAuth!TypeOK <=> /\ stored \in [Nonce -> Type \cup {"new", "gone"}]
                   /\ callback \in [Callback -> {OAuth!NoCallback} \cup Consuming]
                   /\ twice \subseteq valid /\ valid \subseteq Nonce /\ crossed \subseteq Nonce /\ trusted \subseteq Nonce
BY DEF OAuth!TypeOK, Consuming, Option

LEMMA OAuthTypesAfter ==
  OAuth!TypeOK' <=> /\ stored' \in [Nonce -> Type \cup {"new", "gone"}]
                    /\ callback' \in [Callback -> {OAuth!NoCallback} \cup Consuming]
                    /\ twice' \subseteq valid' /\ valid' \subseteq Nonce /\ crossed' \subseteq Nonce /\ trusted' \subseteq Nonce
BY DEF OAuth!TypeOK, Consuming, Option

LEMMA OAuthRecords ==
  /\ OAuth!NoCallback.pc = "idle"
  /\ \A x \in Consuming : x # OAuth!NoCallback /\ x.pc \in {"get", "del"} /\ x.state \in Nonce /\ x.type \in Type
  /\ \A s \in Nonce, t \in Type, z \in Option :
       LET x == [pc |-> "get", state |-> s, type |-> t, option |-> z] IN x \in Consuming /\ x.pc = "get" /\ x.state = s
  /\ \A x \in Consuming : LET y == [x EXCEPT !.pc = "del"] IN y \in Consuming /\ y.pc = "del" /\ y.state = x.state
BY DEF Consuming, OAuth!NoCallback

LEMMA OAuthInit == OAuth!Init => OAuthInv
<1> SUFFICES ASSUME OAuth!Init PROVE OAuthInv
  OBVIOUS
<1>1. OAuth!TypeOK
  BY OAuthTypes DEF OAuth!Init
<1>2. OAuthOnce
  BY OAuthRecords DEF OAuth!Init, OAuthOnce
<1> QED
  BY <1>1, <1>2 DEF OAuthInv

\* A nonce is stored, or expires: one that is gone stays so.
LEMMA OAuthStores ==
  ASSUME OAuthInv, NEW s \in Nonce, OAuth!Expires(s) \/ \E t \in Type : OAuth!GenerateOAuthState(s, t)
  PROVE  OAuthInv'
<1> USE DEF OAuthInv
<1>1. PICK x \in Type \cup {"gone"} : stored' = [stored EXCEPT ![s] = x]
  BY DEF OAuth!Expires, OAuth!GenerateOAuthState
<1>2. stored[s] # "gone" /\ UNCHANGED <<callback, valid, twice, crossed, trusted>>
  BY DataAssumption DEF OAuth!Expires, OAuth!GenerateOAuthState
<1>3. OAuth!TypeOK'
  BY <1>1, <1>2, OAuthTypes, OAuthTypesAfter
<1>4. \A z \in valid \ trusted : stored'[z] = "gone"
  BY <1>1, <1>2, OAuthTypes DEF OAuthOnce
<1>5. OAuthOnce'
  BY <1>2, <1>4 DEF OAuthOnce
<1> QED
  BY <1>3, <1>5

LEMMA OAuthBegins ==
  ASSUME OAuthInv, NEW c \in Callback, NEW s \in Nonce, NEW t \in Type, NEW z \in Option,
         OAuth!ConsumeOAuthState(c, s, t, z)
  PROVE  OAuthInv'
<1> USE DEF OAuthInv
<1>0. PICK x : x = [pc |-> "get", state |-> s, type |-> t, option |-> z]
  OBVIOUS
<1>1. /\ callback' = [callback EXCEPT ![c] = x] /\ UNCHANGED <<stored, valid, twice, trusted>>
      /\ crossed' = IF OAuth!InHand(s) # {} THEN crossed \cup {s} ELSE crossed
  BY <1>0 DEF OAuth!ConsumeOAuthState
<1>2. x \in Consuming /\ x.pc = "get" /\ x.state = s
  BY <1>0, OAuthRecords
<1>3. \A o \in Callback : callback'[o] = IF o = c THEN x ELSE callback[o]
  BY <1>1, OAuthTypes
<1>4. OAuth!TypeOK'
  BY <1>1, <1>2, OAuthTypes, OAuthTypesAfter
<1>5. \A o \in Callback : callback[o] # OAuth!NoCallback /\ callback[o].state = s => s \in crossed'
  BY <1>1 DEF OAuth!InHand
<1>6. OAuthOnce'
  BY <1>1, <1>2, <1>3, <1>5 DEF OAuthOnce
<1> QED
  BY <1>4, <1>6

LEMMA OAuthGets ==
  ASSUME OAuthInv, NEW c \in Callback, OAuth!Get(c)
  PROVE  OAuthInv'
<1> USE DEF OAuthInv
<1>1. callback[c].pc = "get" /\ UNCHANGED <<stored, valid, twice, crossed, trusted>>
  BY DEF OAuth!Get
<1>2. callback[c] \in Consuming
  BY <1>1, OAuthTypes, OAuthRecords
<1>3. PICK x : /\ callback' = [callback EXCEPT ![c] = x]
               /\ \/ x = OAuth!NoCallback
                  \/ /\ x \in Consuming /\ x.pc = "del" /\ x.state = callback[c].state
                     /\ stored[x.state] \in Type
  <2>1. CASE stored[callback[c].state] = callback[c].type
    <3>1. PICK x : x = [callback[c] EXCEPT !.pc = "del"]
      OBVIOUS
    <3>2. callback' = [callback EXCEPT ![c] = x]
      BY <2>1, <3>1 DEF OAuth!Get
    <3>3. x \in Consuming /\ x.pc = "del" /\ x.state = callback[c].state /\ callback[c].type \in Type
      BY <1>2, <3>1, OAuthRecords
    <3> QED
      BY <2>1, <3>2, <3>3
  <2>2. CASE stored[callback[c].state] # callback[c].type
    BY <2>2 DEF OAuth!Get, OAuth!Leaves
  <2> QED
    BY <2>1, <2>2
<1>4. \A o \in Callback : callback'[o] = IF o = c THEN x ELSE callback[o]
  BY <1>3, OAuthTypes
<1>5. OAuth!TypeOK'
  BY <1>1, <1>3, OAuthTypes, OAuthTypesAfter
<1>6. x # OAuth!NoCallback => x.state \notin valid \ trusted
  BY <1>3, DataAssumption DEF OAuthOnce
<1>7. OAuthOnce'
  BY <1>1, <1>2, <1>3, <1>4, <1>6, OAuthRecords DEF OAuthOnce
<1> QED
  BY <1>5, <1>7

\* A callback leaves, with the nonce deleted and found valid, or only deleted, or neither,
\* or accepted without the store having it.
LEMMA OAuthLeaves ==
  ASSUME OAuthInv, NEW c \in Callback, OAuth!Del(c) \/ OAuth!StoreRejects(c) \/ OAuth!FallsBack(c)
  PROVE  OAuthInv'
<1> USE DEF OAuthInv
<1>0. PICK s : s = callback[c].state
  OBVIOUS
<1>1. /\ callback[c] # OAuth!NoCallback /\ callback' = [callback EXCEPT ![c] = OAuth!NoCallback]
      /\ stored' \in {stored, [stored EXCEPT ![s] = "gone"]} /\ UNCHANGED crossed
      /\ trusted \subseteq trusted' /\ trusted' \subseteq trusted \cup {s}
      /\ \/ UNCHANGED <<valid, twice>>
         \/ /\ (callback[c].pc = "del" /\ stored' = [stored EXCEPT ![s] = "gone"]) \/ s \in trusted'
            /\ valid' = valid \cup {s} /\ twice' = IF s \in valid THEN twice \cup {s} ELSE twice
  BY <1>0, OAuthRecords DEF OAuth!Del, OAuth!StoreRejects, OAuth!FallsBack, OAuth!Leaves, OAuth!Found
<1>2. s \in Nonce
  BY <1>0, <1>1, OAuthTypes, OAuthRecords
<1>3. OAuth!TypeOK'
  BY <1>1, <1>2, OAuthTypes, OAuthTypesAfter
<1>4. \A o \in Callback : callback'[o] # OAuth!NoCallback => o # c /\ callback'[o] = callback[o]
  BY <1>1, OAuthTypes
<1>5. \A z \in valid' \ trusted' : stored'[z] = "gone"
  BY <1>1, <1>2, OAuthTypes DEF OAuthOnce
<1>6. twice' \subseteq crossed' \cup trusted'
  BY <1>0, <1>1 DEF OAuthOnce
<1>7. ASSUME NEW o \in Callback, callback'[o].pc = "del", callback'[o].state \in valid'
      PROVE  callback'[o].state \in crossed \cup trusted'
  <2>1. o # c /\ callback'[o] = callback[o] /\ callback[o] # OAuth!NoCallback
    BY <1>4, <1>7, OAuthRecords
  <2>2. CASE callback[o].state = s
    BY <1>0, <1>1, <2>1, <2>2 DEF OAuthOnce
  <2>3. CASE callback[o].state # s
    BY <1>1, <1>7, <2>1, <2>3 DEF OAuthOnce
  <2> QED
    BY <2>2, <2>3
<1>8. OAuthOnce'
  BY <1>1, <1>4, <1>5, <1>6, <1>7 DEF OAuthOnce
<1> QED
  BY <1>3, <1>8

LEMMA OAuthStep == OAuthInv /\ [Next]_vars => OAuthInv'
<1> SUFFICES ASSUME OAuthInv, [Next]_vars PROVE OAuthInv'
  OBVIOUS
<1>1. CASE UNCHANGED oauth
  BY <1>1 DEF oauth, OAuthInv, OAuth!TypeOK, OAuthOnce
<1>2. CASE OAuth!Next
  <2>1. CASE \E s \in Nonce : OAuth!Expires(s) \/ \E t \in Type : OAuth!GenerateOAuthState(s, t)
    BY <2>1, OAuthStores
  <2>2. CASE \E c \in Callback : OAuth!Get(c)
    BY <2>2, OAuthGets
  <2>3. CASE \E c \in Callback : OAuth!Del(c) \/ OAuth!StoreRejects(c) \/ OAuth!FallsBack(c)
    BY <2>3, OAuthLeaves
  <2>4. CASE \E c \in Callback, s \in Nonce, t \in Type, z \in Option : OAuth!ConsumeOAuthState(c, s, t, z)
    BY <2>4, OAuthBegins
  <2> QED
    BY <1>2, <2>1, <2>2, <2>3, <2>4 DEF OAuth!Next, Option
<1> QED
  BY <1>1, <1>2, OAuthMoves

-----------------------------------------------------------------------------
(* AgentBudget *)

LEMMA BudgetMoves == [Next]_vars => Budget!Next \/ UNCHANGED budget
BY DEF Next, At, Unless, vars

LEMMA BudgetNumbers == BudgetLimit \in Nat
BY ServicesAssumption

ExecActing == [pc : {"remaining", "dispatch", "handler"}, action : Action]
ExecAtGuard == [pc : {"guard"}, action : Action, remaining : Int]
ExecCharging == [pc : {"addUsage"}, cost : Nat]
ExecState == {Budget!NoExec} \cup ExecActing \cup ExecAtGuard \cup ExecCharging

BudgetTypes ==
  /\ exec \in [Exec -> ExecState]
  /\ usage \in Nat /\ spent \in Nat /\ unrecorded \in Nat /\ excess \in Nat /\ execCrossed \in BOOLEAN

\* Between the reading of what remains and the end.
HasRead(x) == exec[x].pc \in {"guard", "dispatch", "handler", "addUsage"}

\* Where no two executions cross, what the only one has read or found to suffice is so
\* until it is charged.
BudgetHolds ==
  ~execCrossed =>
    /\ spent <= BudgetLimit + unrecorded + excess
    /\ \A x, y \in Exec : HasRead(x) /\ HasRead(y) => x = y
    /\ (\A x \in Exec : exec[x].pc # "addUsage") => spent = usage + unrecorded
    /\ \A x \in Exec : exec[x].pc = "addUsage" => spent = usage + unrecorded + exec[x].cost
    /\ \A x \in Exec : exec[x].pc = "guard" => exec[x].remaining = BudgetLimit - usage
    /\ \A x \in Exec : exec[x].pc \in {"dispatch", "handler"} => usage + Estimate[exec[x].action] <= BudgetLimit

BudgetInv == BudgetTypes /\ BudgetHolds

LEMMA ExecRecords ==
  /\ Budget!NoExec.pc = "idle"
  /\ \A x \in ExecActing : x.pc \in {"remaining", "dispatch", "handler"} /\ x.action \in Action
  /\ \A x \in ExecAtGuard : x.pc = "guard" /\ x.action \in Action /\ x.remaining \in Int
  /\ \A x \in ExecCharging : x.pc = "addUsage" /\ x.cost \in Nat
  /\ \A a \in Action : \A pc \in {"remaining", "dispatch", "handler"} :
       LET x == [pc |-> pc, action |-> a] IN x \in ExecActing /\ x.pc = pc /\ x.action = a
  /\ \A a \in Action : \A r \in Int :
       LET x == [pc |-> "guard", action |-> a, remaining |-> r]
       IN  x \in ExecAtGuard /\ x.pc = "guard" /\ x.action = a /\ x.remaining = r
  /\ \A k \in Nat : LET x == [pc |-> "addUsage", cost |-> k] IN x \in ExecCharging /\ x.pc = "addUsage" /\ x.cost = k
  /\ \A x \in ExecActing :
       LET y == [x EXCEPT !.pc = "handler"] IN y \in ExecActing /\ y.pc = "handler" /\ y.action = x.action
BY DEF ExecActing, ExecAtGuard, ExecCharging, Budget!NoExec

LEMMA BudgetInit == Budget!Init => BudgetInv
<1> SUFFICES ASSUME Budget!Init PROVE BudgetInv
  OBVIOUS
<1>1. BudgetTypes
  BY DEF Budget!Init, BudgetTypes, ExecState
<1>2. BudgetHolds
  BY ExecRecords, BudgetNumbers DEF Budget!Init, BudgetHolds, HasRead
<1> QED
  BY <1>1, <1>2 DEF BudgetInv

\* An execution becomes y.
ExecGoes(x, y) == x \in Exec /\ y \in ExecState /\ exec' = [exec EXCEPT ![x] = y]

LEMMA ExecOthers ==
  ASSUME BudgetInv, NEW x, NEW y, ExecGoes(x, y)
  PROVE  exec' \in [Exec -> ExecState] /\ \A o \in Exec : exec'[o] = IF o = x THEN y ELSE exec[o]
BY DEF BudgetInv, BudgetTypes, ExecGoes

\* It has not read yet, or ends without having spent: nothing changes for the others.
LEMMA ExecIsQuiet ==
  ASSUME BudgetInv, NEW x \in Exec, NEW y \in {Budget!NoExec} \cup ExecActing, ExecGoes(x, y),
         y.pc \in {"idle", "remaining"}, exec[x].pc # "addUsage",
         UNCHANGED <<usage, spent, unrecorded, excess, execCrossed>>
  PROVE  BudgetInv'
<1> USE DEF BudgetInv
<1>1. exec' \in [Exec -> ExecState] /\ \A o \in Exec : exec'[o] = IF o = x THEN y ELSE exec[o]
  BY ExecOthers
<1>2. BudgetTypes'
  BY <1>1 DEF BudgetTypes
<1>3. BudgetHolds'
  <2>1. ~execCrossed' => ~execCrossed
    BY Zenon
  <2> QED
    BY <1>1, <2>1 DEF BudgetHolds, HasRead
<1> QED
  BY <1>2, <1>3

LEMMA ExecBeginsOrEnds ==
  ASSUME BudgetInv, NEW x \in Exec,
         Budget!Cancels(x) \/ Budget!Rejects(x) \/ \E a \in Action : Budget!ExecuteAction(x, a)
  PROVE  BudgetInv'
<1>1. /\ exec[x].pc # "addUsage" /\ UNCHANGED <<usage, spent, unrecorded, excess, execCrossed>>
  BY ExecRecords DEF Budget!Cancels, Budget!Rejects, Budget!ExecuteAction, Budget!At
<1>2. PICK y \in {Budget!NoExec} \cup ExecActing :
        y.pc \in {"idle", "remaining"} /\ exec' = [exec EXCEPT ![x] = y]
  BY ExecRecords DEF Budget!Cancels, Budget!Rejects, Budget!ExecuteAction, Budget!Ends
<1>3. ExecGoes(x, y)
  BY <1>2 DEF ExecGoes, ExecState
<1> QED
  BY <1>1, <1>2, <1>3, ExecIsQuiet

LEMMA ExecReads ==
  ASSUME BudgetInv, NEW x \in Exec, Budget!ReadRemaining(x)
  PROVE  BudgetInv'
<1> USE DEF BudgetInv
<1>0. PICK y : y = [pc |-> "guard", action |-> exec[x].action, remaining |-> BudgetLimit - usage]
  OBVIOUS
<1>1. /\ exec[x].pc = "remaining" /\ exec' = [exec EXCEPT ![x] = y]
      /\ UNCHANGED <<usage, spent, unrecorded, excess>>
  BY <1>0 DEF Budget!ReadRemaining, Budget!At
<1>2. execCrossed' \in BOOLEAN /\ (~execCrossed' => ~execCrossed /\ \A o \in Exec : ~HasRead(o))
  BY Zenon DEF Budget!ReadRemaining, HasRead
<1>3. exec[x].action \in Action /\ BudgetLimit - usage \in Int
  <2>1. BudgetLimit \in Int /\ usage \in Int
    BY BudgetNumbers DEF BudgetTypes
  <2>2. exec[x].action \in Action
    BY <1>1, ExecRecords DEF BudgetTypes, ExecState
  <2> QED
    BY <2>1, <2>2
<1>4. y \in ExecAtGuard /\ y.pc = "guard" /\ y.remaining = BudgetLimit - usage
  BY <1>0, <1>3, ExecRecords
<1>5. exec' \in [Exec -> ExecState] /\ \A o \in Exec : exec'[o] = IF o = x THEN y ELSE exec[o]
  BY <1>1, <1>4, ExecOthers DEF ExecGoes, ExecState
<1>6. BudgetTypes'
  BY <1>1, <1>2, <1>5 DEF BudgetTypes
<1>7. BudgetHolds'
  BY <1>1, <1>2, <1>4, <1>5 DEF BudgetHolds, HasRead
<1> QED
  BY <1>6, <1>7

LEMMA ExecGoesOn ==
  ASSUME BudgetInv, NEW x \in Exec, Budget!GuardPasses(x) \/ Budget!Dispatch(x)
  PROVE  BudgetInv'
<1> USE DEF BudgetInv
<1>1. /\ exec[x].pc \in {"guard", "dispatch"} /\ UNCHANGED <<usage, spent, unrecorded, excess, execCrossed>>
  BY DEF Budget!GuardPasses, Budget!Dispatch, Budget!At
<1>2. /\ exec[x].pc = "guard" => exec[x] \in ExecAtGuard
      /\ exec[x].pc = "dispatch" => exec[x] \in ExecActing
  BY ExecRecords DEF BudgetTypes, ExecState
<1>3. PICK y \in ExecActing :
        /\ exec' = [exec EXCEPT ![x] = y] /\ y.action = exec[x].action /\ y.pc \in {"dispatch", "handler"}
        /\ exec[x].pc = "guard" => Estimate[exec[x].action] <= exec[x].remaining
  BY <1>2, ExecRecords DEF Budget!GuardPasses, Budget!Dispatch, Budget!At, Budget!Goto, Budget!Affordable
<1>4. exec' \in [Exec -> ExecState] /\ \A o \in Exec : exec'[o] = IF o = x THEN y ELSE exec[o]
  BY <1>3, ExecOthers DEF ExecGoes, ExecState
<1>5. BudgetTypes'
  BY <1>1, <1>4 DEF BudgetTypes
<1>6. Estimate[y.action] \in Nat /\ usage \in Nat /\ BudgetLimit \in Nat
  <2>1. usage \in Nat /\ BudgetLimit \in Nat
    BY BudgetNumbers DEF BudgetTypes
  <2>2. Estimate[y.action] \in Nat
    BY <1>3, ExecRecords, DataAssumption
  <2> QED
    BY <2>1, <2>2
<1>7. ~execCrossed => usage + Estimate[y.action] <= BudgetLimit
  BY <1>1, <1>3, <1>6 DEF BudgetHolds
<1>8. BudgetHolds'
  <2>1. ~execCrossed' => ~execCrossed
    BY <1>1, Zenon
  <2> QED
    BY <1>1, <1>3, <1>4, <1>7, <2>1 DEF BudgetHolds, HasRead
<1> QED
  BY <1>5, <1>8

LEMMA ExecSpends ==
  ASSUME BudgetInv, NEW x \in Exec, Budget!HandlerSucceeds(x)
  PROVE  BudgetInv'
<1> USE DEF BudgetInv
<1>1. exec[x].pc = "handler" /\ UNCHANGED <<usage, unrecorded, execCrossed>>
  BY DEF Budget!HandlerSucceeds, Budget!At
<1>2. exec[x] \in ExecActing
  BY <1>1, ExecRecords DEF BudgetTypes, ExecState
<1>3. Estimate[exec[x].action] \in Nat
  BY <1>2, ExecRecords, DataAssumption
<1>4. PICK cost \in Nat :
        /\ spent' = spent + cost /\ exec' = [exec EXCEPT ![x] = [pc |-> "addUsage", cost |-> cost]]
        /\ excess' = IF cost > Estimate[exec[x].action] + excess THEN cost - Estimate[exec[x].action] ELSE excess
  BY DataAssumption DEF Budget!HandlerSucceeds
<1>5. excess' \in Nat /\ cost <= Estimate[exec[x].action] + excess'
  BY <1>3, <1>4 DEF BudgetTypes
<1>6. PICK y : y = [pc |-> "addUsage", cost |-> cost]
  OBVIOUS
<1>7. cost \in Nat /\ y \in ExecCharging /\ y.pc = "addUsage" /\ y.cost = cost
  BY <1>4, <1>6, ExecRecords
<1>8. exec' \in [Exec -> ExecState] /\ \A o \in Exec : exec'[o] = IF o = x THEN y ELSE exec[o]
  BY <1>4, <1>6, <1>7, ExecOthers DEF ExecGoes, ExecState
<1>9. BudgetTypes'
  BY <1>1, <1>4, <1>5, <1>7, <1>8 DEF BudgetTypes
<1>10. ASSUME ~execCrossed
      PROVE  /\ spent = usage + unrecorded /\ spent + cost <= BudgetLimit + unrecorded + excess'
             /\ \A o \in Exec : HasRead(o) => o = x
  <2>1. \A o \in Exec : HasRead(o) => o = x
    BY <1>1, <1>10 DEF BudgetHolds, HasRead
  <2>2. \A o \in Exec : exec[o].pc # "addUsage"
    BY <1>1, <2>1 DEF HasRead
  <2>3. spent = usage + unrecorded /\ usage + Estimate[exec[x].action] <= BudgetLimit
    BY <1>1, <1>10, <2>2 DEF BudgetHolds
  <2> QED
    BY <1>3, <1>5, <2>1, <2>3, BudgetNumbers DEF BudgetTypes
<1>11. BudgetHolds'
  <2>1. ~execCrossed' => ~execCrossed
    BY <1>1, Zenon
  <2> QED
    BY <1>1, <1>4, <1>7, <1>8, <1>10, <2>1 DEF BudgetHolds, HasRead
<1> QED
  BY <1>9, <1>11

LEMMA ExecCharges ==
  ASSUME BudgetInv, NEW x \in Exec, Budget!AddUsage(x) \/ Budget!RejectsAfterRun(x)
  PROVE  BudgetInv'
<1> USE DEF BudgetInv
<1>0. PICK cost : cost = exec[x].cost
  OBVIOUS
<1>1. /\ exec[x].pc = "addUsage" /\ exec' = [exec EXCEPT ![x] = Budget!NoExec] /\ UNCHANGED <<spent, excess, execCrossed>>
      /\ \/ usage' = usage + cost /\ UNCHANGED unrecorded
         \/ unrecorded' = unrecorded + cost /\ UNCHANGED usage
  BY <1>0 DEF Budget!AddUsage, Budget!RejectsAfterRun, Budget!At, Budget!Ends
<1>2. cost \in Nat
  BY <1>0, <1>1, ExecRecords DEF BudgetTypes, ExecState
<1>3. exec' \in [Exec -> ExecState] /\ \A o \in Exec : exec'[o] = IF o = x THEN Budget!NoExec ELSE exec[o]
  BY <1>1, ExecOthers DEF ExecGoes, ExecState
<1>4. BudgetTypes'
  BY <1>1, <1>2, <1>3 DEF BudgetTypes
<1>5. ASSUME ~execCrossed
      PROVE  /\ spent = usage' + unrecorded' /\ spent <= BudgetLimit + unrecorded' + excess
             /\ \A o \in Exec : ~HasRead(o)'
  <2>1. \A o \in Exec : HasRead(o) => o = x
    BY <1>1, <1>5 DEF BudgetHolds, HasRead
  <2>2. \A o \in Exec : ~HasRead(o)'
    BY <1>3, <2>1, ExecRecords DEF HasRead
  <2>3. spent = usage + unrecorded + cost /\ spent <= BudgetLimit + unrecorded + excess
    BY <1>0, <1>1, <1>5 DEF BudgetHolds
  <2> QED
    BY <1>1, <1>2, <2>2, <2>3, BudgetNumbers DEF BudgetTypes
<1>6. BudgetHolds'
  <2>1. ~execCrossed' => ~execCrossed
    BY <1>1, Zenon
  <2> QED
    BY <1>1, <1>5, <2>1 DEF BudgetHolds, HasRead
<1> QED
  BY <1>4, <1>6

LEMMA BudgetStep == BudgetInv /\ [Next]_vars => BudgetInv'
<1> SUFFICES ASSUME BudgetInv, [Next]_vars PROVE BudgetInv'
  OBVIOUS
<1>1. CASE UNCHANGED budget
  BY <1>1 DEF budget, BudgetInv, BudgetTypes, BudgetHolds, HasRead
<1>2. CASE Budget!Next
  BY <1>2, ExecBeginsOrEnds, ExecReads, ExecGoesOn, ExecSpends, ExecCharges DEF Budget!Next
<1> QED
  BY <1>1, <1>2, BudgetMoves

-----------------------------------------------------------------------------
(* TenantResolver *)

LEMMA TenantMoves == [Next]_vars => Tenants!Next \/ UNCHANGED tenancy
BY DEF Next, At, Unless, vars

Resolving == [pc : {"member", "exact", "domain", "owner", "slug", "create", "retry"}, resolver : Resolver,
              due : BOOLEAN, failed : BOOLEAN, overtaken : BOOLEAN]
DefaultTenants == Seq([overtaken : BOOLEAN, failed : BOOLEAN])

TenantTypes ==
  /\ deployment \in Deployment /\ tenants \in DefaultTenants
  /\ tenantCall \in [TenantCall -> {Tenants!NoCall} \cup Resolving]

Excused(x) == x.overtaken = TRUE \/ x.failed = TRUE

\* A call that is past the lookup by owner, or by slug, has missed no tenant without an
\* excuse; one that looks again has one to find; and one that is due the user's own
\* tenant is still to look where it is.
ResolvesWell(x) ==
  /\ x.pc = "create" \/ (x.pc = "slug" /\ deployment.email) => tenants = <<>> \/ Excused(x)
  /\ x.pc = "retry" => tenants # <<>> \/ x.failed = TRUE
  /\ x.due = TRUE => \/ x.pc = "member" /\ "row" \in own /\ own \cap Tenants!Links # {}
                     \/ x.pc = "exact" /\ ("owner" \in own \/ "domain" \in own)
                     \/ x.pc = "domain" /\ "domain" \in own
CallsResolveWell == \A c \in TenantCall : tenantCall[c] # Tenants!NoCall => ResolvesWell(tenantCall[c])

Excuses(q) == \A i \in DOMAIN q : i > 1 => Excused(q[i])

AnswersWell(tenant, due, failed) ==
  /\ due = TRUE => tenant = "own"
  /\ tenant = "none" => failed = TRUE \/ ~deployment.slugIsAdmin
AnswerIsGood ==
  /\ answer.due \in BOOLEAN /\ answer.failed \in BOOLEAN
  /\ AnswersWell(answer.tenant, answer.due, answer.failed)

TenantInv == TenantTypes /\ CallsResolveWell /\ Excuses(tenants) /\ AnswerIsGood

Places == {"member", "exact", "domain", "owner", "slug", "create", "retry"}

LEMMA TenantRecords ==
  /\ Tenants!NoCall.pc = "idle"
  /\ \A x \in Resolving :
       /\ x # Tenants!NoCall /\ x.resolver \in Resolver /\ x.pc \in Places
       /\ x.due \in BOOLEAN /\ x.failed \in BOOLEAN /\ x.overtaken \in BOOLEAN
BY DEF Resolving, Places, Tenants!NoCall

LEMMA ResolvingAt ==
  ASSUME NEW x \in Resolving, NEW pc \in Places, NEW y, y = [x EXCEPT !.pc = pc]
  PROVE  y \in Resolving /\ y.pc = pc /\ y.due = x.due /\ y.failed = x.failed /\ y.overtaken = x.overtaken
BY DEF Resolving, Places

LEMMA ResolvingDue ==
  ASSUME NEW x \in Resolving, NEW b \in BOOLEAN, NEW y, y = [x EXCEPT !.due = b]
  PROVE  y \in Resolving /\ y.pc = x.pc /\ y.due = b /\ y.failed = x.failed /\ y.overtaken = x.overtaken
BY DEF Resolving

LEMMA ResolvingFailed ==
  ASSUME NEW x \in Resolving, NEW y, y = [x EXCEPT !.failed = TRUE]
  PROVE  y \in Resolving /\ y.pc = x.pc /\ y.due = x.due /\ y.failed = TRUE /\ y.overtaken = x.overtaken
BY DEF Resolving

LEMMA ResolvingOvertaken ==
  ASSUME NEW x \in Resolving, NEW y, y = [x EXCEPT !.overtaken = TRUE]
  PROVE  y \in Resolving /\ y.pc = x.pc /\ y.due = x.due /\ y.failed = x.failed /\ y.overtaken = TRUE
BY DEF Resolving

LEMMA TenantInit == Tenants!Init => TenantInv
<1> SUFFICES ASSUME Tenants!Init PROVE TenantInv
  OBVIOUS
<1>1. TenantTypes /\ Excuses(tenants)
  BY DEF Tenants!Init, TenantTypes, DefaultTenants, Excuses
<1>2. CallsResolveWell
  BY DEF Tenants!Init, CallsResolveWell
<1>3. AnswerIsGood
  BY DEF Tenants!Init, AnswerIsGood, AnswersWell
<1> QED
  BY <1>1, <1>2, <1>3 DEF TenantInv

\* What a call does by itself: it goes on with x from another place, or answers.
LEMMA TenantGoes ==
  ASSUME TenantInv, NEW c \in TenantCall, NEW x \in Resolving,
         NEW pc \in Places,
         UNCHANGED <<deployment, tenants, own>>, Tenants!At(c, x, pc),
         ResolvesWell([x EXCEPT !.pc = pc])
  PROVE  TenantInv'
<1> USE DEF TenantInv
<1>1. PICK y : y = [x EXCEPT !.pc = pc]
  OBVIOUS
<1>2. y \in Resolving /\ ResolvesWell(y)
  BY <1>1, ResolvingAt
<1>3. tenantCall' = [tenantCall EXCEPT ![c] = y] /\ answer' = answer
  BY <1>1 DEF Tenants!At
<1>4. TenantTypes'
  BY <1>2, <1>3 DEF TenantTypes
<1>5. CallsResolveWell'
  BY <1>2, <1>3 DEF TenantTypes, CallsResolveWell, ResolvesWell, Excused
<1> QED
  BY <1>3, <1>4, <1>5 DEF Excuses, Excused, AnswerIsGood, AnswersWell

LEMMA TenantEnds ==
  ASSUME TenantInv, NEW c \in TenantCall, NEW x \in Resolving, NEW t,
         UNCHANGED <<deployment, tenants, own>>, Tenants!Ends(c, x, t),
         AnswersWell(t, x.due, x.failed)
  PROVE  TenantInv'
<1> USE DEF TenantInv
<1>1. /\ tenantCall' = [tenantCall EXCEPT ![c] = Tenants!NoCall]
      /\ answer' = [tenant |-> t, due |-> x.due, failed |-> x.failed]
  BY DEF Tenants!Ends
<1>2. TenantTypes'
  BY <1>1 DEF TenantTypes
<1>3. CallsResolveWell'
  BY <1>1 DEF TenantTypes, CallsResolveWell, ResolvesWell, Excused
<1>4. AnswerIsGood'
  BY <1>1, TenantRecords DEF AnswerIsGood, AnswersWell
<1> QED
  BY <1>2, <1>3, <1>4 DEF Excuses, Excused

LEMMA TenantDefaults ==
  ASSUME TenantInv, NEW c \in TenantCall, NEW x \in Resolving, x.due # TRUE,
         UNCHANGED <<deployment, tenants, own>>, Tenants!DefaultTenant(c, x)
  PROVE  TenantInv'
<1>1. CASE Tenants!Ends(c, x, "default")
  BY <1>1, TenantEnds DEF AnswersWell
<1>2. CASE deployment.email /\ Tenants!At(c, x, "owner")
  <2>0. PICK y : y = [x EXCEPT !.pc = "owner"]
    OBVIOUS
  <2>3. y.pc = "owner" /\ y.due = x.due
    BY <2>0, ResolvingAt DEF Places
  <2>1. y.pc = "owner" /\ y.due # TRUE
    BY <2>3, Zenon
  <2>2. ResolvesWell([x EXCEPT !.pc = "owner"])
    BY <2>0, <2>1 DEF ResolvesWell
  <2> QED
    BY <1>2, <2>2, TenantGoes DEF Places
<1>3. CASE ~deployment.email /\ Tenants!At(c, x, "slug")
  <2>0. PICK y : y = [x EXCEPT !.pc = "slug"]
    OBVIOUS
  <2>3. y.pc = "slug" /\ y.due = x.due
    BY <2>0, ResolvingAt DEF Places
  <2>1. y.pc = "slug" /\ y.due # TRUE
    BY <2>3, Zenon
  <2>2. ResolvesWell([x EXCEPT !.pc = "slug"])
    BY <1>3, <2>0, <2>1 DEF ResolvesWell
  <2> QED
    BY <1>3, <2>2, TenantGoes DEF Places
<1> QED
  BY <1>1, <1>2, <1>3 DEF Tenants!DefaultTenant

LEMMA TenantAsks ==
  ASSUME TenantInv, NEW c \in TenantCall, NEW r \in Resolver, Tenants!GetTenantId(c, r)
  PROVE  TenantInv'
<1>0. PICK due, x, z : /\ due = ("row" \in own /\ own \cap Tenants!Links # {})
                       /\ x = [pc |-> "member", resolver |-> r, due |-> FALSE, failed |-> FALSE, overtaken |-> FALSE]
                       /\ z = [x EXCEPT !.due = due]
  OBVIOUS
<1>1. x \in Resolving /\ x.pc = "member" /\ x.due # TRUE
  BY <1>0 DEF Resolving
<1>2. due \in BOOLEAN /\ (due = TRUE => "row" \in own /\ own \cap Tenants!Links # {})
  BY <1>0, Zenon
<1>3. z \in Resolving /\ z.pc = "member" /\ z.due = due
  BY <1>0, <1>1, <1>2, ResolvingDue
<1>4. UNCHANGED <<deployment, tenants, own>> /\ (Tenants!DefaultTenant(c, x) \/ Tenants!At(c, z, "member"))
  BY <1>0, Zenon DEF Tenants!GetTenantId
<1>5. ResolvesWell([z EXCEPT !.pc = "member"])
  BY <1>2, <1>3, ResolvingAt DEF ResolvesWell, Places
<1> QED
  BY <1>1, <1>3, <1>4, <1>5, TenantDefaults, TenantGoes DEF Places

\* A call is where it is, and resolves well.
LEMMA TenantIsAt ==
  ASSUME TenantInv, NEW c \in TenantCall, tenantCall[c].pc \in Places
  PROVE  tenantCall[c] \in Resolving /\ ResolvesWell(tenantCall[c])
BY TenantRecords DEF TenantInv, TenantTypes, CallsResolveWell, Places

LEMMA TenantLooksUp ==
  ASSUME TenantInv, NEW c \in TenantCall, Tenants!LookUpUser(c)
  PROVE  TenantInv'
<1>0. PICK x : x = tenantCall[c]
  OBVIOUS
<1>1. UNCHANGED <<deployment, tenants, own>> /\ x.pc \in {"member", "exact", "domain"}
  BY <1>0 DEF Tenants!LookUpUser, Tenants!MemberFound, Tenants!ExactFound, Tenants!DomainFound
<1>2. x \in Resolving /\ ResolvesWell(x)
  BY <1>0, <1>1, TenantIsAt DEF Places
<1>3. AnswersWell("own", x.due, x.failed)
  BY DEF AnswersWell
<1>4. CASE Tenants!Ends(c, x, "own")
  BY <1>1, <1>2, <1>3, <1>4, TenantEnds
<1>5. ASSUME Tenants!DefaultTenant(c, x),
             (x.pc = "member" /\ "row" \notin own) \/ (x.pc = "domain" /\ "domain" \notin own)
      PROVE  TenantInv'
  <2>1. x.due # TRUE
    BY <1>2, <1>5 DEF ResolvesWell
  <2> QED
    BY <1>1, <1>2, <1>5, <2>1, TenantDefaults
<1>6. CASE Tenants!At(c, x, "exact") /\ x.pc = "member" /\ "tenantId" \notin own
  <2>1. x.due = TRUE => "owner" \in own \/ "domain" \in own
    BY <1>2, <1>6 DEF ResolvesWell, Tenants!Links
  <2>2. ResolvesWell([x EXCEPT !.pc = "exact"])
    BY <1>2, <2>1, ResolvingAt DEF ResolvesWell, Places
  <2> QED
    BY <1>1, <1>2, <1>6, <2>2, TenantGoes DEF Places
<1>7. CASE Tenants!At(c, x, "domain") /\ x.pc = "exact" /\ "owner" \notin own
  <2>1. x.due = TRUE => "domain" \in own
    BY <1>2, <1>7 DEF ResolvesWell
  <2>2. ResolvesWell([x EXCEPT !.pc = "domain"])
    BY <1>2, <2>1, ResolvingAt DEF ResolvesWell, Places
  <2> QED
    BY <1>1, <1>2, <1>7, <2>2, TenantGoes DEF Places
<1>8. CASE Tenants!MemberFound(c)
  <2>1. CASE "row" \notin own
    <3>1. x.pc = "member" /\ Tenants!DefaultTenant(c, x)
      BY <1>0, <1>8, <2>1 DEF Tenants!MemberFound
    <3> QED
      BY <1>5, <2>1, <3>1
  <2>2. CASE "row" \in own /\ "tenantId" \in own
    BY <1>0, <1>4, <1>8, <2>2 DEF Tenants!MemberFound
  <2>3. CASE "row" \in own /\ "tenantId" \notin own
    BY <1>0, <1>6, <1>8, <2>3 DEF Tenants!MemberFound
  <2> QED
    BY <2>1, <2>2, <2>3
<1>9. CASE Tenants!ExactFound(c)
  BY <1>0, <1>4, <1>7, <1>9 DEF Tenants!ExactFound
<1>10. CASE Tenants!DomainFound(c)
  BY <1>0, <1>4, <1>5, <1>10 DEF Tenants!DomainFound
<1> QED
  BY <1>8, <1>9, <1>10 DEF Tenants!LookUpUser

LEMMA TenantLookupRejects ==
  ASSUME TenantInv, NEW c \in TenantCall, Tenants!LookupRejects(c)
  PROVE  TenantInv'
<1>0. PICK x : x = tenantCall[c]
  OBVIOUS
<1>d. PICK due : due = (x.due /\ "domain" \in own)
  OBVIOUS
<1>r. PICK y, z : y = [x EXCEPT !.due = FALSE] /\ z = [x EXCEPT !.due = due]
  OBVIOUS
<1>1. UNCHANGED <<deployment, tenants, own>> /\ x.pc \in {"member", "exact", "domain"}
  BY <1>0 DEF Tenants!LookupRejects
<1>2. x \in Resolving
  BY <1>0, <1>1, TenantIsAt DEF Places
<1>3. y \in Resolving /\ y.due # TRUE
  BY <1>r, <1>2, ResolvingDue
<1>4. due \in BOOLEAN /\ (due = TRUE => "domain" \in own)
  <2>1. due => "domain" \in own
    BY <1>d, Zenon
  <2>2. due \in BOOLEAN
    BY <1>d, Zenon
  <2> QED
    BY <2>1, <2>2
<1>5. z \in Resolving /\ z.due = due
  BY <1>r, <1>2, <1>4, ResolvingDue
<1>6. Tenants!DefaultTenant(c, y) \/ Tenants!At(c, z, "domain")
  BY <1>0, <1>d, <1>r, Zenon DEF Tenants!LookupRejects
<1>7. ResolvesWell([z EXCEPT !.pc = "domain"])
  BY <1>4, <1>5, ResolvingAt DEF ResolvesWell, Places
<1> QED
  BY <1>1, <1>3, <1>5, <1>6, <1>7, TenantDefaults, TenantGoes DEF Places

LEMMA TenantFinds ==
  ASSUME TenantInv, NEW c \in TenantCall, NEW i, Tenants!Finds(c, i)
  PROVE  TenantInv'
<1>1. /\ tenantCall[c].pc \in {"owner", "slug", "retry"} /\ UNCHANGED <<deployment, tenants, own>>
      /\ Tenants!Ends(c, tenantCall[c], "default")
  BY DEF Tenants!Finds
<1>2. tenantCall[c] \in Resolving /\ ResolvesWell(tenantCall[c])
  BY <1>1, TenantIsAt DEF Places
<1>3. AnswersWell("default", tenantCall[c].due, tenantCall[c].failed)
  BY <1>1, <1>2 DEF AnswersWell, ResolvesWell
<1> QED
  BY <1>1, <1>2, <1>3, TenantEnds

\* A lookup finds nothing, because there is nothing, or because it looks for another
\* slug, or it failed.
LEMMA TenantMisses ==
  ASSUME TenantInv, NEW c \in TenantCall, NEW x \in Resolving, UNCHANGED <<deployment, tenants, own>>,
         Tenants!Past(c, x), ResolvesWell(x),
         x.failed = TRUE \/ tenants = <<>> \/ (x.pc # "owner" /\ ~deployment.slugIsAdmin)
  PROVE  TenantInv'
<1>1. deployment.email \/ deployment.slugIsAdmin
  BY DataAssumption DEF TenantInv, TenantTypes
<1>2. CASE x.pc = "owner" /\ Tenants!At(c, x, "slug")
  <2>1. ResolvesWell([x EXCEPT !.pc = "slug"])
    BY <1>2, ResolvingAt DEF ResolvesWell, Places, Excused
  <2> QED
    BY <1>2, <2>1, TenantGoes DEF Places
<1>3. CASE x.pc = "slug" /\ Tenants!At(c, x, "create")
  <2>1. ResolvesWell([x EXCEPT !.pc = "create"])
    BY <1>1, <1>3, ResolvingAt DEF ResolvesWell, Places, Excused
  <2> QED
    BY <1>3, <2>1, TenantGoes DEF Places
<1>4. CASE x.pc = "retry" /\ Tenants!Ends(c, x, "none")
  <2>1. AnswersWell("none", x.due, x.failed)
    BY <1>4 DEF AnswersWell, ResolvesWell
  <2> QED
    BY <1>4, <2>1, TenantEnds
<1> QED
  BY <1>2, <1>3, <1>4 DEF Tenants!Past

LEMMA TenantFindsNone ==
  ASSUME TenantInv, NEW c \in TenantCall, Tenants!FindsNone(c) \/ Tenants!FindRejects(c)
  PROVE  TenantInv'
<1>1. UNCHANGED <<deployment, tenants, own>>
  BY DEF Tenants!FindsNone, Tenants!FindRejects
<1>2. CASE Tenants!FindsNone(c)
  <2>1. tenantCall[c].pc \in Places /\ Tenants!Past(c, tenantCall[c])
    BY <1>2 DEF Tenants!FindsNone, Tenants!Past, Places
  <2>2. tenantCall[c] \in Resolving /\ ResolvesWell(tenantCall[c])
    BY <2>1, TenantIsAt
  <2> QED
    BY <1>1, <1>2, <2>1, <2>2, TenantMisses DEF Tenants!FindsNone
<1>3. CASE Tenants!FindRejects(c)
  <2>1. PICK x : x = [tenantCall[c] EXCEPT !.failed = TRUE]
    OBVIOUS
  <2>2. tenantCall[c] # Tenants!NoCall /\ Tenants!Past(c, x)
    BY <1>3, <2>1 DEF Tenants!FindRejects
  <2>3. tenantCall[c] \in Resolving /\ ResolvesWell(tenantCall[c])
    BY <2>2 DEF TenantInv, TenantTypes, CallsResolveWell
  <2>4. x \in Resolving /\ x.failed = TRUE /\ ResolvesWell(x)
    BY <2>1, <2>3, ResolvingFailed DEF ResolvesWell, Excused
  <2> QED
    BY <1>1, <2>2, <2>4, TenantMisses
<1> QED
  BY <1>2, <1>3

\* A default tenant appears, with an excuse if there was one.
LEMMA TenantInserts ==
  ASSUME TenantInv, NEW c \in TenantCall, tenantCall[c].pc = "create", Tenants!Insert(c)
  PROVE  tenants' \in DefaultTenants /\ tenants' # <<>> /\ Excuses(tenants')
<1> USE DEF TenantInv
<1>0. PICK x, y : x = tenantCall[c] /\ y = [overtaken |-> x.overtaken, failed |-> x.failed]
  OBVIOUS
<1>1. x \in Resolving /\ ResolvesWell(x)
  BY <1>0, TenantIsAt DEF Places
<1>2. y \in [overtaken : BOOLEAN, failed : BOOLEAN] /\ y.overtaken = x.overtaken /\ y.failed = x.failed
  BY <1>0, <1>1, TenantRecords
<1>3. tenants' = Append(tenants, y) /\ tenants \in Seq([overtaken : BOOLEAN, failed : BOOLEAN])
  BY <1>0 DEF Tenants!Insert, TenantTypes, DefaultTenants
<1>4. /\ tenants' \in DefaultTenants /\ tenants' # <<>>
      /\ DOMAIN tenants' = 1 .. (Len(tenants) + 1) /\ Len(tenants) \in Nat /\ DOMAIN tenants = 1 .. Len(tenants)
      /\ \A i \in 1 .. Len(tenants) : tenants'[i] = tenants[i]
      /\ tenants'[Len(tenants) + 1] = y
  BY <1>2, <1>3 DEF DefaultTenants
<1>5. Len(tenants) > 0 => Excused(y)
  <2>1. tenants # <<>> => Excused(x)
    BY <1>0, <1>1 DEF ResolvesWell
  <2>2. Excused(x) => Excused(y)
    BY <1>2 DEF Excused
  <2> QED
    BY <1>3, <2>1, <2>2
<1>6. ASSUME NEW i \in DOMAIN tenants', i > 1 PROVE Excused(tenants'[i])
  <2>1. CASE i = Len(tenants) + 1
    BY <1>4, <1>5, <1>6, <2>1
  <2>2. CASE i \in 1 .. Len(tenants)
    BY <1>4, <1>6, <2>2 DEF Excuses
  <2> QED
    BY <1>4, <1>6, <2>1, <2>2
<1> QED
  BY <1>4, <1>6 DEF Excuses, Excused

\* ... which the other calls have missed that are past the lookups.
LEMMA TenantMissed ==
  ASSUME TenantInv, NEW c \in TenantCall, tenantCall[c].pc = "create", Tenants!Insert(c),
         UNCHANGED <<deployment, own>>
  PROVE  /\ Tenants!Missed(c) \in [TenantCall -> {Tenants!NoCall} \cup Resolving]
         /\ \A o \in TenantCall : \A z :
              o # c /\ z = Tenants!Missed(c)[o] /\ z # Tenants!NoCall => ResolvesWell(z)'
<1> USE DEF TenantInv
<1>1. tenants' # <<>>
  BY TenantInserts
<1>2. ASSUME NEW o \in TenantCall, NEW z, z = Tenants!Missed(c)[o]
      PROVE  /\ z \in {Tenants!NoCall} \cup Resolving
             /\ o # c /\ z # Tenants!NoCall => ResolvesWell(tenantCall[o]) /\ tenantCall[o] \in Resolving
             /\ o # c /\ z # Tenants!NoCall /\ z.pc \in {"slug", "create"} => z.overtaken = TRUE
             /\ o # c /\ z # Tenants!NoCall =>
                  z.pc = tenantCall[o].pc /\ z.due = tenantCall[o].due /\ z.failed = tenantCall[o].failed
  <2>1. CASE o # c /\ tenantCall[o].pc \in {"slug", "create"}
    <3>1. tenantCall[o] \in Resolving /\ ResolvesWell(tenantCall[o])
      BY <2>1, TenantIsAt DEF Places
    <3>2. z = [tenantCall[o] EXCEPT !.overtaken = TRUE]
      BY <1>2, <2>1 DEF Tenants!Missed
    <3> QED
      BY <3>1, <3>2, ResolvingOvertaken
  <2>2. CASE ~(o # c /\ tenantCall[o].pc \in {"slug", "create"})
    <3>1. z = tenantCall[o]
      BY <1>2, <2>2 DEF Tenants!Missed
    <3> QED
      BY <2>2, <3>1 DEF TenantTypes, CallsResolveWell
  <2> QED
    BY <2>1, <2>2
<1>3. Tenants!Missed(c) \in [TenantCall -> {Tenants!NoCall} \cup Resolving]
  <2>1. \A o \in TenantCall : Tenants!Missed(c)[o] \in {Tenants!NoCall} \cup Resolving
    BY <1>2
  <2> QED
    BY <2>1 DEF Tenants!Missed
<1>4. ASSUME NEW o \in TenantCall, o # c, NEW z, z = Tenants!Missed(c)[o], z # Tenants!NoCall
      PROVE  ResolvesWell(z)'
  <2>1. ResolvesWell(tenantCall[o]) /\ (z.pc \in {"slug", "create"} => Excused(z))
    BY <1>2, <1>4 DEF Excused
  <2>2. z.pc = tenantCall[o].pc /\ z.due = tenantCall[o].due
    BY <1>2, <1>4
  <2>3. z.pc = "create" \/ (z.pc = "slug" /\ deployment'.email) => tenants' = <<>> \/ Excused(z)
    BY <2>1
  <2>4. z.pc = "retry" => tenants' # <<>> \/ z.failed = TRUE
    BY <1>1
  <2>5. z.due = TRUE => \/ z.pc = "member" /\ "row" \in own' /\ own' \cap Tenants!Links # {}
                        \/ z.pc = "exact" /\ ("owner" \in own' \/ "domain" \in own')
                        \/ z.pc = "domain" /\ "domain" \in own'
    BY <2>1, <2>2 DEF ResolvesWell
  <2> QED
    BY <2>3, <2>4, <2>5 DEF ResolvesWell, Excused, Tenants!Links
<1> QED
  BY <1>3, <1>4

LEMMA TenantCreates ==
  ASSUME TenantInv, NEW c \in TenantCall, Tenants!Create(c)
  PROVE  TenantInv'
<1> USE DEF TenantInv
<1>0. PICK x : x = tenantCall[c]
  OBVIOUS
<1>1. /\ x.pc = "create" /\ Tenants!Insert(c) /\ UNCHANGED <<deployment, own>>
      /\ tenantCall' = [Tenants!Missed(c) EXCEPT ![c] = Tenants!NoCall]
      /\ answer' = [tenant |-> "default", due |-> x.due, failed |-> x.failed]
  BY <1>0 DEF Tenants!Create
<1>2. x \in Resolving /\ ResolvesWell(x)
  BY <1>0, <1>1, TenantIsAt DEF Places
<1>3. tenants' \in DefaultTenants /\ Excuses(tenants')
  BY <1>0, <1>1, TenantInserts
<1>4. /\ Tenants!Missed(c) \in [TenantCall -> {Tenants!NoCall} \cup Resolving]
      /\ \A o \in TenantCall : \A z :
           o # c /\ z = Tenants!Missed(c)[o] /\ z # Tenants!NoCall => ResolvesWell(z)'
  BY <1>0, <1>1, TenantMissed
<1>5. /\ tenantCall' \in [TenantCall -> {Tenants!NoCall} \cup Resolving]
      /\ \A o \in TenantCall : tenantCall'[o] = IF o = c THEN Tenants!NoCall ELSE Tenants!Missed(c)[o]
  BY <1>1, <1>4
<1>6. TenantTypes'
  BY <1>1, <1>3, <1>5 DEF TenantTypes
<1>7. CallsResolveWell'
  <2>1. ASSUME NEW o \in TenantCall, NEW z, z = tenantCall'[o], z # Tenants!NoCall PROVE ResolvesWell(z)'
    BY <1>4, <1>5, <2>1
  <2> QED
    BY <2>1 DEF CallsResolveWell, ResolvesWell, Excused
<1>8. AnswerIsGood'
  <2>1. x.due # TRUE
    BY <1>1, <1>2 DEF ResolvesWell
  <2> QED
    BY <1>1, <1>2, <2>1, TenantRecords DEF AnswerIsGood, AnswersWell
<1> QED
  BY <1>3, <1>6, <1>7, <1>8 DEF Excuses, Excused

LEMMA TenantCreateRefused ==
  ASSUME TenantInv, NEW c \in TenantCall, Tenants!CreateRefused(c)
  PROVE  TenantInv'
<1>0. PICK x, y : x = tenantCall[c] /\ y = [x EXCEPT !.pc = "retry"]
  OBVIOUS
<1>1. /\ x.pc = "create" /\ tenants # <<>> /\ UNCHANGED <<deployment, tenants, own>>
      /\ Tenants!At(c, x, "retry")
  BY <1>0 DEF Tenants!CreateRefused, Tenants!Taken
<1>2. x \in Resolving /\ ResolvesWell(x)
  BY <1>0, <1>1, TenantIsAt DEF Places
<1>3. y.pc = "retry" /\ y.due = x.due
  BY <1>0, <1>2, ResolvingAt DEF Places
<1>4. y.due # TRUE
  <2>1. x.due # TRUE
    BY <1>1, <1>2 DEF ResolvesWell
  <2> QED
    BY <1>3, <2>1, Zenon
<1>5. ResolvesWell([x EXCEPT !.pc = "retry"])
  BY <1>0, <1>1, <1>3, <1>4 DEF ResolvesWell
<1> QED
  BY <1>1, <1>2, <1>5, TenantGoes DEF Places

LEMMA TenantCreateRejects ==
  ASSUME TenantInv, NEW c \in TenantCall, Tenants!CreateRejects(c)
  PROVE  TenantInv'
<1> USE DEF TenantInv
<1>0. PICK x, y : x = tenantCall[c] /\ y = [x EXCEPT !.pc = "retry", !.failed = TRUE]
  OBVIOUS
<1>1. /\ x.pc = "create" /\ UNCHANGED <<deployment, own, answer>>
      /\ \/ UNCHANGED tenants /\ tenantCall' = [tenantCall EXCEPT ![c] = y]
         \/ Tenants!Insert(c) /\ tenantCall' = [Tenants!Missed(c) EXCEPT ![c] = y]
  BY <1>0 DEF Tenants!CreateRejects
<1>2. x \in Resolving /\ ResolvesWell(x)
  BY <1>0, <1>1, TenantIsAt DEF Places
<1>3. y \in Resolving /\ y.pc = "retry" /\ y.failed = TRUE /\ y.due = x.due
  BY <1>0, <1>2 DEF Resolving
<1>4. y.due # TRUE
  <2>1. x.due # TRUE
    BY <1>1, <1>2 DEF ResolvesWell
  <2> QED
    BY <1>3, <2>1, Zenon
<1>5. ResolvesWell(y)'
  BY <1>3, <1>4 DEF ResolvesWell
<1>6. AnswerIsGood'
  BY <1>1 DEF AnswerIsGood, AnswersWell
<1>7. CASE UNCHANGED tenants /\ tenantCall' = [tenantCall EXCEPT ![c] = y]
  <2>1. TenantTypes' /\ Excuses(tenants')
    BY <1>1, <1>3, <1>7 DEF TenantTypes, Excuses, Excused
  <2>2. CallsResolveWell'
    BY <1>1, <1>5, <1>7 DEF TenantTypes, CallsResolveWell, ResolvesWell, Excused
  <2> QED
    BY <1>6, <2>1, <2>2 DEF Excuses, Excused
<1>8. CASE Tenants!Insert(c) /\ tenantCall' = [Tenants!Missed(c) EXCEPT ![c] = y]
  <2>1. tenants' \in DefaultTenants /\ Excuses(tenants')
    BY <1>0, <1>1, <1>8, TenantInserts
  <2>2. /\ Tenants!Missed(c) \in [TenantCall -> {Tenants!NoCall} \cup Resolving]
        /\ \A o \in TenantCall : \A z :
             o # c /\ z = Tenants!Missed(c)[o] /\ z # Tenants!NoCall => ResolvesWell(z)'
    BY <1>0, <1>1, <1>8, TenantMissed
  <2>3. /\ tenantCall' \in [TenantCall -> {Tenants!NoCall} \cup Resolving]
        /\ \A o \in TenantCall : tenantCall'[o] = IF o = c THEN y ELSE Tenants!Missed(c)[o]
    BY <1>3, <1>8, <2>2
  <2>4. TenantTypes'
    BY <1>1, <2>1, <2>3 DEF TenantTypes
  <2>5. CallsResolveWell'
    <3>1. ASSUME NEW o \in TenantCall, NEW z, z = tenantCall'[o], z # Tenants!NoCall PROVE ResolvesWell(z)'
      BY <1>5, <2>2, <2>3, <3>1
    <3> QED
      BY <3>1 DEF CallsResolveWell, ResolvesWell, Excused
  <2> QED
    BY <1>6, <2>1, <2>4, <2>5 DEF Excuses, Excused
<1> QED
  BY <1>1, <1>7, <1>8

\* A process restarts, or the user is linked: what was due stays so.
LEMMA TenantRestarts ==
  ASSUME TenantInv, (\E r \in Resolver : Tenants!Restart(r)) \/ \E k : Tenants!LinkUser(k)
  PROVE  TenantInv'
<1> USE DEF TenantInv
<1>1. UNCHANGED <<deployment, tenants, answer>> /\ own \subseteq own'
  BY DEF Tenants!Restart, Tenants!LinkUser
<1>2. /\ tenantCall' \in [TenantCall -> {Tenants!NoCall} \cup Resolving]
      /\ \A c \in TenantCall : tenantCall'[c] \in {Tenants!NoCall, tenantCall[c]}
  BY DEF Tenants!Restart, Tenants!LinkUser, TenantTypes
<1>3. ASSUME NEW x, ResolvesWell(x) PROVE ResolvesWell(x)'
  BY <1>1, <1>3 DEF ResolvesWell, Excused, Tenants!Links
<1>4. CallsResolveWell'
  <2>1. ASSUME NEW c \in TenantCall, tenantCall'[c] # Tenants!NoCall PROVE ResolvesWell(tenantCall[c])'
    <3>1. tenantCall'[c] = tenantCall[c] /\ ResolvesWell(tenantCall[c])
      BY <1>2, <2>1 DEF CallsResolveWell
    <3>2. PICK x : x = tenantCall[c]
      OBVIOUS
    <3>3. ResolvesWell(x)'
      BY <1>3, <3>1, <3>2
    <3> QED
      BY <3>1, <3>2, <3>3 DEF ResolvesWell, Excused
  <2> QED
    BY <2>1 DEF CallsResolveWell
<1> QED
  BY <1>1, <1>2, <1>4 DEF TenantTypes, Excuses, Excused, AnswerIsGood, AnswersWell

LEMMA TenantStep == TenantInv /\ [Next]_vars => TenantInv'
<1> SUFFICES ASSUME TenantInv, [Next]_vars PROVE TenantInv'
  OBVIOUS
<1>1. CASE UNCHANGED tenancy
  BY <1>1 DEF tenancy, TenantInv, TenantTypes, CallsResolveWell, ResolvesWell, Excused, Excuses,
              AnswerIsGood, AnswersWell
<1>2. ASSUME NEW c \in TenantCall,
             \/ Tenants!LookUpUser(c) \/ Tenants!LookupRejects(c) \/ Tenants!FindsNone(c) \/ Tenants!FindRejects(c)
             \/ Tenants!Create(c) \/ Tenants!CreateRefused(c) \/ Tenants!CreateRejects(c)
             \/ \E i \in DOMAIN tenants : Tenants!Finds(c, i)
      PROVE  TenantInv'
  BY <1>2, TenantLooksUp, TenantLookupRejects, TenantFindsNone, TenantCreates, TenantCreateRefused,
     TenantCreateRejects, TenantFinds
<1>3. CASE Tenants!Next
  BY <1>2, <1>3, TenantRestarts, TenantAsks DEF Tenants!Next
<1> QED
  BY <1>1, <1>3, TenantMoves

LEMMA TenantAgrees ==
  TenantInv => /\ Tenants!SecondDefaultOnlyCrossed
               /\ Tenants!MembersGetTheirTenant /\ Tenants!UnresolvedOnlyOnFailure
<1> SUFFICES ASSUME TenantInv
             PROVE  /\ Tenants!SecondDefaultOnlyCrossed
                    /\ Tenants!MembersGetTheirTenant /\ Tenants!UnresolvedOnlyOnFailure
  OBVIOUS
<1>1. Tenants!SecondDefaultOnlyCrossed
  <2> SUFFICES ASSUME NEW i \in DOMAIN tenants, i > 1 PROVE tenants[i].overtaken \/ tenants[i].failed
    BY Zenon DEF Tenants!SecondDefaultOnlyCrossed
  <2>1. Excused(tenants[i])
    BY DEF TenantInv, Excuses
  <2> QED
    BY <2>1, Zenon DEF Excused
<1>2. answer.tenant # "own" => answer.due = FALSE
  BY DEF TenantInv, AnswerIsGood, AnswersWell
<1>3. Tenants!MembersGetTheirTenant
  BY <1>2, Zenon DEF Tenants!MembersGetTheirTenant
<1>4. Tenants!UnresolvedOnlyOnFailure
  BY Zenon DEF TenantInv, AnswerIsGood, AnswersWell, Tenants!UnresolvedOnlyOnFailure
<1> QED
  BY <1>1, <1>3, <1>4

-----------------------------------------------------------------------------
(* SlidingWindow *)

LEMMA LimiterMoves == [Next]_vars => Limiter!Next \/ UNCHANGED limiter
BY DEF Next, At, Unless, vars

LEMMA LimiterNumbers == Requests \in Nat /\ RateLimit \in Nat /\ Window \in Nat /\ MaxClock \in Nat
BY ServicesAssumption

PassedAt == {"redis", "memory"}
Clock == 0 .. MaxClock
Held(p) == IF p = "redis" THEN zset ELSE memList

\* A place still holds what passed there within the window of every clock it was trimmed by.
Keeps(p) == \A o \in Limiter!Request :
              limited[o].pc = p /\ Limiter!At(o) + Window > newest[p] => o \in Held(p)

LimiterInv == Limiter!TypeOK /\ Keeps("redis") /\ Keeps("memory") /\ Limiter!RateIsLimited

LEMMA LimiterCounts == \A S : Limiter!Cardinality(S) = Cardinality(S)
BY DEF Limiter!Cardinality, Cardinality

LEMMA RequestsAreFew == IsFiniteSet(Limiter!Request)
BY LimiterNumbers, FS_Interval DEF Limiter!Request

LEMMA LimitedRecords ==
  ASSUME Limiter!TypeOK, NEW q \in Limiter!Request, limited[q] # Limiter!New
  PROVE  Limiter!At(q) \in Clock /\ Limiter!At(q) \in Nat
BY DEF Limiter!TypeOK, Limiter!At, Limiter!New, Clock

LEMMA LimiterInit == Limiter!Init => LimiterInv
<1> SUFFICES ASSUME Limiter!Init PROVE LimiterInv
  OBVIOUS
<1>1. Limiter!TypeOK
  BY LimiterNumbers DEF Limiter!Init, Limiter!TypeOK, Limiter!New
<1>2. \A q \in Limiter!Request : limited[q].pc \notin PassedAt
  BY DEF Limiter!Init, Limiter!New, PassedAt
<1>3. Keeps("redis") /\ Keeps("memory")
  BY <1>2 DEF Keeps, PassedAt
<1>4. Limiter!RateIsLimited
  <2> SUFFICES ASSUME NEW p \in PassedAt, NEW t \in Clock
               PROVE  Limiter!Cardinality({q \in Limiter!Request : /\ limited[q].pc = p
                                           /\ Limiter!At(q) <= t /\ Limiter!Within(t, q)}) <= RateLimit
    BY DEF Limiter!RateIsLimited, PassedAt, Clock
  <2>1. {q \in Limiter!Request : limited[q].pc = p /\ Limiter!At(q) <= t /\ Limiter!Within(t, q)} = {}
    BY <1>2
  <2> QED
    BY <2>1, LimiterCounts, FS_EmptySet, LimiterNumbers
<1> QED
  BY <1>1, <1>3, <1>4 DEF LimiterInv

\* A decision about q by the clock a keeps the rate if the place that lets q pass held
\* fewer than the limit from before, and q is marked where that clock is behind.
LEMMA LimiterDecides ==
  ASSUME LimiterInv, NEW q \in Limiter!Request, limited[q].pc \notin PassedAt,
         NEW pc \in {"exec", "zrem", "redis", "memory", "unmetered", "refused"}, NEW a \in Clock,
         Limiter!Decided(q, pc, a), behind \subseteq behind',
         pc \in PassedAt =>
           /\ a < newest[pc] => q \in behind'
           /\ Cardinality({o \in Held(pc) : Limiter!Within(a, o)}) < RateLimit
  PROVE  Limiter!RateIsLimited'
<1> USE DEF LimiterInv
<1> DEFINE InWindow(o, p, t) == limited[o].pc = p /\ Limiter!At(o) <= t /\ Limiter!Within(t, o)
<1>1. SUFFICES ASSUME NEW p \in PassedAt, NEW t \in Clock, NEW S,
                      S = {o \in Limiter!Request : InWindow(o, p, t)'}
               PROVE  Cardinality(S) <= RateLimit \/ S \cap behind' # {}
  BY LimiterCounts DEF Limiter!RateIsLimited, PassedAt, Clock
<1>2. PICK T : T = {o \in Limiter!Request : InWindow(o, p, t)}
  OBVIOUS
<1>3. Cardinality(T) <= RateLimit \/ T \cap behind # {}
  BY <1>2, LimiterCounts DEF Limiter!RateIsLimited, PassedAt, Clock
<1>4. IsFiniteSet(T) /\ q \notin T /\ T \subseteq Limiter!Request
  BY <1>1, <1>2, RequestsAreFew, FS_Subset
<1>5. /\ \A o \in Limiter!Request : o # q => limited'[o] = limited[o]
      /\ limited'[q].pc = pc /\ limited'[q].at = a
  BY DEF Limiter!Decided, Limiter!TypeOK
<1>6. \A o \in Limiter!Request : o # q => (InWindow(o, p, t)' <=> InWindow(o, p, t))
  BY <1>5 DEF Limiter!At, Limiter!Within
<1>7. CASE q \notin S
  <2>1. S = T
    BY <1>1, <1>2, <1>4, <1>6, <1>7
  <2> QED
    BY <1>3, <2>1
<1>8. CASE q \in S /\ q \in behind'
  BY <1>8
<1>9. CASE q \in S /\ q \notin behind'
  <2>1. pc = p /\ a <= t /\ ~(a < newest[p])
    BY <1>1, <1>5, <1>9 DEF Limiter!At
  <2>2. PICK R : R = {o \in Held(p) : Limiter!Within(a, o)}
    OBVIOUS
  <2>3. Cardinality(R) < RateLimit /\ Keeps(p)
    BY <1>1, <2>1, <2>2 DEF PassedAt
  <2>4. Held(p) \subseteq Limiter!Request /\ newest[p] \in Nat /\ a \in Nat /\ t \in Nat
    BY <1>1 DEF Held, Limiter!TypeOK, Clock, PassedAt
  <2>5. T \subseteq R
    <3> SUFFICES ASSUME NEW o \in T PROVE o \in R
      OBVIOUS
    <3>1. o \in Limiter!Request /\ limited[o].pc = p /\ Limiter!At(o) + Window > t
      BY <1>2 DEF Limiter!Within
    <3>2. limited[o] # Limiter!New
      BY <1>1, <3>1 DEF PassedAt, Limiter!New
    <3>3. Limiter!At(o) \in Nat
      BY <3>1, <3>2, LimitedRecords
    <3>4. Limiter!At(o) + Window > a /\ Limiter!At(o) + Window > newest[p]
      BY <2>1, <2>4, <3>1, <3>3, LimiterNumbers
    <3> QED
      BY <2>2, <2>3, <3>1, <3>4 DEF Keeps, Limiter!Within
  <2>6. IsFiniteSet(R)
    BY <2>2, <2>4, RequestsAreFew, FS_Subset
  <2>7. Cardinality(T) <= Cardinality(R) /\ Cardinality(T) \in Nat /\ Cardinality(R) \in Nat
    BY <1>4, <2>5, <2>6, FS_Subset, FS_CardinalityType
  <2>8. S = T \cup {q}
    BY <1>1, <1>2, <1>4, <1>6, <1>9
  <2>9. Cardinality(S) = Cardinality(T) + 1
    BY <1>4, <2>8, FS_AddElement
  <2> QED
    BY <2>3, <2>7, <2>9, LimiterNumbers
<1> QED
  BY <1>7, <1>8, <1>9

\* A place goes on holding what it should if it drops only what is out of every window
\* it was trimmed by, and takes in what passes.
LEMMA LimiterKeeps ==
  ASSUME LimiterInv, NEW q \in Limiter!Request, limited[q].pc \notin PassedAt,
         NEW pc \in {"exec", "zrem", "redis", "memory", "unmetered", "refused"}, NEW a \in Clock,
         Limiter!Decided(q, pc, a), NEW p \in PassedAt,
         newest'[p] \in Clock, newest'[p] >= newest[p],
         \A o \in Held(p) : o # q /\ limited[o].pc = p /\ Limiter!At(o) + Window > newest'[p] => o \in Held(p)',
         pc = p => q \in Held(p)'
  PROVE  Keeps(p)'
<1> USE DEF LimiterInv
<1> SUFFICES ASSUME NEW o \in Limiter!Request, (limited[o].pc = p)', (Limiter!At(o) + Window > newest[p])'
             PROVE  o \in Held(p)'
  BY DEF Keeps
<1>1. /\ o # q => limited'[o] = limited[o]
      /\ limited'[q].pc = pc
  BY DEF Limiter!Decided, Limiter!TypeOK
<1>2. CASE o = q
  BY <1>1, <1>2
<1>3. CASE o # q
  <2>1. limited[o].pc = p /\ Limiter!At(o) + Window > newest'[p]
    BY <1>1, <1>3 DEF Limiter!At
  <2>2. limited[o] # Limiter!New
    BY <2>1 DEF PassedAt, Limiter!New
  <2>3. Limiter!At(o) \in Nat /\ newest[p] \in Nat /\ newest'[p] \in Nat
    BY <2>2, LimitedRecords DEF Limiter!TypeOK, PassedAt, Clock
  <2>4. Limiter!At(o) + Window > newest[p]
    BY <2>1, <2>3, LimiterNumbers
  <2>5. Keeps(p)
    BY DEF PassedAt
  <2> QED
    BY <1>3, <2>1, <2>4, <2>5 DEF Keeps
<1> QED
  BY <1>2, <1>3

LEMMA LimiterTrims ==
  ASSUME LimiterInv, NEW q \in Limiter!Request, NEW places \in SUBSET PassedAt, NEW a \in Clock,
         Limiter!Trims(q, places, a)
  PROVE  /\ newest' \in [PassedAt -> Clock] /\ behind \subseteq behind' /\ behind' \subseteq Limiter!Request
         /\ \A p \in PassedAt : newest'[p] >= newest[p] /\ (p \notin places => newest'[p] = newest[p])
         /\ \A p \in places : newest'[p] >= a /\ (a < newest[p] => q \in behind')
<1> USE DEF LimiterInv, Limiter!TypeOK, Clock
<1>1. newest \in [PassedAt -> Clock]
  BY DEF PassedAt
<1>2. newest' = [p \in PassedAt |-> IF p \in places /\ a > newest[p] THEN a ELSE newest[p]]
  BY DEF Limiter!Trims, PassedAt
<1>3. \A p \in PassedAt : newest'[p] = IF p \in places /\ a > newest[p] THEN a ELSE newest[p]
  BY <1>2
<1>4. newest' \in [PassedAt -> Clock]
  BY <1>1, <1>2
<1>5. behind' = IF \E p \in places : a < newest[p] THEN behind \cup {q} ELSE behind
  BY DEF Limiter!Trims
<1>6. /\ behind \subseteq behind' /\ behind' \subseteq Limiter!Request
      /\ \A p \in places : a < newest[p] => q \in behind'
  BY <1>5
<1>7. \A p \in PassedAt : newest'[p] >= newest[p] /\ (p \notin places => newest'[p] = newest[p])
  BY <1>1, <1>3
<1>8. \A p \in places : newest'[p] >= a
  BY <1>1, <1>3
<1> QED
  BY <1>4, <1>6, <1>7, <1>8

LEMMA LimitedType ==
  ASSUME Limiter!TypeOK, NEW q \in Limiter!Request, NEW a \in Clock,
         NEW pc \in {"exec", "zrem", "redis", "memory", "unmetered", "refused"}, Limiter!Decided(q, pc, a)
  PROVE  limited' \in [Limiter!Request -> {Limiter!New} \cup
                         [pc : {"exec", "zrem", "redis", "memory", "unmetered", "refused"}, at : 0 .. MaxClock]]
BY DEF Limiter!TypeOK, Limiter!Decided, Clock

\* A request falls back on the list, while the sorted set is trimmed by its clock, or is
\* not, and holds what it held within the window.
LEMMA LimiterFallsBack ==
  ASSUME LimiterInv, NEW q \in Limiter!Request, limited[q].pc \notin PassedAt, NEW a \in Clock,
         Limiter!FallBack(q, a), NEW places \in SUBSET PassedAt, "memory" \in places,
         Limiter!Trims(q, places, a), zset' \subseteq Limiter!Request,
         \A o \in zset : o # q /\ limited[o].pc = "redis" /\ Limiter!At(o) + Window > newest'["redis"] => o \in zset',
         UNCHANGED now
  PROVE  LimiterInv'
<1> USE DEF LimiterInv
<1>1. PICK R : R = {o \in memList : Limiter!Within(a, o)}
  OBVIOUS
<1>2. R = {o \in Held("memory") : Limiter!Within(a, o)} /\ R \subseteq Limiter!Request
  BY <1>1 DEF Held, Limiter!TypeOK
<1>3. IsFiniteSet(R) /\ Cardinality(R) \in Nat
  BY <1>2, RequestsAreFew, FS_Subset, FS_CardinalityType
<1>4. PICK pc \in {"refused", "memory"} :
        /\ Limiter!Decided(q, pc, a)
        /\ memList' = IF pc = "memory" THEN R \cup {q} ELSE R
        /\ pc = "memory" => Cardinality(R) < RateLimit
  <2>1. CASE Cardinality(R) >= RateLimit
    BY <1>1, <2>1, LimiterCounts DEF Limiter!FallBack
  <2>2. CASE ~(Cardinality(R) >= RateLimit)
    <3>1. Limiter!Decided(q, "memory", a) /\ memList' = R \cup {q}
      BY <1>1, <2>2, LimiterCounts DEF Limiter!FallBack
    <3> QED
      BY <1>3, <2>2, <3>1, LimiterNumbers
  <2> QED
    BY <2>1, <2>2
<1>5. /\ newest' \in [PassedAt -> Clock] /\ behind \subseteq behind' /\ behind' \subseteq Limiter!Request
      /\ \A p \in PassedAt : newest'[p] >= newest[p]
      /\ newest'["memory"] >= a /\ (a < newest["memory"] => q \in behind')
  BY LimiterTrims
<1>6. Limiter!TypeOK'
  <2>1. memList' \subseteq Limiter!Request /\ now' \in 0 .. MaxClock
    BY <1>2, <1>4 DEF Limiter!TypeOK
  <2> QED
    BY <1>4, <1>5, <2>1, LimitedType DEF Limiter!TypeOK, Clock, PassedAt
<1>7. Limiter!RateIsLimited'
  BY <1>2, <1>4, <1>5, LimiterDecides DEF PassedAt
<1>8. Keeps("redis")'
  BY <1>4, <1>5, LimiterKeeps DEF PassedAt, Held
<1>9. Keeps("memory")'
  <2>1. ASSUME NEW o \in memList, o # q, limited[o].pc = "memory", Limiter!At(o) + Window > newest'["memory"]
        PROVE  o \in memList'
    <3>1. o \in Limiter!Request /\ limited[o] # Limiter!New
      BY <2>1 DEF Limiter!TypeOK, Limiter!New
    <3>2. Limiter!At(o) \in Nat /\ newest'["memory"] \in Nat /\ a \in Nat
      BY <1>5, <3>1, LimitedRecords DEF Clock, PassedAt
    <3>3. Limiter!At(o) + Window > a
      BY <1>5, <2>1, <3>2, LimiterNumbers
    <3> QED
      BY <1>1, <1>4, <3>3 DEF Limiter!Within
  <2>2. \A o \in Held("memory") : o # q /\ limited[o].pc = "memory"
           /\ Limiter!At(o) + Window > newest'["memory"] => o \in Held("memory")'
    BY <2>1 DEF Held
  <2>3. newest'["memory"] \in Clock /\ newest'["memory"] >= newest["memory"]
    BY <1>5 DEF PassedAt
  <2>4. CASE pc = "memory"
    <3>1. q \in Held("memory")'
      BY <1>4, <2>4 DEF Held
    <3>2. Limiter!Decided(q, pc, a)
      BY <1>4
    <3> QED
      BY <2>2, <2>3, <2>4, <3>1, <3>2, LimiterKeeps DEF PassedAt
  <2>5. CASE pc = "refused"
    <3>2. Limiter!Decided(q, pc, a)
      BY <1>4
    <3> QED
      BY <2>2, <2>3, <2>5, <3>2, LimiterKeeps DEF PassedAt
  <2> QED
    BY <1>4, <2>4, <2>5
<1> QED
  BY <1>6, <1>7, <1>8, <1>9

LEMMA LimiterBegins ==
  ASSUME LimiterInv, NEW q \in Limiter!Request, Limiter!Begin(q)
  PROVE  LimiterInv'
<1> USE DEF LimiterInv
<1>1. UNCHANGED <<now, zset>> /\ now \in Clock
  BY DEF Limiter!Begin, Limiter!TypeOK, Clock
<1>2. limited[q].pc \notin PassedAt
  BY DEF Limiter!Begin, Limiter!New, PassedAt
<1>3. CASE Limiter!Decided(q, "exec", now) /\ UNCHANGED <<memList, newest, behind>>
  <2>1. Limiter!TypeOK'
    BY <1>1, <1>3, LimitedType DEF Limiter!TypeOK, Clock
  <2>2. Limiter!RateIsLimited'
    BY <1>1, <1>2, <1>3, LimiterDecides DEF PassedAt
  <2>3. newest \in [PassedAt -> Clock]
    BY DEF Limiter!TypeOK, PassedAt, Clock
  <2>4. \A p \in PassedAt : /\ newest'[p] \in Clock /\ newest'[p] >= newest[p] /\ Held(p)' = Held(p)
    BY <1>1, <1>3, <2>3 DEF Held, Clock
  <2>5. \A p \in PassedAt : Keeps(p)'
    BY <1>1, <1>2, <1>3, <2>4, LimiterKeeps DEF PassedAt
  <2> QED
    BY <2>1, <2>2, <2>5 DEF PassedAt
<1>4. CASE Limiter!FallBack(q, now) /\ Limiter!Trims(q, {"memory"}, now)
  <2>1. zset' = zset /\ zset \subseteq Limiter!Request
    BY <1>1 DEF Limiter!TypeOK
  <2> QED
    BY <1>1, <1>2, <1>4, <2>1, LimiterFallsBack DEF PassedAt
<1> QED
  BY <1>3, <1>4 DEF Limiter!Begin

\* A request under way has a clock, and has not passed.
LEMMA LimitedUnderWay ==
  ASSUME Limiter!TypeOK, NEW q \in Limiter!Request, limited[q].pc \in {"exec", "zrem"}
  PROVE  Limiter!At(q) \in Clock /\ limited[q].pc \notin PassedAt
BY LimitedRecords DEF Limiter!New, PassedAt

\* The pipeline drops nothing within a window it was trimmed by.
LEMMA PipelineKeeps ==
  ASSUME LimiterInv, NEW q \in Limiter!Request, limited[q].pc \in {"exec", "zrem"},
         NEW places \in SUBSET PassedAt, "redis" \in places, Limiter!Trims(q, places, Limiter!At(q)),
         zset' = Limiter!Trimmed(q) \cup {q}
  PROVE  /\ zset' \subseteq Limiter!Request
         /\ \A o \in zset : limited[o].pc = "redis" /\ Limiter!At(o) + Window > newest'["redis"] => o \in zset'
<1> USE DEF LimiterInv
<1>1. zset \subseteq Limiter!Request /\ Limiter!At(q) \in Nat
  BY LimitedUnderWay DEF Limiter!TypeOK, Clock
<1>2. newest'["redis"] \in Nat /\ newest'["redis"] >= Limiter!At(q)
  BY LimitedUnderWay, LimiterTrims DEF PassedAt, Clock
<1>3. ASSUME NEW o \in zset, limited[o].pc = "redis", Limiter!At(o) + Window > newest'["redis"]
      PROVE  o \in zset'
  <2>1. o \in Limiter!Request /\ limited[o] # Limiter!New
    BY <1>1, <1>3 DEF Limiter!New
  <2>2. Limiter!At(o) \in Nat
    BY <2>1, LimitedRecords
  <2>3. Limiter!At(o) + Window > Limiter!At(q)
    BY <1>1, <1>2, <1>3, <2>2, LimiterNumbers
  <2> QED
    BY <2>3 DEF Limiter!Trimmed, Limiter!Within
<1> QED
  BY <1>1, <1>3 DEF Limiter!Trimmed

LEMMA LimiterPipeline ==
  ASSUME LimiterInv, NEW q \in Limiter!Request, Limiter!Pipeline(q)
  PROVE  LimiterInv'
<1> USE DEF LimiterInv
<1>1. PICK a : a = Limiter!At(q)
  OBVIOUS
<1>2. PICK pc \in {"zrem", "redis"} :
        /\ Limiter!Decided(q, pc, a)
        /\ pc = "redis" => ~(Cardinality(Limiter!Trimmed(q)) >= RateLimit)
  BY <1>1, LimiterCounts DEF Limiter!Pipeline, Limiter!CountBefore
<1>3. /\ limited[q].pc = "exec" /\ zset' = Limiter!Trimmed(q) \cup {q}
      /\ Limiter!Trims(q, {"redis"}, a) /\ UNCHANGED <<now, memList>>
  BY <1>1 DEF Limiter!Pipeline
<1>4. a \in Clock /\ limited[q].pc \notin PassedAt
  BY <1>1, <1>3, LimitedUnderWay
<1>5. /\ newest' \in [PassedAt -> Clock] /\ behind \subseteq behind' /\ behind' \subseteq Limiter!Request
      /\ \A p \in PassedAt : newest'[p] >= newest[p]
      /\ a < newest["redis"] => q \in behind'
  BY <1>3, <1>4, LimiterTrims DEF PassedAt
<1>6. /\ zset' \subseteq Limiter!Request
      /\ \A o \in zset : limited[o].pc = "redis" /\ Limiter!At(o) + Window > newest'["redis"] => o \in zset'
  BY <1>1, <1>3, PipelineKeeps DEF PassedAt
<1>7. Limiter!TypeOK'
  BY <1>2, <1>3, <1>4, <1>5, <1>6, LimitedType DEF Limiter!TypeOK, PassedAt, Clock
<1>8. Limiter!RateIsLimited'
  <2>1. {o \in Held("redis") : Limiter!Within(a, o)} = Limiter!Trimmed(q)
    BY <1>1 DEF Held, Limiter!Trimmed
  <2>2. Limiter!Trimmed(q) \subseteq Limiter!Request
    BY DEF Limiter!Trimmed, Limiter!TypeOK
  <2>3. Cardinality(Limiter!Trimmed(q)) \in Nat
    BY <2>2, RequestsAreFew, FS_Subset, FS_CardinalityType
  <2>4. pc = "redis" => Cardinality({o \in Held("redis") : Limiter!Within(a, o)}) < RateLimit
    <3>1. RateLimit \in Nat
      BY LimiterNumbers
    <3> QED
      BY <1>2, <2>1, <2>3, <3>1
  <2>5. CASE pc = "redis"
    <3>1. Limiter!Decided(q, pc, a)
      BY <1>2
    <3> QED
      BY <1>4, <1>5, <2>4, <2>5, <3>1, LimiterDecides
  <2>6. CASE pc = "zrem"
    <3>1. Limiter!Decided(q, pc, a)
      BY <1>2
    <3> QED
      BY <1>4, <1>5, <2>6, <3>1, LimiterDecides DEF PassedAt
  <2> QED
    BY <1>2, <2>5, <2>6
<1>9. Keeps("redis")'
  BY <1>2, <1>3, <1>4, <1>5, <1>6, LimiterKeeps DEF PassedAt, Held
<1>10. Keeps("memory")'
  BY <1>2, <1>3, <1>4, <1>5, LimiterKeeps DEF PassedAt, Held
<1> QED
  BY <1>7, <1>8, <1>9, <1>10

\* What it lets through by an answer without a count is not counted as passed.
LEMMA LimiterPipelineErrs ==
  ASSUME LimiterInv, NEW q \in Limiter!Request, Limiter!PipelineErrs(q)
  PROVE  LimiterInv'
<1> USE DEF LimiterInv
<1>0. PICK a : a = Limiter!At(q)
  OBVIOUS
<1>1. PICK pc \in {"zrem", "unmetered"} :
        /\ limited[q].pc = "exec" /\ Limiter!Decided(q, pc, a)
        /\ UNCHANGED <<now, memList>>
        /\ \/ UNCHANGED <<zset, newest, behind>>
           \/ zset' = Limiter!Trimmed(q) \cup {q} /\ Limiter!Trims(q, {"redis"}, a)
  BY <1>0 DEF Limiter!PipelineErrs
<1>2. a \in Clock /\ limited[q].pc \notin PassedAt /\ newest \in [PassedAt -> Clock]
  BY <1>0, <1>1, LimitedUnderWay DEF Limiter!TypeOK, PassedAt, Clock
<1>3. /\ newest' \in [PassedAt -> Clock] /\ behind \subseteq behind' /\ behind' \subseteq Limiter!Request
      /\ \A p \in PassedAt : newest'[p] >= newest[p]
      /\ UNCHANGED zset \/ (zset' = Limiter!Trimmed(q) \cup {q} /\ newest'["redis"] >= a)
  <2>1. CASE UNCHANGED <<zset, newest, behind>>
    BY <1>2, <2>1 DEF Limiter!TypeOK, Clock
  <2>2. CASE zset' = Limiter!Trimmed(q) \cup {q} /\ Limiter!Trims(q, {"redis"}, a)
    BY <1>2, <2>2, LimiterTrims DEF PassedAt
  <2> QED
    BY <1>1, <2>1, <2>2
<1>4. zset \subseteq Limiter!Request /\ zset' \subseteq Limiter!Request
  BY <1>3 DEF Limiter!TypeOK, Limiter!Trimmed
<1>5. Limiter!TypeOK'
  BY <1>1, <1>2, <1>3, <1>4, LimitedType DEF Limiter!TypeOK, PassedAt, Clock
<1>6. Limiter!RateIsLimited'
  BY <1>1, <1>2, <1>3, LimiterDecides DEF PassedAt
<1>7. ASSUME NEW o \in zset, limited[o].pc = "redis", Limiter!At(o) + Window > newest'["redis"]
      PROVE  o \in zset'
  <2>1. CASE UNCHANGED zset
    BY <2>1
  <2>2. CASE zset' = Limiter!Trimmed(q) \cup {q} /\ newest'["redis"] >= a
    <3>1. Limiter!At(o) \in Nat /\ newest'["redis"] \in Nat /\ a \in Nat
      BY <1>2, <1>3, <1>4, <1>7, LimitedRecords DEF Limiter!New, Clock, PassedAt
    <3>2. Limiter!At(o) + Window > a
      BY <1>7, <2>2, <3>1, LimiterNumbers
    <3> QED
      BY <1>0, <2>2, <3>2 DEF Limiter!Trimmed, Limiter!Within
  <2> QED
    BY <1>3, <2>1, <2>2
<1>8. Keeps("redis")'
  BY <1>1, <1>2, <1>3, <1>7, LimiterKeeps DEF PassedAt, Held
<1>9. Keeps("memory")'
  BY <1>1, <1>2, <1>3, LimiterKeeps DEF PassedAt, Held
<1> QED
  BY <1>5, <1>6, <1>8, <1>9

LEMMA LimiterUndoes ==
  ASSUME LimiterInv, NEW q \in Limiter!Request, Limiter!Undo(q)
  PROVE  LimiterInv'
<1> USE DEF LimiterInv
<1>1. PICK a : a = Limiter!At(q)
  OBVIOUS
<1>2. /\ limited[q].pc = "zrem" /\ zset' = zset \ {q} /\ Limiter!Decided(q, "refused", a)
      /\ UNCHANGED <<now, memList, newest, behind>>
  BY <1>1 DEF Limiter!Undo
<1>3. a \in Clock /\ limited[q].pc \notin PassedAt
  BY <1>1, <1>2, LimitedUnderWay
<1>4. Limiter!TypeOK'
  BY <1>2, <1>3, LimitedType DEF Limiter!TypeOK
<1>5. Limiter!RateIsLimited'
  BY <1>2, <1>3, LimiterDecides DEF PassedAt
<1>6. newest \in [PassedAt -> Clock]
  BY DEF Limiter!TypeOK, PassedAt, Clock
<1>7. \A p \in PassedAt : newest'[p] \in Clock /\ newest'[p] >= newest[p]
  BY <1>2, <1>6 DEF Clock
<1>8. Keeps("redis")'
  BY <1>2, <1>3, <1>7, LimiterKeeps DEF PassedAt, Held
<1>9. Keeps("memory")'
  BY <1>2, <1>3, <1>7, LimiterKeeps DEF PassedAt, Held
<1> QED
  BY <1>4, <1>5, <1>8, <1>9

LEMMA LimiterRejects ==
  ASSUME LimiterInv, NEW q \in Limiter!Request, Limiter!RedisRejects(q)
  PROVE  LimiterInv'
<1> USE DEF LimiterInv
<1>1. PICK a : a = Limiter!At(q)
  OBVIOUS
<1>2. /\ limited[q].pc \in {"exec", "zrem"} /\ Limiter!FallBack(q, a) /\ UNCHANGED now
      /\ a \in Clock /\ limited[q].pc \notin PassedAt /\ zset \subseteq Limiter!Request
  BY <1>1, LimitedUnderWay DEF Limiter!RedisRejects, Limiter!TypeOK
<1>3. CASE zset' \in {zset, zset \ {q}} /\ Limiter!Trims(q, {"memory"}, a)
  <2>1. zset' \subseteq Limiter!Request /\ \A o \in zset : o # q => o \in zset'
    BY <1>2, <1>3
  <2> QED
    BY <1>2, <1>3, <2>1, LimiterFallsBack DEF PassedAt
<1>4. CASE zset' = Limiter!Trimmed(q) \cup {q} /\ Limiter!Trims(q, {"redis", "memory"}, a)
  <2>1. /\ zset' \subseteq Limiter!Request
        /\ \A o \in zset : limited[o].pc = "redis" /\ Limiter!At(o) + Window > newest'["redis"] => o \in zset'
    BY <1>1, <1>2, <1>4, PipelineKeeps DEF PassedAt
  <2> QED
    BY <1>2, <1>4, <2>1, LimiterFallsBack DEF PassedAt
<1> QED
  BY <1>1, <1>3, <1>4 DEF Limiter!RedisRejects

LEMMA LimiterStep == LimiterInv /\ [Next]_vars => LimiterInv'
<1> SUFFICES ASSUME LimiterInv, [Next]_vars PROVE LimiterInv'
  OBVIOUS
<1>1. CASE UNCHANGED <<zset, memList, limited, newest, behind>> /\ now' \in Clock
  <2>1. Limiter!TypeOK'
    BY <1>1 DEF LimiterInv, Limiter!TypeOK, Clock
  <2>2. Keeps("redis")' /\ Keeps("memory")'
    BY <1>1 DEF LimiterInv, Keeps, Held, Limiter!At
  <2>3. Limiter!RateIsLimited'
    BY <1>1 DEF LimiterInv, Limiter!RateIsLimited, Limiter!At, Limiter!Within
  <2> QED
    BY <2>1, <2>2, <2>3 DEF LimiterInv
<1>2. CASE UNCHANGED limiter
  BY <1>1, <1>2 DEF limiter, LimiterInv, Limiter!TypeOK, Clock
<1>3. CASE Limiter!Tick
  BY <1>1, <1>3, LimiterNumbers DEF Limiter!Tick, LimiterInv, Limiter!TypeOK, Clock
<1>4. CASE \E q \in Limiter!Request : \/ Limiter!Begin(q) \/ Limiter!Pipeline(q) \/ Limiter!PipelineErrs(q)
                                        \/ Limiter!Undo(q) \/ Limiter!RedisRejects(q)
  BY <1>4, LimiterBegins, LimiterPipeline, LimiterPipelineErrs, LimiterUndoes, LimiterRejects
<1> QED
  BY <1>2, <1>3, <1>4, LimiterMoves DEF Limiter!Next

-----------------------------------------------------------------------------
(* UsageQuota *)

LEMMA QuotaMoves == [Next]_vars => Quota!Next \/ UNCHANGED quota
BY DEF Next, At, Unless, vars

LEMMA QuotaNumbers == QuotaLimit \in Nat /\ MaxDay \in Nat /\ MaxActs \in Nat
BY ServicesAssumption

Counting == [pc : {"count"}, used : Nat]
Working == [pc : {"work"}, seen : BOOLEAN]
Recording == [pc : {"record"}, seen : BOOLEAN, day : Quota!Day]

QuotaTypes ==
  /\ day \in Quota!Day /\ quotaCrossed \in BOOLEAN
  /\ usageEvents \in [Quota!Day -> Nat] /\ acts \in [Quota!Day -> Nat] /\ unseen \in [Quota!Day -> Nat]
  /\ metered \in [Metered -> {Quota!NoRequest} \cup Counting \cup Working \cup Recording]

\* No record is of a day that is still to come, and no count falls short of today's.
NothingFromTomorrow ==
  /\ \A d \in Quota!Day : d > day => usageEvents[d] = 0
  /\ \A q \in Metered : metered[q].pc = "count" => metered[q].used >= usageEvents[day]

Busy(x) == x.pc = "work" \/ x.pc = "record"
OneIsBusy == \A q, o \in Metered : Busy(metered[q]) /\ Busy(metered[o]) => q = o

\* What the request that is about to record its work still owes a day.
Owes(x, d) == x.pc = "record" /\ x.seen = TRUE /\ x.day = d
ActsAreCounted ==
  \A d \in Quota!Day :
    /\ acts[d] <= QuotaLimit + unseen[d]
    /\ \/ acts[d] <= usageEvents[d] + unseen[d]
       \/ acts[d] <= usageEvents[d] + unseen[d] + 1 /\ \E q \in Metered : Owes(metered[q], d)

\* Whoever was let through by a count has room on whatever day the work is done.
HasRoom(x) == x.pc = "work" /\ x.seen = TRUE => \A d \in Quota!Day : d >= day => usageEvents[d] < QuotaLimit
WorkHasRoom == \A q \in Metered : HasRoom(metered[q])

QuotaInv ==
  /\ QuotaTypes /\ NothingFromTomorrow
  /\ quotaCrossed = FALSE => OneIsBusy /\ ActsAreCounted /\ WorkHasRoom

LEMMA QuotaRecords ==
  /\ Quota!NoRequest.pc = "idle"
  /\ \A x \in Counting : x.pc = "count" /\ x.used \in Nat
  /\ \A x \in Working : x.pc = "work" /\ x.seen \in BOOLEAN
  /\ \A x \in Recording : x.pc = "record" /\ x.seen \in BOOLEAN /\ x.day \in Quota!Day
BY DEF Quota!NoRequest, Counting, Working, Recording

LEMMA QuotaDays == Quota!Day \subseteq Nat
BY QuotaNumbers DEF Quota!Day

LEMMA QuotaInit == Quota!Init => QuotaInv
<1> SUFFICES ASSUME Quota!Init PROVE QuotaInv
  OBVIOUS
<1>1. QuotaTypes
  <2>1. day \in Quota!Day
    BY QuotaNumbers DEF Quota!Init, Quota!Day
  <2>4. quotaCrossed \in BOOLEAN
    BY Zenon DEF Quota!Init
  <2>2. metered \in [Metered -> {Quota!NoRequest} \cup Counting \cup Working \cup Recording]
    BY DEF Quota!Init
  <2>3. usageEvents \in [Quota!Day -> Nat] /\ acts \in [Quota!Day -> Nat] /\ unseen \in [Quota!Day -> Nat]
    BY DEF Quota!Init
  <2> QED
    BY <2>1, <2>2, <2>3, <2>4 DEF QuotaTypes
<1>2. \A q \in Metered : metered[q].pc = "idle"
  BY QuotaRecords DEF Quota!Init
<1>3. NothingFromTomorrow
  BY <1>2 DEF Quota!Init, NothingFromTomorrow
<1>4. OneIsBusy /\ WorkHasRoom
  BY <1>2 DEF OneIsBusy, WorkHasRoom, HasRoom, Busy
<1>5. ActsAreCounted
  BY QuotaNumbers DEF Quota!Init, ActsAreCounted
<1> QED
  BY <1>1, <1>3, <1>4, <1>5 DEF QuotaInv

LEMMA QuotaAsks ==
  ASSUME QuotaInv, NEW q \in Metered, Quota!EnforceUsageLimit(q)
  PROVE  QuotaInv'
<1> USE DEF QuotaInv
<1>0. PICK y : y = [pc |-> "count", used |-> usageEvents[day]]
  OBVIOUS
<1>1. metered' = [metered EXCEPT ![q] = y] /\ UNCHANGED <<day, usageEvents, acts, unseen, quotaCrossed>>
  BY <1>0 DEF Quota!EnforceUsageLimit, Quota!Becomes
<1>2. y \in Counting /\ y.pc = "count" /\ y.used = usageEvents[day] /\ usageEvents[day] \in Nat
  BY <1>0 DEF QuotaTypes, Counting
<1>3. metered[q].pc = "idle"
  BY QuotaRecords DEF Quota!EnforceUsageLimit
<1>4. \A o \in Metered : metered'[o] = IF o = q THEN y ELSE metered[o]
  BY <1>1 DEF QuotaTypes
<1>5. QuotaTypes'
  BY <1>1, <1>2 DEF QuotaTypes
<1>6. NothingFromTomorrow'
  BY <1>1, <1>2, <1>4, QuotaDays DEF NothingFromTomorrow, QuotaTypes
<1>7. ASSUME OneIsBusy, ActsAreCounted, WorkHasRoom PROVE (OneIsBusy /\ ActsAreCounted /\ WorkHasRoom)'
  <2>1. OneIsBusy'
    BY <1>2, <1>4, <1>7 DEF OneIsBusy, Busy
  <2>2. WorkHasRoom'
    BY <1>1, <1>2, <1>4, <1>7 DEF WorkHasRoom, HasRoom
  <2>3. \A o \in Metered : \A d : Owes(metered[o], d) => Owes(metered'[o], d)
    BY <1>3, <1>4 DEF Owes
  <2>4. ActsAreCounted'
    BY <1>1, <1>7, <2>3 DEF ActsAreCounted, Owes
  <2> QED
    BY <2>1, <2>2, <2>4
<1> QED
  BY <1>1, <1>5, <1>6, <1>7

\* A request that is not allowed is through.
LEMMA QuotaRefuses ==
  ASSUME QuotaInv, NEW q \in Metered, metered[q].pc = "count", Quota!Becomes(q, Quota!NoRequest),
         UNCHANGED <<day, usageEvents, acts, unseen, quotaCrossed>>
  PROVE  QuotaInv'
<1> USE DEF QuotaInv
<1>1. \A o \in Metered : metered'[o] = IF o = q THEN Quota!NoRequest ELSE metered[o]
  BY DEF Quota!Becomes, QuotaTypes
<1>2. QuotaTypes'
  BY DEF Quota!Becomes, QuotaTypes
<1>3. NothingFromTomorrow'
  BY <1>1, QuotaRecords DEF NothingFromTomorrow
<1>4. ASSUME OneIsBusy, ActsAreCounted, WorkHasRoom PROVE (OneIsBusy /\ ActsAreCounted /\ WorkHasRoom)'
  <2>1. OneIsBusy'
    BY <1>1, <1>4, QuotaRecords DEF OneIsBusy, Busy
  <2>2. WorkHasRoom'
    BY <1>1, <1>4, QuotaRecords DEF WorkHasRoom, HasRoom
  <2>3. \A o \in Metered : \A d : Owes(metered[o], d) => Owes(metered'[o], d)
    BY <1>1 DEF Owes
  <2>4. ActsAreCounted'
    BY <1>4, <2>3 DEF ActsAreCounted, Owes
  <2> QED
    BY <2>1, <2>2, <2>4
<1> QED
  BY <1>2, <1>3, <1>4

\* Nobody else is busy when a request goes on, or two have crossed.
LEMMA QuotaGoesOn ==
  ASSUME QuotaInv, NEW q \in Metered, metered[q].pc = "count", NEW seen \in BOOLEAN, Quota!GoesOn(q, seen),
         seen = TRUE => \A d \in Quota!Day : d >= day => usageEvents[d] < QuotaLimit,
         UNCHANGED <<day, usageEvents, acts, unseen>>
  PROVE  QuotaInv'
<1> USE DEF QuotaInv
<1>0. PICK y : y = [pc |-> "work", seen |-> seen]
  OBVIOUS
<1>1. metered' = [metered EXCEPT ![q] = y]
  BY <1>0 DEF Quota!GoesOn, Quota!Becomes
<1>2. y \in Working /\ y.pc = "work" /\ y.seen = seen
  BY <1>0 DEF Working
<1>3. \A o \in Metered : metered'[o] = IF o = q THEN y ELSE metered[o]
  BY <1>1 DEF QuotaTypes
<1>4. quotaCrossed' \in BOOLEAN /\ (quotaCrossed' = FALSE => quotaCrossed = FALSE /\ Quota!InWork = {})
  <2>1. quotaCrossed' = (quotaCrossed \/ Quota!InWork # {}) /\ quotaCrossed \in BOOLEAN
    BY DEF Quota!GoesOn, QuotaTypes
  <2> QED
    BY <2>1, Zenon
<1>5. QuotaTypes'
  BY <1>1, <1>2, <1>4 DEF QuotaTypes
<1>6. NothingFromTomorrow'
  BY <1>2, <1>3 DEF NothingFromTomorrow
<1>7. ASSUME OneIsBusy, ActsAreCounted, WorkHasRoom, Quota!InWork = {}
      PROVE  (OneIsBusy /\ ActsAreCounted /\ WorkHasRoom)'
  <2>1. \A o \in Metered : ~Busy(metered[o])
    BY <1>7 DEF Quota!InWork, Busy
  <2>2. OneIsBusy'
    BY <1>3, <2>1 DEF OneIsBusy, Busy
  <2>3. WorkHasRoom'
    BY <1>2, <1>3, <1>7 DEF WorkHasRoom, HasRoom
  <2>4. \A o \in Metered : \A d : ~Owes(metered[o], d)
    BY <2>1 DEF Owes, Busy
  <2>5. ActsAreCounted'
    BY <1>7, <2>4 DEF ActsAreCounted
  <2> QED
    BY <2>2, <2>3, <2>5
<1> QED
  BY <1>4, <1>5, <1>6, <1>7

LEMMA QuotaCounts ==
  ASSUME QuotaInv, NEW q \in Metered, Quota!CountSince(q) \/ Quota!CountFails(q)
  PROVE  QuotaInv'
<1> USE DEF QuotaInv
<1>1. metered[q].pc = "count" /\ UNCHANGED <<day, usageEvents, acts, unseen>>
  BY DEF Quota!CountSince, Quota!CountFails
<1>2. CASE Quota!Becomes(q, Quota!NoRequest) /\ UNCHANGED quotaCrossed
  BY <1>1, <1>2, QuotaRefuses
<1>3. CASE Quota!CountFails(q) /\ Quota!GoesOn(q, FALSE)
  BY <1>1, <1>3, QuotaGoesOn
<1>4. CASE Quota!CountSince(q) /\ Quota!Allowed(metered[q].used) /\ Quota!GoesOn(q, TRUE)
  <2>1. PICK c \in Nat : c = metered[q].used /\ c >= usageEvents[day]
    BY <1>1, QuotaRecords DEF QuotaTypes, NothingFromTomorrow
  <2>2. c < QuotaLimit
    BY <1>4, <2>1 DEF Quota!Allowed
  <2>3. day \in Quota!Day /\ usageEvents[day] \in Nat /\ day \in Nat
    BY QuotaDays DEF QuotaTypes
  <2>4. usageEvents[day] < QuotaLimit /\ 0 < QuotaLimit
    BY <2>1, <2>2, <2>3, QuotaNumbers
  <2>5. \A d \in Quota!Day : d >= day => usageEvents[d] < QuotaLimit
    BY <2>3, <2>4, QuotaDays DEF NothingFromTomorrow
  <2> QED
    BY <1>1, <1>4, <2>5, QuotaGoesOn
<1> QED
  BY <1>1, <1>2, <1>3, <1>4 DEF Quota!CountSince, Quota!CountFails

LEMMA QuotaActs ==
  ASSUME QuotaInv, NEW q \in Metered, Quota!Act(q)
  PROVE  QuotaInv'
<1> USE DEF QuotaInv
<1>0. PICK x, y : x = metered[q] /\ y = [pc |-> "record", seen |-> x.seen, day |-> day]
  OBVIOUS
<1>1. /\ x.pc = "work" /\ metered' = [metered EXCEPT ![q] = y] /\ UNCHANGED <<day, usageEvents, quotaCrossed>>
      /\ acts' = [acts EXCEPT ![day] = @ + 1]
  BY <1>0 DEF Quota!Act, Quota!Becomes
<1>2. x.seen \in BOOLEAN
  BY <1>0, <1>1, QuotaRecords DEF QuotaTypes
<1>3. y \in Recording /\ y.pc = "record" /\ y.seen = x.seen /\ y.day = day
  BY <1>0, <1>2 DEF Recording, QuotaTypes
<1>4. \A o \in Metered : metered'[o] = IF o = q THEN y ELSE metered[o]
  BY <1>1 DEF QuotaTypes
<1>5. \/ x.seen = TRUE /\ unseen' = unseen
      \/ x.seen = FALSE /\ unseen' = [unseen EXCEPT ![day] = @ + 1]
  <2>1. (x.seen /\ unseen' = unseen) \/ (~x.seen /\ unseen' = [unseen EXCEPT ![day] = @ + 1])
    BY <1>0 DEF Quota!Act, Quota!Unseen
  <2> QED
    BY <1>2, <2>1, Zenon
<1>6. QuotaTypes'
  BY <1>1, <1>3, <1>5 DEF QuotaTypes
<1>7. NothingFromTomorrow'
  BY <1>1, <1>3, <1>4 DEF NothingFromTomorrow
<1>8. ASSUME OneIsBusy, ActsAreCounted, WorkHasRoom PROVE (OneIsBusy /\ ActsAreCounted /\ WorkHasRoom)'
  <2>1. OneIsBusy'
    BY <1>0, <1>1, <1>4, <1>8 DEF OneIsBusy, Busy
  <2>2. WorkHasRoom'
    BY <1>1, <1>3, <1>4, <1>8 DEF WorkHasRoom, HasRoom
  <2>3. \A o \in Metered : \A d : ~Owes(metered[o], d)
    BY <1>0, <1>1, <1>8 DEF Owes, OneIsBusy, Busy
  <2>4. ASSUME NEW d \in Quota!Day
        PROVE  /\ acts'[d] <= QuotaLimit + unseen'[d]
               /\ \/ acts'[d] <= usageEvents[d] + unseen'[d]
                  \/ acts'[d] <= usageEvents[d] + unseen'[d] + 1 /\ Owes(metered'[q], d)
    <3>1. /\ acts[d] <= QuotaLimit + unseen[d] /\ acts[d] <= usageEvents[d] + unseen[d]
          /\ acts[d] \in Nat /\ unseen[d] \in Nat /\ usageEvents[d] \in Nat /\ QuotaLimit \in Nat
      BY <1>8, <2>3, QuotaNumbers DEF ActsAreCounted, QuotaTypes
    <3>2. acts'[d] = IF d = day THEN acts[d] + 1 ELSE acts[d]
      BY <1>1 DEF QuotaTypes
    <3>3. CASE x.seen = FALSE
      <4>1. unseen'[d] = IF d = day THEN unseen[d] + 1 ELSE unseen[d]
        BY <1>5, <3>3 DEF QuotaTypes
      <4> QED
        BY <3>1, <3>2, <4>1
    <3>4. CASE x.seen = TRUE
      <4>1. unseen'[d] = unseen[d] /\ HasRoom(x)
        BY <1>0, <1>5, <1>8, <3>4 DEF WorkHasRoom
      <4>2. d = day => usageEvents[d] < QuotaLimit
        BY <1>1, <3>4, <4>1, QuotaDays DEF HasRoom
      <4>3. d = day => Owes(metered'[q], d)
        BY <1>3, <1>4, <3>4 DEF Owes
      <4> QED
        BY <3>1, <3>2, <4>1, <4>2, <4>3
    <3> QED
      BY <1>2, <3>3, <3>4
  <2>5. ActsAreCounted'
    BY <1>1, <2>4 DEF ActsAreCounted, Owes
  <2> QED
    BY <2>1, <2>2, <2>5
<1> QED
  BY <1>1, <1>6, <1>7, <1>8

\* A record is added to the day it is, or to none; the day of the work either has it or
\* counts one unseen.
LEMMA QuotaSettles ==
  ASSUME QuotaInv, NEW q \in Metered, Quota!Record(q) \/ Quota!RecordFails(q)
  PROVE  QuotaInv'
<1> USE DEF QuotaInv
<1>0. PICK x : x = metered[q]
  OBVIOUS
<1>1. x.pc = "record" /\ UNCHANGED <<day, acts, quotaCrossed>>
  BY <1>0 DEF Quota!Record, Quota!RecordFails
<1>2. x.seen \in BOOLEAN /\ x.day \in Quota!Day /\ day \in Quota!Day
  BY <1>0, <1>1, QuotaRecords DEF QuotaTypes
<1>3. /\ metered' \in [Metered -> {Quota!NoRequest} \cup Counting \cup Working \cup Recording]
      /\ metered'[q] = Quota!NoRequest
      /\ \A o \in Metered : o # q /\ metered[o].pc # "count" => metered'[o] = metered[o]
      /\ \A o \in Metered : o # q /\ metered[o].pc = "count" =>
           metered'[o].pc = "count" /\ metered'[o].used >= usageEvents'[day]
  <2>1. /\ \A o \in Metered : metered[o].pc = "count" => metered[o] \in Counting
        /\ \A z \in Counting : LET w == [z EXCEPT !.used = @ + 1] IN
             w \in Counting /\ w.pc = "count" /\ w.used = z.used + 1
    BY QuotaRecords DEF QuotaTypes, Counting
  <2>2. CASE Quota!Record(q)
    <3>1. /\ usageEvents'[day] = usageEvents[day] + 1 /\ usageEvents[day] \in Nat
          /\ metered' = [o \in Metered |-> IF o = q THEN Quota!NoRequest
                                           ELSE IF metered[o].pc = "count" THEN [metered[o] EXCEPT !.used = @ + 1]
                                           ELSE metered[o]]
      BY <1>2, <2>2 DEF Quota!Record, QuotaTypes
    <3>2. \A o \in Metered : metered[o].pc = "count" => metered[o].used \in Nat /\ metered[o].used >= usageEvents[day]
      BY <2>1, QuotaRecords DEF NothingFromTomorrow
    <3> QED
      BY <2>1, <3>1, <3>2 DEF QuotaTypes
  <2>3. CASE Quota!RecordFails(q)
    BY <2>3 DEF Quota!RecordFails, Quota!Becomes, QuotaTypes, NothingFromTomorrow
  <2> QED
    BY <2>2, <2>3
<1>4. \/ usageEvents' = [usageEvents EXCEPT ![day] = @ + 1] /\ unseen' = unseen /\ (x.day = day \/ x.seen = FALSE)
      \/ usageEvents' = [usageEvents EXCEPT ![day] = @ + 1] /\ unseen' = [unseen EXCEPT ![x.day] = @ + 1]
      \/ usageEvents' = usageEvents /\ unseen' = unseen /\ x.seen = FALSE
      \/ usageEvents' = usageEvents /\ unseen' = [unseen EXCEPT ![x.day] = @ + 1]
  <2>1. CASE Quota!Record(q)
    <3>1. usageEvents' = [usageEvents EXCEPT ![day] = @ + 1]
      BY <2>1 DEF Quota!Record
    <3>2. ((x.day = day \/ ~x.seen) /\ unseen' = unseen) \/ unseen' = [unseen EXCEPT ![x.day] = @ + 1]
      BY <1>0, <2>1 DEF Quota!Record, Quota!Unseen
    <3>3. ((x.day = day \/ x.seen = FALSE) /\ unseen' = unseen) \/ unseen' = [unseen EXCEPT ![x.day] = @ + 1]
      BY <1>2, <3>2, Zenon
    <3> QED
      BY <3>1, <3>3
  <2>2. CASE Quota!RecordFails(q)
    <3>1. usageEvents' = usageEvents
      BY <2>2 DEF Quota!RecordFails
    <3>2. (~x.seen /\ unseen' = unseen) \/ unseen' = [unseen EXCEPT ![x.day] = @ + 1]
      BY <1>0, <2>2 DEF Quota!RecordFails, Quota!Unseen
    <3>3. (x.seen = FALSE /\ unseen' = unseen) \/ unseen' = [unseen EXCEPT ![x.day] = @ + 1]
      BY <1>2, <3>2, Zenon
    <3> QED
      BY <3>1, <3>3
  <2> QED
    BY <2>1, <2>2
<1>5. /\ usageEvents' \in [Quota!Day -> Nat] /\ unseen' \in [Quota!Day -> Nat]
      /\ \A d \in Quota!Day : /\ usageEvents'[d] >= usageEvents[d] /\ unseen'[d] >= unseen[d]
                              /\ d # day => usageEvents'[d] = usageEvents[d]
  BY <1>2, <1>4 DEF QuotaTypes
<1>6. QuotaTypes'
  BY <1>1, <1>3, <1>5 DEF QuotaTypes
<1>7. NothingFromTomorrow'
  BY <1>1, <1>3, <1>5, QuotaRecords, QuotaDays DEF NothingFromTomorrow, QuotaTypes
<1>8. ASSUME OneIsBusy, ActsAreCounted, WorkHasRoom PROVE (OneIsBusy /\ ActsAreCounted /\ WorkHasRoom)'
  <2>1. \A o \in Metered : ~Busy(metered'[o])
    BY <1>0, <1>1, <1>3, <1>8, QuotaRecords DEF OneIsBusy, Busy
  <2>2. OneIsBusy' /\ WorkHasRoom'
    BY <2>1 DEF OneIsBusy, WorkHasRoom, HasRoom, Busy
  <2>3. ASSUME NEW d \in Quota!Day
        PROVE  acts[d] <= QuotaLimit + unseen'[d] /\ acts[d] <= usageEvents'[d] + unseen'[d]
    <3>1. /\ acts[d] <= QuotaLimit + unseen[d]
          /\ acts[d] \in Nat /\ unseen[d] \in Nat /\ usageEvents[d] \in Nat /\ QuotaLimit \in Nat
          /\ unseen'[d] \in Nat /\ usageEvents'[d] \in Nat
      BY <1>5, <1>8, QuotaNumbers DEF ActsAreCounted, QuotaTypes
    <3>2. \/ acts[d] <= usageEvents[d] + unseen[d]
          \/ acts[d] <= usageEvents[d] + unseen[d] + 1 /\ Owes(x, d)
      <4>1. ASSUME NEW o \in Metered, Owes(metered[o], d) PROVE Owes(x, d)
        BY <1>0, <1>1, <1>8, <4>1 DEF Owes, OneIsBusy, Busy
      <4> QED
        BY <1>8, <4>1 DEF ActsAreCounted
    <3>3. Owes(x, d) => usageEvents'[d] + unseen'[d] >= usageEvents[d] + unseen[d] + 1
      <4> SUFFICES ASSUME x.seen = TRUE, x.day = d PROVE usageEvents'[d] + unseen'[d] >= usageEvents[d] + unseen[d] + 1
        BY DEF Owes
      <4>1. CASE unseen' = [unseen EXCEPT ![x.day] = @ + 1]
        <5>1. unseen'[d] = unseen[d] + 1 /\ usageEvents'[d] >= usageEvents[d]
          BY <1>5, <4>1 DEF QuotaTypes
        <5> QED
          BY <3>1, <5>1
      <4>2. CASE usageEvents' = [usageEvents EXCEPT ![day] = @ + 1] /\ unseen' = unseen /\ x.day = day
        <5>1. usageEvents'[d] = usageEvents[d] + 1
          BY <4>2 DEF QuotaTypes
        <5> QED
          BY <3>1, <4>2, <5>1
      <4> QED
        BY <1>4, <4>1, <4>2
    <3>4. usageEvents'[d] >= usageEvents[d] /\ unseen'[d] >= unseen[d]
      BY <1>5
    <3> QED
      BY <3>1, <3>2, <3>3, <3>4
  <2>4. ActsAreCounted'
    BY <1>1, <2>3 DEF ActsAreCounted
  <2> QED
    BY <2>2, <2>4
<1> QED
  BY <1>1, <1>6, <1>7, <1>8

LEMMA QuotaMidnight == QuotaInv /\ Quota!Midnight => QuotaInv'
<1> SUFFICES ASSUME QuotaInv, Quota!Midnight PROVE QuotaInv'
  OBVIOUS
<1> USE DEF QuotaInv
<1>1. /\ day \in Nat /\ day' = day + 1 /\ day' \in Quota!Day
      /\ UNCHANGED <<usageEvents, metered, acts, unseen, quotaCrossed>>
  BY QuotaNumbers DEF Quota!Midnight, QuotaTypes, Quota!Day
<1>2. QuotaTypes'
  BY <1>1 DEF QuotaTypes
<1>3. NothingFromTomorrow'
  <2>1. \A q \in Metered : metered[q].pc = "count" => metered[q].used \in Nat
    BY QuotaRecords DEF QuotaTypes
  <2> QED
    BY <1>1, <2>1, QuotaDays DEF NothingFromTomorrow
<1>4. ASSUME OneIsBusy, ActsAreCounted, WorkHasRoom PROVE (OneIsBusy /\ ActsAreCounted /\ WorkHasRoom)'
  <2>1. OneIsBusy'
    BY <1>1, <1>4 DEF OneIsBusy, Busy
  <2>2. ActsAreCounted'
    BY <1>1, <1>4 DEF ActsAreCounted, Owes
  <2>3. WorkHasRoom'
    BY <1>1, <1>4, QuotaDays DEF WorkHasRoom, HasRoom
  <2> QED
    BY <2>1, <2>2, <2>3
<1> QED
  BY <1>1, <1>2, <1>3, <1>4

LEMMA QuotaStep == QuotaInv /\ [Next]_vars => QuotaInv'
<1> SUFFICES ASSUME QuotaInv, [Next]_vars PROVE QuotaInv'
  OBVIOUS
<1>1. CASE UNCHANGED quota
  BY <1>1 DEF quota, QuotaInv, QuotaTypes, NothingFromTomorrow, OneIsBusy, Busy, ActsAreCounted, Owes,
              WorkHasRoom, HasRoom
<1>2. CASE \E q \in Metered : \/ Quota!EnforceUsageLimit(q) \/ Quota!CountSince(q) \/ Quota!CountFails(q)
                              \/ Quota!Act(q) \/ Quota!Record(q) \/ Quota!RecordFails(q)
  BY <1>2, QuotaAsks, QuotaCounts, QuotaActs, QuotaSettles
<1> QED
  BY <1>1, <1>2, QuotaMidnight, QuotaMoves DEF Quota!Next

LEMMA QuotaAgrees == QuotaInv => Quota!ExceededOnlyUnseen
<1> SUFFICES ASSUME QuotaInv, ~quotaCrossed, NEW d \in Quota!Day PROVE acts[d] <= QuotaLimit + unseen[d]
  BY DEF Quota!ExceededOnlyUnseen
<1>1. quotaCrossed = FALSE
  BY Zenon DEF QuotaInv, QuotaTypes
<1> QED
  BY <1>1 DEF QuotaInv, ActsAreCounted

-----------------------------------------------------------------------------
(* DeletionChecker *)

LEMMA GdprMoves == [Next]_vars => Gdpr!Next \/ UNCHANGED gdpr
BY DEF Next, At, Unless, vars

LEMMA GdprNumbers == Len(Cascade) \in Nat /\ Len(Cascade) > 0
BY ServicesAssumption

GdprTypes ==
  /\ DOMAIN request = User
  /\ check \in [Check -> Gdpr!Work \cup {Gdpr!NoCheck, [pc |-> "list"]}]
  /\ excused \in [User -> SUBSET Gdpr!Table]

\* A check is at one of the tables, or through with the last.
IsAtTable(x) ==
  /\ x.pc = "delete" => x.next <= Len(Cascade)
  /\ x.pc = "mark" => x.next = Len(Cascade) + 1

\* While nothing has failed for its user, a check has left no row in the tables it is
\* past, but for those written since.
LeavesNothing(x) ==
  x.pc = "mark" \/ (x.pc = "delete" /\ x.failed = FALSE) =>
    \A i \in 1 .. x.next - 1 : <<Cascade[i], x.user>> \in rows => Cascade[i] \in x.since

ChecksLeaveNothing == \A c \in Check : IsAtTable(check[c]) /\ LeavesNothing(check[c])

GdprInv == GdprTypes /\ ChecksLeaveNothing /\ Gdpr!CompletedLeavesNothingOlder

LEMMA GdprRecords ==
  /\ Gdpr!NoCheck.pc = "idle" /\ [pc |-> "list"].pc = "list"
  /\ \A x \in Gdpr!Work :
       /\ x.pc \in {"delete", "mark"} /\ x.user \in User /\ x.todo \in SUBSET User
       /\ x.next \in 1 .. Len(Cascade) + 1 /\ x.failed \in BOOLEAN /\ x.since \in SUBSET Gdpr!Table
BY DEF Gdpr!NoCheck, Gdpr!Work

LEMMA GdprWork ==
  ASSUME GdprTypes, NEW c \in Check, check[c].pc \in {"delete", "mark"}
  PROVE  check[c] \in Gdpr!Work
BY GdprRecords DEF GdprTypes

LEMMA GdprInit == Gdpr!Init => GdprInv
<1> SUFFICES ASSUME Gdpr!Init PROVE GdprInv
  OBVIOUS
<1>1. GdprTypes
  BY DEF Gdpr!Init, GdprTypes
<1>2. ChecksLeaveNothing
  BY GdprRecords DEF Gdpr!Init, ChecksLeaveNothing, IsAtTable, LeavesNothing
<1>3. Gdpr!CompletedLeavesNothingOlder
  BY DEF Gdpr!Init, Gdpr!CompletedLeavesNothingOlder
<1> QED
  BY <1>1, <1>2, <1>3 DEF GdprInv

\* A check is set to what leaves nothing, and rows only go.
LEMMA CheckMoves ==
  ASSUME GdprInv, NEW c \in Check, NEW y \in Gdpr!Work \cup {Gdpr!NoCheck, [pc |-> "list"]},
         check' = [check EXCEPT ![c] = y], rows' \subseteq rows, IsAtTable(y), LeavesNothing(y)'
  PROVE  /\ check' \in [Check -> Gdpr!Work \cup {Gdpr!NoCheck, [pc |-> "list"]}]
         /\ ChecksLeaveNothing'
<1>1. \A o \in Check : check'[o] = IF o = c THEN y ELSE check[o]
  BY DEF GdprInv, GdprTypes
<1>2. \A o \in Check : LeavesNothing(check[o]) => \A x : x = check[o] => LeavesNothing(x)'
  BY DEF LeavesNothing
<1>3. ASSUME NEW o \in Check PROVE (IsAtTable(check[o]) /\ LeavesNothing(check[o]))'
  <2>1. CASE o = c
    BY <1>1, <2>1 DEF IsAtTable, LeavesNothing
  <2>2. CASE o # c
    <3>1. check'[o] = check[o] /\ IsAtTable(check[o]) /\ LeavesNothing(check[o])
      BY <1>1, <2>2 DEF GdprInv, ChecksLeaveNothing
    <3> QED
      BY <3>1 DEF IsAtTable, LeavesNothing
  <2> QED
    BY <2>1, <2>2
<1> QED
  BY <1>3 DEF ChecksLeaveNothing, GdprInv, GdprTypes

LEMMA GdprProceeds ==
  ASSUME GdprInv, NEW c \in Check, NEW todo \in SUBSET User, Gdpr!Proceed(c, todo), rows' \subseteq rows
  PROVE  /\ check' \in [Check -> Gdpr!Work \cup {Gdpr!NoCheck, [pc |-> "list"]}]
         /\ ChecksLeaveNothing'
<1>1. CASE check' = [check EXCEPT ![c] = Gdpr!NoCheck]
  <2>1. IsAtTable(Gdpr!NoCheck) /\ LeavesNothing(Gdpr!NoCheck)'
    BY GdprRecords DEF IsAtTable, LeavesNothing
  <2> QED
    BY <1>1, <2>1, CheckMoves
<1>2. ASSUME NEW u \in User, NEW y,
             y = [pc |-> "delete", user |-> u, todo |-> todo \ {u}, next |-> 1, failed |-> FALSE, since |-> {}],
             check' = [check EXCEPT ![c] = y]
      PROVE  /\ check' \in [Check -> Gdpr!Work \cup {Gdpr!NoCheck, [pc |-> "list"]}]
             /\ ChecksLeaveNothing'
  <2>1. y \in Gdpr!Work /\ y.pc = "delete" /\ y.next = 1
    BY <1>2, GdprNumbers DEF Gdpr!Work
  <2>2. IsAtTable(y) /\ LeavesNothing(y)'
    BY <2>1, GdprNumbers DEF IsAtTable, LeavesNothing
  <2> QED
    BY <1>2, <2>1, <2>2, CheckMoves
<1> QED
  BY <1>1, <1>2 DEF Gdpr!Proceed

\* From the first table to past the last.
Turns == 1 .. Len(Cascade) + 1

LEMMA WorkSince ==
  ASSUME NEW x \in Gdpr!Work, NEW t \in Gdpr!Table, NEW y, y = [x EXCEPT !.since = @ \cup {t}]
  PROVE  /\ y \in Gdpr!Work /\ y.pc = x.pc /\ y.next = x.next /\ y.failed = x.failed
         /\ y.user = x.user /\ y.since = x.since \cup {t}
BY DEF Gdpr!Work

\* A check goes on to the next table, having left nothing in this one or failed.
LEMMA GdprOnward ==
  ASSUME GdprInv, NEW c \in Check, check[c].pc = "delete", NEW b \in BOOLEAN, Gdpr!Onward(c, b), rows' \subseteq rows,
         b = FALSE => check[c].failed = FALSE /\ <<Gdpr!Target(c), check[c].user>> \notin rows'
  PROVE  /\ check' \in [Check -> Gdpr!Work \cup {Gdpr!NoCheck, [pc |-> "list"]}]
         /\ ChecksLeaveNothing'
<1> USE DEF GdprInv
<1>0. PICK x : x = check[c]
  OBVIOUS
<1>1. x \in Gdpr!Work /\ x.pc = "delete" /\ x.next \in Nat /\ x.next <= Len(Cascade) /\ x.todo \in SUBSET User
  BY <1>0, GdprWork, GdprRecords, GdprNumbers DEF ChecksLeaveNothing, IsAtTable
<1>2. ASSUME b = FALSE, NEW i \in 1 .. x.next, <<Cascade[i], x.user>> \in rows'
      PROVE  Cascade[i] \in x.since
  <2>1. LeavesNothing(x) /\ x.failed = FALSE
    BY <1>0, <1>2 DEF ChecksLeaveNothing
  <2>2. i # x.next
    BY <1>0, <1>2 DEF Gdpr!Target
  <2>3. i \in 1 .. x.next - 1
    BY <1>1, <2>2
  <2> QED
    BY <1>1, <1>2, <2>1, <2>3 DEF LeavesNothing
<1>n. PICK n \in Turns : n = x.next + 1 /\ n - 1 = x.next
  BY <1>1, GdprNumbers DEF Turns
<1>3. CASE x.next < Len(Cascade)
  <2>1. PICK y : y = [x EXCEPT !.next = n, !.failed = b]
    OBVIOUS
  <2>2. check' = [check EXCEPT ![c] = y]
    BY <1>0, <1>n, <1>3, <2>1 DEF Gdpr!Onward
  <2>3. /\ y \in Gdpr!Work /\ y.pc = x.pc /\ y.next = n /\ y.failed = b
        /\ y.user = x.user /\ y.since = x.since
    BY <1>1, <1>n, <2>1 DEF Gdpr!Work, Turns
  <2>4. IsAtTable(y)
    BY <1>1, <1>n, <1>3, <2>3, GdprNumbers DEF IsAtTable
  <2>5. LeavesNothing(y)'
    <3> SUFFICES ASSUME y.failed = FALSE, NEW i \in 1 .. y.next - 1, <<Cascade[i], y.user>> \in rows'
                 PROVE  Cascade[i] \in y.since
      BY <1>1, <2>3 DEF LeavesNothing
    <3>1. b = FALSE
      BY <2>3, Zenon
    <3>2. i \in 1 .. x.next /\ <<Cascade[i], x.user>> \in rows'
      BY <1>n, <2>3
    <3> QED
      BY <1>2, <2>3, <3>1, <3>2
  <2> QED
    BY <2>2, <2>3, <2>4, <2>5, CheckMoves
<1>4. CASE ~(x.next < Len(Cascade)) /\ b = TRUE
  BY <1>0, <1>1, <1>4, GdprProceeds DEF Gdpr!Onward
<1>5. CASE ~(x.next < Len(Cascade)) /\ b = FALSE
  <2>1. PICK y : y = [x EXCEPT !.next = n, !.pc = "mark"]
    OBVIOUS
  <2>2. check' = [check EXCEPT ![c] = y]
    BY <1>0, <1>n, <1>5, <2>1 DEF Gdpr!Onward
  <2>3. y \in Gdpr!Work /\ y.pc = "mark" /\ y.next = n /\ y.user = x.user /\ y.since = x.since
    BY <1>1, <1>n, <2>1 DEF Gdpr!Work, Turns
  <2>4. IsAtTable(y)
    BY <1>1, <1>n, <1>5, <2>3, GdprNumbers DEF IsAtTable
  <2>5. LeavesNothing(y)'
    <3> SUFFICES ASSUME NEW i \in 1 .. y.next - 1, <<Cascade[i], y.user>> \in rows'
                 PROVE  Cascade[i] \in y.since
      BY DEF LeavesNothing
    <3>1. i \in 1 .. x.next /\ <<Cascade[i], x.user>> \in rows'
      BY <1>n, <2>3
    <3> QED
      BY <1>2, <1>5, <2>3, <3>1
  <2> QED
    BY <2>2, <2>3, <2>4, <2>5, CheckMoves
<1> QED
  BY <1>3, <1>4, <1>5

LEMMA GdprDeletes ==
  ASSUME GdprInv, NEW c \in Check, Gdpr!DeleteRows(c) \/ Gdpr!DeleteFails(c)
  PROVE  GdprInv'
<1> USE DEF GdprInv
<1>1. check[c].pc = "delete" /\ rows' \subseteq rows /\ UNCHANGED <<request, excused>>
  BY DEF Gdpr!DeleteRows, Gdpr!DeleteFails, Gdpr!Deleting
<1>2. /\ check' \in [Check -> Gdpr!Work \cup {Gdpr!NoCheck, [pc |-> "list"]}]
      /\ ChecksLeaveNothing'
  <2>1. CASE Gdpr!DeleteRows(c)
    <3>1. check[c].failed \in BOOLEAN
      BY <1>1, GdprWork, GdprRecords
    <3>2. <<Gdpr!Target(c), check[c].user>> \notin rows' /\ Gdpr!Onward(c, check[c].failed)
      BY <2>1 DEF Gdpr!DeleteRows
    <3> QED
      BY <1>1, <3>1, <3>2, GdprOnward
  <2>2. CASE Gdpr!DeleteFails(c)
    BY <1>1, <2>2, GdprOnward DEF Gdpr!DeleteFails
  <2> QED
    BY <2>1, <2>2
<1>3. Gdpr!CompletedLeavesNothingOlder'
  BY <1>1 DEF Gdpr!CompletedLeavesNothingOlder
<1> QED
  BY <1>1, <1>2, <1>3 DEF GdprTypes

LEMMA GdprMarks ==
  ASSUME GdprInv, NEW c \in Check, Gdpr!MarkDeletionCompleted(c)
  PROVE  GdprInv'
<1> USE DEF GdprInv
<1>0. PICK x : x = check[c]
  OBVIOUS
<1>1. /\ x.pc = "mark" /\ request' = [request EXCEPT ![x.user] = "completed"]
      /\ excused' = [excused EXCEPT ![x.user] = @ \cup x.since]
      /\ Gdpr!Proceed(c, x.todo) /\ rows' = rows
  BY <1>0 DEF Gdpr!MarkDeletionCompleted
<1>2. x \in Gdpr!Work /\ x.user \in User /\ x.todo \in SUBSET User /\ x.since \in SUBSET Gdpr!Table
  BY <1>0, <1>1, GdprWork, GdprRecords
<1>3. /\ check' \in [Check -> Gdpr!Work \cup {Gdpr!NoCheck, [pc |-> "list"]}]
      /\ ChecksLeaveNothing'
  BY <1>1, <1>2, GdprProceeds
<1>4. GdprTypes'
  BY <1>1, <1>2, <1>3 DEF GdprTypes
<1>5. ASSUME NEW i \in 1 .. Len(Cascade), <<Cascade[i], x.user>> \in rows PROVE Cascade[i] \in x.since
  <2>1. IsAtTable(x) /\ LeavesNothing(x)
    BY <1>0 DEF ChecksLeaveNothing
  <2>2. i \in 1 .. x.next - 1
    BY <1>1, <2>1, GdprNumbers DEF IsAtTable
  <2> QED
    BY <1>1, <1>5, <2>1, <2>2 DEF LeavesNothing
<1>6. Gdpr!CompletedLeavesNothingOlder'
  <2> SUFFICES ASSUME NEW u \in User, request'[u] = "completed", NEW t \in Gdpr!Table, <<t, u>> \in rows
               PROVE  t \in excused'[u]
    BY <1>1 DEF Gdpr!CompletedLeavesNothingOlder
  <2>1. CASE u = x.user
    <3>1. PICK i \in 1 .. Len(Cascade) : t = Cascade[i]
      BY DEF Gdpr!Table
    <3>2. t \in x.since
      BY <1>5, <2>1, <3>1
    <3> QED
      BY <1>1, <2>1, <3>2 DEF GdprTypes
  <2>2. CASE u # x.user
    BY <1>1, <2>2 DEF GdprTypes, Gdpr!CompletedLeavesNothingOlder
  <2> QED
    BY <2>1, <2>2
<1> QED
  BY <1>3, <1>4, <1>6

\* A row is written, and every check that is past its table, and a completed request, is
\* told so.
LEMMA GdprWrites ==
  ASSUME GdprInv, NEW w \in Written, Gdpr!WriteRow(w[1], w[2])
  PROVE  GdprInv'
<1> USE DEF GdprInv
<1>0. PICK t, u : t = w[1] /\ u = w[2]
  OBVIOUS
<1>1. t \in Gdpr!Table
  BY <1>0, DataAssumption DEF Gdpr!Table
<1>2. rows' = rows \cup {<<t, u>>} /\ request' = request
  BY <1>0 DEF Gdpr!WriteRow
<1>3. /\ DOMAIN check' = Check /\ check' = [c \in Check |-> check'[c]]
      /\ \A c \in Check :
           check'[c] = IF ~Gdpr!Free(c) /\ check[c].pc # "list" /\ check[c].user = u /\ Gdpr!Past(c, t)
                       THEN [check[c] EXCEPT !.since = @ \cup {t}] ELSE check[c]
  BY <1>0 DEF Gdpr!WriteRow
<1>4. ASSUME NEW c \in Check
      PROVE  /\ check'[c] \in Gdpr!Work \cup {Gdpr!NoCheck, [pc |-> "list"]}
             /\ IsAtTable(check'[c])
             /\ LeavesNothing(check[c])'
  <2>0. PICK x, y : x = check[c] /\ y = [x EXCEPT !.since = @ \cup {t}]
    OBVIOUS
  <2>1. x \in Gdpr!Work \cup {Gdpr!NoCheck, [pc |-> "list"]} /\ IsAtTable(x) /\ LeavesNothing(x)
    BY <2>0 DEF GdprTypes, ChecksLeaveNothing
  <2>2. CASE ~Gdpr!Free(c) /\ x.pc # "list" /\ x.user = u /\ Gdpr!Past(c, t)
    <3>1. x \in Gdpr!Work /\ check'[c] = y
      BY <1>3, <2>0, <2>1, <2>2, GdprRecords DEF Gdpr!Free
    <3>2. /\ y \in Gdpr!Work /\ y.pc = x.pc /\ y.next = x.next /\ y.failed = x.failed
          /\ y.user = x.user /\ y.since = x.since \cup {t}
      BY <1>1, <2>0, <3>1, WorkSince
    <3>3. LeavesNothing(y)'
      BY <1>2, <2>1, <3>2 DEF LeavesNothing
    <3> QED
      BY <2>1, <3>1, <3>2, <3>3 DEF IsAtTable, LeavesNothing
  <2>3. CASE ~(~Gdpr!Free(c) /\ x.pc # "list" /\ x.user = u /\ Gdpr!Past(c, t))
    <3>1. check'[c] = x
      BY <1>3, <2>0, <2>3
    <3>2. ASSUME x.pc = "mark" \/ (x.pc = "delete" /\ x.failed = FALSE),
                 NEW i \in 1 .. x.next - 1, <<Cascade[i], x.user>> \in rows'
          PROVE  Cascade[i] \in x.since
      <4>1. CASE <<Cascade[i], x.user>> \in rows
        BY <2>1, <3>2, <4>1 DEF LeavesNothing
      <4>2. CASE Cascade[i] = t /\ x.user = u
        <5>1. Gdpr!Past(c, t)
          BY <2>0, <3>2, <4>2 DEF Gdpr!Past
        <5>2. ~Gdpr!Free(c) /\ x.pc # "list"
          BY <2>0, <3>2, GdprRecords DEF Gdpr!Free
        <5> QED
          BY <2>3, <4>2, <5>1, <5>2
      <4> QED
        BY <1>2, <3>2, <4>1, <4>2
    <3> QED
      BY <2>1, <3>1, <3>2 DEF LeavesNothing
  <2> QED
    BY <2>2, <2>3
<1>5. \/ request[u] = "completed" /\ excused' = [excused EXCEPT ![u] = @ \cup {t}]
      \/ request[u] # "completed" /\ excused' = excused
  BY <1>0 DEF Gdpr!WriteRow
<1>6. GdprTypes'
  BY <1>1, <1>2, <1>3, <1>4, <1>5 DEF GdprTypes
<1>7. ChecksLeaveNothing'
  BY <1>4 DEF ChecksLeaveNothing, IsAtTable
<1>8. Gdpr!CompletedLeavesNothingOlder'
  BY <1>2, <1>5 DEF Gdpr!CompletedLeavesNothingOlder, GdprTypes
<1> QED
  BY <1>6, <1>7, <1>8

\* A check begins, lists, or ends.
LEMMA GdprCheckSteps ==
  ASSUME GdprInv, NEW c \in Check,
         \/ Gdpr!IntervalFires(c) \/ Gdpr!StartupFires(c)
         \/ Gdpr!ListPendingRequests(c) \/ Gdpr!ListFails(c) \/ Gdpr!MarkFails(c)
  PROVE  GdprInv'
<1> USE DEF GdprInv
<1>1. UNCHANGED <<request, rows, excused>>
  BY DEF Gdpr!IntervalFires, Gdpr!StartupFires, Gdpr!BeginCheck, Gdpr!ListPendingRequests, Gdpr!ListFails,
         Gdpr!MarkFails
<1>2. /\ check' \in [Check -> Gdpr!Work \cup {Gdpr!NoCheck, [pc |-> "list"]}]
      /\ ChecksLeaveNothing'
  <2>1. ASSUME NEW y \in {Gdpr!NoCheck, [pc |-> "list"]}, check' = [check EXCEPT ![c] = y]
        PROVE  /\ check' \in [Check -> Gdpr!Work \cup {Gdpr!NoCheck, [pc |-> "list"]}]
               /\ ChecksLeaveNothing'
    <3>1. IsAtTable(y) /\ LeavesNothing(y)'
      BY GdprRecords DEF IsAtTable, LeavesNothing
    <3> QED
      BY <1>1, <2>1, <3>1, CheckMoves
  <2>2. CASE Gdpr!ListPendingRequests(c)
    <3>1. {u \in User : request[u] = "due"} \in SUBSET User
      OBVIOUS
    <3> QED
      BY <1>1, <2>2, <3>1, GdprProceeds DEF Gdpr!ListPendingRequests
  <2>3. CASE Gdpr!MarkFails(c)
    <3>1. check[c].todo \in SUBSET User /\ Gdpr!Proceed(c, check[c].todo)
      BY <2>3, GdprWork, GdprRecords DEF Gdpr!MarkFails
    <3> QED
      BY <1>1, <3>1, GdprProceeds
  <2>4. CASE Gdpr!ListFails(c)
    BY <2>1, <2>4 DEF Gdpr!ListFails
  <2>5. CASE Gdpr!IntervalFires(c) \/ Gdpr!StartupFires(c)
    BY <2>1, <2>5 DEF Gdpr!IntervalFires, Gdpr!StartupFires, Gdpr!BeginCheck
  <2> QED
    BY <2>2, <2>3, <2>4, <2>5
<1>3. Gdpr!CompletedLeavesNothingOlder'
  BY <1>1 DEF Gdpr!CompletedLeavesNothingOlder
<1> QED
  BY <1>1, <1>2, <1>3 DEF GdprTypes

LEMMA GdprStep == GdprInv /\ [Next]_vars => GdprInv'
<1> SUFFICES ASSUME GdprInv, [Next]_vars PROVE GdprInv'
  OBVIOUS
<1>1. CASE UNCHANGED <<request, rows, check, excused>>
  BY <1>1 DEF GdprInv, GdprTypes, ChecksLeaveNothing, IsAtTable, LeavesNothing, Gdpr!CompletedLeavesNothingOlder
<1>2. CASE UNCHANGED gdpr
  BY <1>1, <1>2 DEF gdpr
<1>3. CASE \/ \E t \in Gdpr!Table : Gdpr!TableAppears(t) \/ Gdpr!TableGoes(t)
           \/ Gdpr!Recover \/ Gdpr!StartDeletionChecker \/ Gdpr!StopDeletionChecker
  BY <1>1, <1>3 DEF Gdpr!TableAppears, Gdpr!TableGoes, Gdpr!Recover, Gdpr!StartDeletionChecker,
                    Gdpr!StopDeletionChecker
<1>4. CASE \E u \in User : Gdpr!RequestDeletion(u) \/ Gdpr!GracePasses(u)
  <2>1. /\ UNCHANGED <<rows, check, excused>> /\ DOMAIN request' = DOMAIN request
        /\ \A u \in User : request'[u] = "completed" => request[u] = "completed"
    BY <1>4 DEF Gdpr!RequestDeletion, Gdpr!GracePasses, GdprInv, GdprTypes
  <2> QED
    BY <2>1 DEF GdprInv, GdprTypes, ChecksLeaveNothing, IsAtTable, LeavesNothing,
                Gdpr!CompletedLeavesNothingOlder
<1>5. CASE Gdpr!Restart
  <2>1. UNCHANGED <<request, rows, excused>> /\ check' = [c \in Check |-> Gdpr!NoCheck]
    BY <1>5 DEF Gdpr!Restart
  <2>2. ChecksLeaveNothing'
    BY <2>1, GdprRecords DEF ChecksLeaveNothing, IsAtTable, LeavesNothing
  <2> QED
    BY <2>1, <2>2 DEF GdprInv, GdprTypes, Gdpr!CompletedLeavesNothingOlder
<1>6. CASE \E w \in Written : Gdpr!WriteRow(w[1], w[2])
  BY <1>6, GdprWrites
<1>7. CASE \E c \in Check : Gdpr!IntervalFires(c) \/ Gdpr!StartupFires(c) \/ Gdpr!CheckStep(c)
  BY <1>7, GdprDeletes, GdprMarks, GdprCheckSteps DEF Gdpr!CheckStep
<1> QED
  BY <1>2, <1>3, <1>4, <1>5, <1>6, <1>7, GdprMoves DEF Gdpr!Next

-----------------------------------------------------------------------------
(* CustomDomains *)

LEMMA DomMoves == [Next]_vars => Domains!Next \/ UNCHANGED domains
BY DEF Next, At, Unless, vars

Asking == [pc : {"idle", "list", "listMore", "ask"}, todo : SUBSET Domain, more : SUBSET Domain]
Updating == [pc : {"update"}, todo : SUBSET Domain, more : SUBSET Domain, d : Domain, next : Domains!State]

DomTypes ==
  /\ state \in [Domain -> Domains!State] /\ DOMAIN mapping = Domain
  /\ run \in [Domains!Run -> Asking \cup Updating]

\* A domain that a run has in hand is still in the state it was listed in, ...
InState(r, x, d) ==
  /\ d \in x.todo => state[d] = IF r \in CnameRun THEN "pending" ELSE "verified"
  /\ d \in x.more => r \notin CnameRun /\ state[d] = "ssl_provisioning"

\* ... and no other run of the cron has it, unless two had it at once.
OnlyOneHas(d) == \A r, o \in Domains!Run : o \in Domains!Peers(r) => d \notin Domains!InHand(r) \cap Domains!InHand(o)
HandsAreTrue ==
  \A d \in Domain \ domContended :
    OnlyOneHas(d) /\ \A r \in Domains!Run : InState(r, run[r], d)

\* What a run is about to write, it has from an answer about a domain it has in hand; and
\* a second list is one of the SSL provisioner's.
AnswerFits(r, x) ==
  /\ x.pc = "listMore" => r \notin CnameRun
  /\ x.pc = "update" =>
       /\ \/ r \in CnameRun /\ x.d \in x.todo /\ x.next \in {"verified", "failed"}
          \/ r \notin CnameRun /\ x.d \in x.todo /\ x.next \in {"ssl_provisioning", "error"}
          \/ r \notin CnameRun /\ x.d \in x.more /\ x.d \notin x.todo /\ x.next \in {"active", "error"}
       /\ x.next = "error" => x.d \in faulted
       /\ x.next = "active" => mapping[x.d] = "ready"
AnswersFit == \A r \in Domains!Run : AnswerFits(r, run[r])

DomInv == DomTypes /\ HandsAreTrue /\ AnswersFit /\ Domains!EndsForAReason

LEMMA DomRecords ==
  /\ \A x \in Asking : x.pc \in {"idle", "list", "listMore", "ask"} /\ x.todo \in SUBSET Domain /\ x.more \in SUBSET Domain
  /\ \A x \in Updating : /\ x.pc = "update" /\ x.todo \in SUBSET Domain /\ x.more \in SUBSET Domain
                         /\ x.d \in Domain /\ x.next \in Domains!State
  /\ Domains!NoRun \in Asking
  /\ Domains!NoRun.pc = "idle" /\ Domains!NoRun.todo = {} /\ Domains!NoRun.more = {}
BY DEF Asking, Updating, Domains!NoRun

LEMMA DomInit == Domains!Init => DomInv
<1> SUFFICES ASSUME Domains!Init PROVE DomInv
  OBVIOUS
<1>1. \A r \in Domains!Run : run[r] = Domains!NoRun
  BY DEF Domains!Init
<1>2. DomTypes
  BY DomRecords DEF Domains!Init, DomTypes, Domains!State
<1>3. HandsAreTrue
  BY <1>1, DomRecords DEF HandsAreTrue, OnlyOneHas, InState, Domains!InHand
<1>4. AnswersFit
  BY <1>1, DomRecords DEF AnswersFit, AnswerFits
<1>5. Domains!EndsForAReason
  BY DEF Domains!Init, Domains!EndsForAReason
<1> QED
  BY <1>2, <1>3, <1>4, <1>5 DEF DomInv

LEMMA HandsGrow ==
  ASSUME DomTypes, NEW r \in Domains!Run, NEW y, run' = [run EXCEPT ![r] = y]
  PROVE  /\ run'[r] = y /\ \A o \in Domains!Run : o # r => run'[o] = run[o]
         /\ y \in Asking \cup Updating => run' \in [Domains!Run -> Asking \cup Updating]
BY DEF DomTypes

\* A run sets its hand to y, which holds nothing that it did not: lists aside, a run
\* only lets go of domains.
LEMMA DomLetsGo ==
  ASSUME DomInv, NEW r \in Domains!Run, NEW y \in Asking \cup Updating, run' = [run EXCEPT ![r] = y],
         y.todo \subseteq run[r].todo, y.more \subseteq run[r].more, AnswerFits(r, y)',
         UNCHANGED <<state, domContended>>, faulted \subseteq faulted', DOMAIN mapping' = Domain,
         \A d \in Domain : mapping[d] = "ready" => mapping'[d] = "ready"
  PROVE  DomInv'
<1> USE DEF DomInv
<1>1. /\ run'[r] = y /\ \A o \in Domains!Run : o # r => run'[o] = run[o]
      /\ run' \in [Domains!Run -> Asking \cup Updating]
  BY HandsGrow
<1>2. DomTypes'
  BY <1>1 DEF DomTypes
<1>3. HandsAreTrue'
  <2> SUFFICES ASSUME NEW d \in Domain \ domContended
               PROVE  OnlyOneHas(d)' /\ \A o \in Domains!Run : InState(o, run[o], d)'
    BY DEF HandsAreTrue
  <2>1. OnlyOneHas(d) /\ \A o \in Domains!Run : InState(o, run[o], d)
    BY DEF HandsAreTrue
  <2>2. \A o \in Domains!Run : run'[o].todo \subseteq run[o].todo /\ run'[o].more \subseteq run[o].more
    BY <1>1
  <2>3. OnlyOneHas(d)'
    BY <2>1, <2>2 DEF OnlyOneHas, Domains!InHand
  <2>4. \A o \in Domains!Run : InState(o, run[o], d)'
    BY <2>1, <2>2 DEF InState
  <2> QED
    BY <2>3, <2>4
<1>4. AnswersFit'
  <2> SUFFICES ASSUME NEW o \in Domains!Run PROVE AnswerFits(o, run[o])'
    BY DEF AnswersFit
  <2>1. CASE o = r
    BY <1>1, <2>1 DEF AnswerFits
  <2>2. CASE o # r
    <3>1. AnswerFits(o, run[o]) /\ run'[o] = run[o] /\ run[o] \in Asking \cup Updating
      BY <1>1, <2>2 DEF AnswersFit, DomTypes
    <3>2. run[o].pc = "update" => run[o].d \in Domain
      BY <3>1, DomRecords
    <3> QED
      BY <3>1, <3>2 DEF AnswerFits
  <2> QED
    BY <2>1, <2>2
<1>5. Domains!EndsForAReason'
  BY DEF Domains!EndsForAReason
<1> QED
  BY <1>2, <1>3, <1>4, <1>5

LEMMA RunsAre ==
  ASSUME DomTypes, NEW r \in Domains!Run
  PROVE  /\ run[r] \in Asking \cup Updating
         /\ run[r].pc # "update" => run[r] \in Asking
         /\ run[r].pc = "update" => run[r] \in Updating
BY DomRecords DEF DomTypes

\* A run starts, ends, is cut off, or passes over a domain without a certificate.
LEMMA DomRuns ==
  ASSUME DomInv, NEW r \in Domains!Run,
         \/ Domains!Starts(r) \/ Domains!StoreFails(r) \/ Domains!Ends(r)
         \/ \E d \in Domain : run' = [run EXCEPT ![r].more = @ \ {d}] /\ run[r].pc = "ask"
                              /\ UNCHANGED <<state, mapping, domHealthy, faulted, domContended>>
  PROVE  DomInv'
<1> USE DEF DomInv
<1>1. UNCHANGED <<state, mapping, faulted, domContended>> /\ DOMAIN mapping = Domain
  BY DEF Domains!Starts, Domains!StoreFails, Domains!Ends, DomTypes
<1>2. ASSUME NEW y \in Asking, y.pc # "listMore", run' = [run EXCEPT ![r] = y],
             y.todo \subseteq run[r].todo, y.more \subseteq run[r].more
      PROVE  DomInv'
  <2>1. AnswerFits(r, y)'
    BY <1>2, DomRecords DEF AnswerFits
  <2> QED
    BY <1>1, <1>2, <2>1, DomLetsGo
<1>3. CASE run' = [run EXCEPT ![r] = Domains!NoRun]
  BY <1>2, <1>3, DomRecords
<1>4. CASE Domains!Starts(r)
  <2>1. PICK y : y = [run[r] EXCEPT !.pc = "list"]
    OBVIOUS
  <2>2. run' = [run EXCEPT ![r] = y] /\ run[r] \in Asking
    BY <1>4, <2>1, RunsAre DEF Domains!Starts
  <2>3. y \in Asking /\ y.pc = "list" /\ y.todo = run[r].todo /\ y.more = run[r].more
    BY <2>1, <2>2 DEF Asking
  <2> QED
    BY <1>2, <2>2, <2>3
<1>5. ASSUME NEW d \in Domain, run' = [run EXCEPT ![r].more = @ \ {d}], run[r].pc = "ask" PROVE DomInv'
  <2>0. PICK s : s = run[r].more \ {d}
    OBVIOUS
  <2>1. PICK y : y = [run[r] EXCEPT !.more = s]
    OBVIOUS
  <2>2. run' = [run EXCEPT ![r] = y] /\ run[r] \in Asking
    BY <1>5, <2>0, <2>1, RunsAre
  <2>3. y \in Asking /\ y.pc = "ask" /\ y.todo = run[r].todo /\ y.more = s
    BY <1>5, <2>0, <2>1, <2>2 DEF Asking
  <2> QED
    BY <1>2, <2>0, <2>2, <2>3
<1> QED
  BY <1>3, <1>4, <1>5 DEF Domains!StoreFails, Domains!Ends

\* A run takes a list, all of it in the state s that the cron lists by; what another run
\* of the cron has in hand is contended from then on.
LEMMA DomTakes ==
  ASSUME DomInv, NEW r \in Domains!Run, NEW s, NEW y \in Asking,
         Domains!Takes(r, Domains!Listed(s), y), y.pc = "listMore" => r \notin CnameRun,
         \A d \in y.todo : d \in run[r].todo \/ (d \in Domains!Listed(s) /\ s = IF r \in CnameRun THEN "pending" ELSE "verified"),
         \A d \in y.more : d \in Domains!Listed(s) /\ s = "ssl_provisioning" /\ r \notin CnameRun
  PROVE  DomInv'
<1> USE DEF DomInv
<1>0. PICK list : list = Domains!Listed(s)
  OBVIOUS
<1>1. /\ run' = [run EXCEPT ![r] = y] /\ UNCHANGED <<state, mapping, faulted>>
      /\ domContended' = domContended \cup {d \in list : \E p \in Domains!Peers(r) : d \in Domains!InHand(p)}
  BY <1>0 DEF Domains!Takes
<1>2. /\ run'[r] = y /\ \A o \in Domains!Run : o # r => run'[o] = run[o]
      /\ run' \in [Domains!Run -> Asking \cup Updating]
  BY <1>1, HandsGrow
<1>3. DomTypes'
  BY <1>1, <1>2 DEF DomTypes
<1>4. HandsAreTrue'
  <2> SUFFICES ASSUME NEW d \in Domain, d \notin domContended'
               PROVE  OnlyOneHas(d)' /\ \A o \in Domains!Run : InState(o, run[o], d)'
    BY DEF HandsAreTrue
  <2>1. OnlyOneHas(d) /\ \A o \in Domains!Run : InState(o, run[o], d)
    BY <1>1 DEF HandsAreTrue
  <2>2. d \in list => \A p \in Domains!Peers(r) : d \notin Domains!InHand(p)
    BY <1>1
  <2>3. d \in y.todo \cup y.more => d \in list \/ d \in Domains!InHand(r)
    BY <1>0 DEF Domains!InHand
  <2>4. /\ \A o \in Domains!Run : o # r => Domains!InHand(o)' = Domains!InHand(o)
        /\ Domains!InHand(r)' = y.todo \cup y.more
    BY <1>2 DEF Domains!InHand
  <2>5. \A p, o \in Domains!Run : (o \in Domains!Peers(p) => p \in Domains!Peers(o) /\ p # o)
    BY DataAssumption DEF Domains!Peers, Domains!Run
  <2>6. OnlyOneHas(d)'
    <3> SUFFICES ASSUME NEW p \in Domains!Run, NEW o \in Domains!Run, o \in Domains!Peers(p),
                        d \in Domains!InHand(p)', d \in Domains!InHand(o)'
                 PROVE  FALSE
      BY DEF OnlyOneHas, Domains!Peers
    <3>1. p \in Domains!Peers(o) /\ p # o
      BY <2>5
    <3>2. CASE p = r
      BY <2>1, <2>2, <2>3, <2>4, <3>1, <3>2 DEF OnlyOneHas
    <3>3. CASE o = r
      BY <2>1, <2>2, <2>3, <2>4, <3>1, <3>3 DEF OnlyOneHas
    <3>4. CASE p # r /\ o # r
      BY <2>1, <2>4, <3>4 DEF OnlyOneHas
    <3> QED
      BY <3>2, <3>3, <3>4
  <2>7. ASSUME NEW o \in Domains!Run PROVE InState(o, run[o], d)'
    <3>1. CASE o # r
      BY <1>1, <1>2, <2>1, <3>1 DEF InState
    <3>2. CASE o = r
      <4>1. d \in list => state[d] = s
        BY <1>0 DEF Domains!Listed
      <4> QED
        BY <1>0, <1>1, <1>2, <2>1, <3>2, <4>1 DEF InState
    <3> QED
      BY <3>1, <3>2
  <2> QED
    BY <2>6, <2>7
<1>5. AnswersFit'
  <2>1. y.pc # "update"
    BY DomRecords
  <2> QED
    BY <1>1, <1>2, <2>1 DEF AnswersFit, AnswerFits
<1>6. Domains!EndsForAReason'
  BY <1>1 DEF Domains!EndsForAReason
<1> QED
  BY <1>3, <1>4, <1>5, <1>6

\* The outside world answers about a domain in hand.
LEMMA DomAnswers ==
  ASSUME DomInv, NEW r \in Domains!Run, NEW d \in Domain, NEW next \in Domains!State, run[r].pc = "ask",
         Domains!Answered(r, d, next),
         \/ r \in CnameRun /\ d \in run[r].todo /\ next \in {"verified", "failed"}
         \/ r \notin CnameRun /\ d \in run[r].todo /\ next \in {"ssl_provisioning", "error"}
         \/ r \notin CnameRun /\ d \in run[r].more /\ d \notin run[r].todo /\ next \in {"active", "error"},
         next = "error" => d \in faulted', next = "active" => mapping'[d] = "ready",
         UNCHANGED <<state, domContended>>, faulted \subseteq faulted', DOMAIN mapping' = Domain,
         \A o \in Domain : mapping[o] = "ready" => mapping'[o] = "ready"
  PROVE  DomInv'
<1>1. PICK x, y : /\ x = run[r]
                  /\ y = [pc |-> "update", todo |-> x.todo, more |-> x.more, d |-> d, next |-> next]
  OBVIOUS
<1>2. x \in Asking
  BY <1>1, RunsAre DEF DomInv
<1>3. y \in Updating /\ y.pc = "update" /\ y.todo = x.todo /\ y.more = x.more /\ y.d = d /\ y.next = next
  BY <1>1, <1>2, DomRecords DEF Updating
<1>4. run' = [run EXCEPT ![r] = y]
  BY <1>1 DEF Domains!Answered, DomInv, DomTypes
<1>5. AnswerFits(r, y)'
  BY <1>1, <1>3 DEF AnswerFits
<1> QED
  BY <1>1, <1>3, <1>4, <1>5, DomLetsGo

LEMMA RunsOfCrons == \A r \in SslRun : r \in Domains!Run /\ r \notin CnameRun
BY DataAssumption DEF Domains!Run

LEMMA DomAsks ==
  ASSUME DomInv, NEW r \in Domains!Run, NEW d \in Domain,
         Domains!VerifyCname(r, d) \/ Domains!Create(r, d) \/ Domains!Describe(r, d) \/ Domains!ProviderFails(r, d)
  PROVE  DomInv'
<1>0. DOMAIN mapping = Domain
  BY DEF DomInv, DomTypes
<1>1. CASE Domains!VerifyCname(r, d)
  <2>1. PICK next \in {"verified", "failed"} : Domains!Answered(r, d, next)
    BY <1>1 DEF Domains!VerifyCname
  <2>2. next \in Domains!State /\ next # "error" /\ next # "active"
    BY <2>1 DEF Domains!State
  <2>3. /\ r \in CnameRun /\ run[r].pc = "ask" /\ d \in run[r].todo
        /\ UNCHANGED <<state, mapping, faulted, domContended>>
    BY <1>1 DEF Domains!VerifyCname
  <2> QED
    BY <1>0, <2>1, <2>2, <2>3, DomAnswers
<1>2. CASE Domains!Create(r, d)
  <2>1. /\ r \in SslRun /\ run[r].pc = "ask" /\ d \in run[r].todo /\ Domains!Answered(r, d, "ssl_provisioning")
        /\ UNCHANGED <<state, faulted, domContended>> /\ "ssl_provisioning" \in Domains!State
    BY <1>2 DEF Domains!Create, Domains!State
  <2>2. DOMAIN mapping' = Domain /\ \A o \in Domain : mapping[o] = "ready" => mapping'[o] = "ready"
    BY <1>0, <1>2 DEF Domains!Create
  <2> QED
    BY <2>1, <2>2, DomAnswers, RunsOfCrons
<1>3. CASE Domains!Describe(r, d)
  <2>1. /\ r \in SslRun /\ run[r].pc = "ask" /\ d \in run[r].more /\ run[r].todo = {}
        /\ UNCHANGED <<state, mapping, domHealthy, faulted, domContended>> /\ "active" \in Domains!State
    BY <1>3 DEF Domains!Describe, Domains!Describing, Domains!State
  <2>2. CASE mapping[d] = "ready" /\ Domains!Answered(r, d, "active")
    BY <1>0, <2>1, <2>2, DomAnswers, RunsOfCrons
  <2>3. CASE run' = [run EXCEPT ![r].more = @ \ {d}]
    BY <2>1, <2>3, DomRuns
  <2> QED
    BY <1>3, <2>2, <2>3 DEF Domains!Describe
<1>4. CASE Domains!ProviderFails(r, d)
  <2>1. /\ r \in SslRun /\ run[r].pc = "ask" /\ Domains!Answered(r, d, "error")
        /\ d \in run[r].todo \/ (d \in run[r].more /\ d \notin run[r].todo)
        /\ faulted' = faulted \cup {d} /\ UNCHANGED <<state, mapping, domContended>>
        /\ "error" \in Domains!State
    BY <1>4 DEF Domains!ProviderFails, Domains!Describing, Domains!State
  <2>2. d \in faulted' /\ faulted \subseteq faulted'
    BY <2>1
  <2> QED
    BY <1>0, <2>1, <2>2, DomAnswers, RunsOfCrons
<1> QED
  BY <1>1, <1>2, <1>3, <1>4

\* The row is written, whatever it says by then: unless two runs had the domain, it says
\* what it did.
LEMMA DomUpdates ==
  ASSUME DomInv, NEW r \in Domains!Run, Domains!Update(r)
  PROVE  /\ DomInv'
         /\ \A d \in Domain \ domContended : state'[d] = state[d] \/ <<state[d], state'[d]>> \in Domains!Documented
<1> USE DEF DomInv
<1>0. PICK x, e, y : x = run[r] /\ e = x.d /\ y = Domains!Dealt(r, e)
  OBVIOUS
<1>1. /\ x.pc = "update" /\ state' = [state EXCEPT ![e] = x.next] /\ run' = [run EXCEPT ![r] = y]
      /\ UNCHANGED <<mapping, domHealthy, faulted, domContended>>
  BY <1>0 DEF Domains!Update
<1>2. x \in Updating /\ e \in Domain /\ x.next \in Domains!State /\ x.todo \in SUBSET Domain /\ x.more \in SUBSET Domain
  BY <1>0, <1>1, RunsAre, DomRecords
<1>3. /\ y \in Asking /\ y.pc = "ask" /\ y.todo = x.todo \ {e}
      /\ y.more = IF e \in x.todo THEN x.more ELSE x.more \ {e}
  BY <1>0, <1>2 DEF Domains!Dealt, Asking
<1>4. /\ run'[r] = y /\ \A o \in Domains!Run : o # r => run'[o] = run[o]
      /\ run' \in [Domains!Run -> Asking \cup Updating]
  BY <1>1, <1>3, HandsGrow
<1>5. AnswerFits(r, x)
  BY <1>0 DEF AnswersFit
<1>6. \A d \in Domain : state'[d] = IF d = e THEN x.next ELSE state[d]
  BY <1>1 DEF DomTypes
<1>7. DomTypes'
  BY <1>1, <1>2, <1>4 DEF DomTypes
<1>8. e \notin domContended =>
        /\ InState(r, x, e)
        /\ \A o \in Domains!Run : o # r => e \notin Domains!InHand(o)
  <2> SUFFICES ASSUME e \notin domContended, NEW o \in Domains!Run, o # r
               PROVE  InState(r, x, e) /\ e \notin Domains!InHand(o)
    <3>1. e \notin domContended => InState(r, x, e)
      BY <1>0, <1>2 DEF HandsAreTrue
    <3> QED
      BY <3>1
  <2>1. OnlyOneHas(e) /\ InState(r, x, e) /\ InState(o, run[o], e)
    BY <1>0, <1>2 DEF HandsAreTrue
  <2>2. e \in x.todo \cup x.more
    BY <1>0, <1>1, <1>5 DEF AnswerFits
  <2>3. CASE o \in Domains!Peers(r)
    BY <1>0, <2>1, <2>2, <2>3 DEF OnlyOneHas, Domains!InHand
  <2>4. CASE o \notin Domains!Peers(r)
    <3>1. (r \in CnameRun) # (o \in CnameRun)
      BY <2>4, DataAssumption DEF Domains!Peers, Domains!Run
    <3> QED
      BY <2>1, <2>2, <3>1 DEF InState, Domains!InHand
  <2> QED
    BY <2>1, <2>3, <2>4
<1>9. HandsAreTrue'
  <2> SUFFICES ASSUME NEW d \in Domain \ domContended
               PROVE  OnlyOneHas(d)' /\ \A o \in Domains!Run : InState(o, run[o], d)'
    BY <1>1 DEF HandsAreTrue
  <2>1. OnlyOneHas(d) /\ \A o \in Domains!Run : InState(o, run[o], d)
    BY DEF HandsAreTrue
  <2>2. \A o \in Domains!Run : run'[o].todo \subseteq run[o].todo /\ run'[o].more \subseteq run[o].more
    BY <1>0, <1>3, <1>4
  <2>3. OnlyOneHas(d)'
    BY <2>1, <2>2 DEF OnlyOneHas, Domains!InHand
  <2>4. ASSUME NEW o \in Domains!Run PROVE InState(o, run[o], d)'
    <3>1. CASE d # e
      BY <1>6, <2>1, <2>2, <3>1 DEF InState
    <3>2. CASE d = e /\ o # r
      BY <1>4, <1>8, <3>2 DEF InState, Domains!InHand
    <3>3. CASE d = e /\ o = r
      <4>1. e \notin y.todo /\ e \notin y.more
        BY <1>3, <1>8, <3>3 DEF InState
      <4> QED
        BY <1>4, <3>3, <4>1 DEF InState
    <3> QED
      BY <3>1, <3>2, <3>3
  <2> QED
    BY <2>3, <2>4
<1>10. AnswersFit'
  BY <1>1, <1>3, <1>4 DEF AnswersFit, AnswerFits
<1>11. Domains!EndsForAReason'
  BY <1>0, <1>1, <1>5, <1>6 DEF AnswerFits, Domains!EndsForAReason
<1>12. ASSUME NEW d \in Domain \ domContended
       PROVE  state'[d] = state[d] \/ <<state[d], state'[d]>> \in Domains!Documented
  <2>1. CASE d # e
    BY <1>6, <2>1
  <2>2. CASE d = e
    BY <1>0, <1>1, <1>5, <1>6, <1>8, <2>2 DEF AnswerFits, InState, Domains!Documented
  <2> QED
    BY <2>1, <2>2
<1> QED
  BY <1>7, <1>9, <1>10, <1>11, <1>12

LEMMA DomLists ==
  ASSUME DomInv, NEW r \in Domains!Run,
         Domains!ListPending(r) \/ Domains!ListVerified(r) \/ Domains!ListProvisioning(r)
  PROVE  DomInv'
<1>1. CASE Domains!ListPending(r)
  <2>1. PICK y : y = [pc |-> "ask", todo |-> Domains!Listed("pending"), more |-> {}]
    OBVIOUS
  <2>2. /\ y \in Asking /\ y.pc = "ask" /\ y.todo = Domains!Listed("pending") /\ y.more = {}
        /\ r \in CnameRun /\ Domains!Takes(r, Domains!Listed("pending"), y)
    BY <1>1, <2>1 DEF Domains!ListPending, Asking, Domains!Listed
  <2> QED
    BY <2>2, DomTakes
<1>2. CASE Domains!ListVerified(r)
  <2>1. PICK y : y = [pc |-> "listMore", todo |-> Domains!Listed("verified"), more |-> {}]
    OBVIOUS
  <2>2. /\ y \in Asking /\ y.todo = Domains!Listed("verified") /\ y.more = {}
        /\ r \notin CnameRun /\ Domains!Takes(r, Domains!Listed("verified"), y)
    BY <1>2, <2>1, RunsOfCrons DEF Domains!ListVerified, Asking, Domains!Listed
  <2> QED
    BY <2>2, DomTakes
<1>3. CASE Domains!ListProvisioning(r)
  <2>1. PICK y : y = [run[r] EXCEPT !.pc = "ask", !.more = Domains!Listed("ssl_provisioning")]
    OBVIOUS
  <2>2. run[r] \in Asking /\ run[r].pc = "listMore" /\ Domains!Takes(r, Domains!Listed("ssl_provisioning"), y)
    BY <1>3, <2>1, RunsAre DEF Domains!ListProvisioning, DomInv
  <2>3. y \in Asking /\ y.pc = "ask" /\ y.todo = run[r].todo /\ y.more = Domains!Listed("ssl_provisioning")
    BY <2>1, <2>2 DEF Asking, Domains!Listed
  <2>4. r \notin CnameRun
    BY <2>2 DEF DomInv, AnswersFit, AnswerFits
  <2> QED
    BY <2>2, <2>3, <2>4, DomTakes
<1> QED
  BY <1>1, <1>2, <1>3

LEMMA DomStep ==
  DomInv /\ [Next]_vars =>
    /\ DomInv'
    /\ \A d \in Domain \ domContended : state'[d] = state[d] \/ <<state[d], state'[d]>> \in Domains!Documented
<1> SUFFICES ASSUME DomInv, [Next]_vars
             PROVE  /\ DomInv'
                    /\ \A d \in Domain \ domContended :
                         state'[d] = state[d] \/ <<state[d], state'[d]>> \in Domains!Documented
  OBVIOUS
<1>1. CASE UNCHANGED <<state, run, faulted, domContended>> /\ DOMAIN mapping' = Domain
           /\ \A d \in Domain : mapping[d] = "ready" => mapping'[d] = "ready"
  <2>1. DomTypes' /\ HandsAreTrue'
    BY <1>1 DEF DomInv, DomTypes, HandsAreTrue, OnlyOneHas, InState, Domains!InHand
  <2>2. \A r \in Domains!Run : run[r].pc = "update" => run[r].d \in Domain
    BY RunsAre, DomRecords DEF DomInv
  <2>3. AnswersFit' /\ Domains!EndsForAReason'
    BY <1>1, <2>2 DEF DomInv, AnswersFit, AnswerFits, Domains!EndsForAReason
  <2> QED
    BY <1>1, <2>1, <2>3 DEF DomInv
<1>2. CASE UNCHANGED domains
  BY <1>1, <1>2 DEF domains, DomInv, DomTypes
<1>3. CASE Domains!Recover \/ \E d \in Domain : Domains!CertificateReady(d)
  BY <1>1, <1>3 DEF Domains!Recover, Domains!CertificateReady, DomInv, DomTypes
<1>4. ASSUME NEW r \in Domains!Run, Domains!Update(r)
      PROVE  /\ DomInv'
             /\ \A d \in Domain \ domContended :
                  state'[d] = state[d] \/ <<state[d], state'[d]>> \in Domains!Documented
  BY <1>4, DomUpdates
<1>5. ASSUME NEW r \in Domains!Run,
             \/ Domains!Starts(r) \/ Domains!StoreFails(r) \/ Domains!Ends(r)
             \/ Domains!ListPending(r) \/ Domains!ListVerified(r) \/ Domains!ListProvisioning(r)
             \/ \E d \in Domain : \/ Domains!VerifyCname(r, d) \/ Domains!Create(r, d)
                                 \/ Domains!Describe(r, d) \/ Domains!ProviderFails(r, d)
      PROVE  DomInv' /\ state' = state
  <2>1. state' = state
    BY <1>5 DEF Domains!Starts, Domains!StoreFails, Domains!Ends, Domains!ListPending, Domains!ListVerified,
                Domains!ListProvisioning, Domains!Takes, Domains!VerifyCname, Domains!Create, Domains!Describe,
                Domains!ProviderFails
  <2> QED
    BY <1>5, <2>1, DomRuns, DomLists, DomAsks
<1> QED
  BY <1>2, <1>3, <1>4, <1>5, DomMoves DEF Domains!Next, Domains!RunStep

-----------------------------------------------------------------------------
(* What the invariants leave open of the types. *)

GdprRest ==
  /\ request \in [User -> {"none", "waiting", "due", "completed"}]
  /\ rows \subseteq Gdpr!Table \X User /\ missing \subseteq Optional
  /\ timer \in [interval : BOOLEAN, startup : BOOLEAN] /\ gdprHealthy \in BOOLEAN

LEMMA GdprRestInit == Gdpr!Init => GdprRest
<1> SUFFICES ASSUME Gdpr!Init PROVE GdprRest
  OBVIOUS
<1>1. request \in [User -> {"none", "waiting", "due", "completed"}]
  BY DEF Gdpr!Init
<1>2. rows \subseteq Gdpr!Table \X User /\ missing \subseteq Optional
  BY DEF Gdpr!Init
<1>3. timer \in [interval : BOOLEAN, startup : BOOLEAN] /\ gdprHealthy \in BOOLEAN
  BY DEF Gdpr!Init
<1> QED
  BY <1>1, <1>2, <1>3 DEF GdprRest

\* Rows are written by those whose rows are followed.
LEMMA WritersAreUsers == \A w \in Written : w[2] \in User /\ w[1] \in Gdpr!Table
BY DataAssumption DEF Gdpr!Table

\* A check writes no row, and marks a request that it has in hand.
LEMMA CheckTouches ==
  ASSUME GdprInv, NEW c \in Check, Gdpr!CheckStep(c)
  PROVE  /\ UNCHANGED <<missing, timer, gdprHealthy>> /\ rows' \subseteq rows
         /\ \/ request' = request
            \/ \E u \in User : request' = [request EXCEPT ![u] = "completed"]
<1>1. CASE Gdpr!ListPendingRequests(c) \/ Gdpr!ListFails(c) \/ Gdpr!DeleteRows(c) \/ Gdpr!DeleteFails(c) \/ Gdpr!MarkFails(c)
  BY <1>1 DEF Gdpr!ListPendingRequests, Gdpr!ListFails, Gdpr!DeleteRows, Gdpr!DeleteFails, Gdpr!MarkFails
<1>2. CASE Gdpr!MarkDeletionCompleted(c)
  <2>1. check[c].user \in User
    BY <1>2, GdprWork, GdprRecords DEF Gdpr!MarkDeletionCompleted, GdprInv
  <2> QED
    BY <1>2, <2>1 DEF Gdpr!MarkDeletionCompleted
<1> QED
  BY <1>1, <1>2 DEF Gdpr!CheckStep

LEMMA GdprRestStep == GdprInv /\ GdprRest /\ [Next]_vars => GdprRest'
<1> SUFFICES ASSUME GdprInv, GdprRest, Gdpr!Next \/ UNCHANGED gdpr PROVE GdprRest'
  BY GdprMoves
<1> USE DEF GdprRest
<1>1. CASE UNCHANGED gdpr
  BY <1>1 DEF gdpr
<1>2. ASSUME NEW u \in User, Gdpr!RequestDeletion(u) \/ Gdpr!GracePasses(u) PROVE GdprRest'
  BY <1>2 DEF Gdpr!RequestDeletion, Gdpr!GracePasses
<1>3. ASSUME NEW t \in Gdpr!Table, Gdpr!TableAppears(t) \/ Gdpr!TableGoes(t) PROVE GdprRest'
  BY <1>3 DEF Gdpr!TableAppears, Gdpr!TableGoes
<1>4. ASSUME NEW w \in Written, Gdpr!WriteRow(w[1], w[2]) PROVE GdprRest'
  <2>1. /\ rows' = rows \cup {<<w[1], w[2]>>} /\ UNCHANGED <<request, missing, timer, gdprHealthy>>
    BY <1>4 DEF Gdpr!WriteRow
  <2> QED
    BY <2>1, WritersAreUsers
<1>5. CASE Gdpr!Recover \/ Gdpr!Restart \/ Gdpr!StartDeletionChecker \/ Gdpr!StopDeletionChecker
  <2>1. UNCHANGED <<request, rows, missing>>
    BY <1>5 DEF Gdpr!Recover, Gdpr!Restart, Gdpr!StartDeletionChecker, Gdpr!StopDeletionChecker
  <2>2. gdprHealthy' \in BOOLEAN
    BY <1>5, Zenon DEF Gdpr!Recover, Gdpr!Restart, Gdpr!StartDeletionChecker, Gdpr!StopDeletionChecker
  <2>3. timer' = timer \/ \E on \in BOOLEAN : timer' = [interval |-> on, startup |-> on]
    BY <1>5, Zenon DEF Gdpr!Recover, Gdpr!Restart, Gdpr!StartDeletionChecker, Gdpr!StopDeletionChecker
  <2>4. timer' \in [interval : BOOLEAN, startup : BOOLEAN]
    BY <2>3
  <2> QED
    BY <2>1, <2>2, <2>4
<1>6. ASSUME NEW c \in Check, Gdpr!IntervalFires(c) \/ Gdpr!StartupFires(c) PROVE GdprRest'
  <2>1. UNCHANGED <<request, rows, missing, gdprHealthy>> /\ (timer' = timer \/ timer' = [timer EXCEPT !.startup = FALSE])
    BY <1>6 DEF Gdpr!IntervalFires, Gdpr!StartupFires, Gdpr!BeginCheck
  <2> QED
    BY <2>1
<1>7. ASSUME NEW c \in Check, Gdpr!CheckStep(c) PROVE GdprRest'
  BY <1>7, CheckTouches
<1> QED
  BY <1>1, <1>2, <1>3, <1>4, <1>5, <1>6, <1>7 DEF Gdpr!Next

LEMMA GdprIsTyped == GdprInv /\ GdprRest => Gdpr!TypeOK
BY DEF GdprInv, GdprTypes, GdprRest, Gdpr!TypeOK

-----------------------------------------------------------------------------
DomRest ==
  /\ mapping \in [Domain -> {"none", "provisioning", "ready"}]
  /\ domHealthy \in BOOLEAN /\ faulted \subseteq Domain /\ domContended \subseteq Domain

LEMMA DomRestInit == Domains!Init => DomRest
BY DEF Domains!Init, DomRest

LEMMA DomRestStep == DomInv /\ DomRest /\ [Next]_vars => DomRest'
<1> SUFFICES ASSUME DomInv, DomRest, Domains!Next \/ UNCHANGED domains PROVE DomRest'
  BY DomMoves
<1> USE DEF DomRest
<1>1. CASE UNCHANGED domains
  BY <1>1 DEF domains
<1>2. CASE Domains!Recover \/ \E d \in Domain : Domains!CertificateReady(d)
  BY <1>2 DEF Domains!Recover, Domains!CertificateReady
<1>3. ASSUME NEW r \in Domains!Run, Domains!Starts(r) \/ Domains!StoreFails(r) \/ Domains!Ends(r) \/ Domains!Update(r)
      PROVE  DomRest'
  BY <1>3 DEF Domains!Starts, Domains!StoreFails, Domains!Ends, Domains!Update
<1>4. ASSUME NEW r \in Domains!Run,
             Domains!ListPending(r) \/ Domains!ListVerified(r) \/ Domains!ListProvisioning(r)
      PROVE  DomRest'
  <2>1. UNCHANGED <<mapping, domHealthy, faulted>> /\ domContended' \subseteq domContended \cup Domain
    BY <1>4 DEF Domains!ListPending, Domains!ListVerified, Domains!ListProvisioning, Domains!Takes, Domains!Listed
  <2> QED
    BY <2>1
<1>5. ASSUME NEW r \in Domains!Run, NEW d \in Domain,
             \/ Domains!VerifyCname(r, d) \/ Domains!Create(r, d)
             \/ Domains!Describe(r, d) \/ Domains!ProviderFails(r, d)
      PROVE  DomRest'
  BY <1>5 DEF Domains!VerifyCname, Domains!Create, Domains!Describe, Domains!ProviderFails
<1> QED
  BY <1>1, <1>2, <1>3, <1>4, <1>5 DEF Domains!Next, Domains!RunStep

LEMMA DomIsTyped == DomInv /\ DomRest => Domains!TypeOK
<1> SUFFICES ASSUME DomInv, DomRest PROVE Domains!TypeOK
  OBVIOUS
<1>1. ASSUME NEW r \in Domains!Run
      PROVE  /\ run[r].pc \in {"idle", "list", "listMore", "ask", "update"} /\ Domains!InHand(r) \subseteq Domain
             /\ run[r].pc = "update" => run[r].d \in Domains!InHand(r) /\ run[r].next \in Domains!State
  <2>1. run[r] \in Asking \/ run[r] \in Updating
    BY DEF DomInv, DomTypes
  <2>2. run[r].pc \in {"idle", "list", "listMore", "ask", "update"} /\ Domains!InHand(r) \subseteq Domain
    BY <2>1, DomRecords DEF Domains!InHand
  <2>3. run[r].pc = "update" => run[r].d \in Domains!InHand(r) /\ run[r].next \in Domains!State
    BY <2>1, DomRecords DEF DomInv, AnswersFit, AnswerFits, Domains!InHand
  <2> QED
    BY <2>2, <2>3
<1> QED
  BY <1>1 DEF DomInv, DomTypes, DomRest, Domains!TypeOK

-----------------------------------------------------------------------------
LEMMA ApprovedStep == actionsApproved \subseteq Action /\ [Next]_vars => actionsApproved' \subseteq Action
<1> SUFFICES ASSUME actionsApproved \subseteq Action, Budget!Next \/ UNCHANGED budget
             PROVE  actionsApproved' \subseteq Action
  BY BudgetMoves
<1>1. CASE UNCHANGED budget
  BY <1>1 DEF budget
<1>2. ASSUME NEW x \in Exec,
             \/ Budget!ReadRemaining(x) \/ Budget!GuardPasses(x) \/ Budget!Cancels(x) \/ Budget!Dispatch(x)
             \/ Budget!HandlerSucceeds(x) \/ Budget!AddUsage(x) \/ Budget!RejectsAfterRun(x) \/ Budget!Rejects(x)
             \/ \E a \in Action : Budget!ExecuteAction(x, a)
      PROVE  actionsApproved' \subseteq Action
  <2>1. actionsApproved' \subseteq actionsApproved
    BY <1>2 DEF Budget!ReadRemaining, Budget!GuardPasses, Budget!Cancels, Budget!Dispatch, Budget!HandlerSucceeds,
                Budget!AddUsage, Budget!RejectsAfterRun, Budget!Rejects, Budget!ExecuteAction
  <2> QED
    BY <2>1
<1> QED
  BY <1>1, <1>2 DEF Budget!Next

LEMMA BudgetIsTyped == BudgetInv /\ actionsApproved \subseteq Action => Budget!TypeOK
<1> SUFFICES ASSUME BudgetInv, actionsApproved \subseteq Action PROVE Budget!TypeOK
  OBVIOUS
<1>1. ASSUME NEW x \in Exec
      PROVE  \/ Budget!At(x, "idle")
             \/ /\ exec[x].pc \in {"remaining", "guard", "dispatch", "handler"} /\ exec[x].action \in Action
             \/ Budget!At(x, "addUsage") /\ exec[x].cost \in Nat
  BY ExecRecords DEF BudgetInv, BudgetTypes, ExecState, Budget!At
<1> QED
  BY <1>1 DEF BudgetInv, BudgetTypes, Budget!TypeOK

-----------------------------------------------------------------------------
AnswerShape == [tenant : {"none", "own", "default"}, due : BOOLEAN, failed : BOOLEAN]

TenantRest ==
  /\ own \subseteq Tenants!Links \cup {"row"} /\ cached \in [Resolver -> 0 .. Len(tenants)]
  /\ answer \in AnswerShape

LEMMA TenantRestInit == Tenants!Init => TenantRest
<1> SUFFICES ASSUME Tenants!Init PROVE TenantRest
  OBVIOUS
<1>1. own \subseteq Tenants!Links \cup {"row"}
  BY DEF Tenants!Init, Tenants!Links
<1>2. cached \in [Resolver -> 0 .. Len(tenants)]
  BY DEF Tenants!Init
<1>3. answer \in AnswerShape
  BY DEF Tenants!Init, AnswerShape
<1> QED
  BY <1>1, <1>2, <1>3 DEF TenantRest

\* A call does not answer, or gives one of the three answers.
Answers == \E t \in {"none", "own", "default"} : \E due, failed : answer' = [tenant |-> t, due |-> due, failed |-> failed]

LEMMA CallsAnswer ==
  ASSUME NEW c \in TenantCall,
         \/ \E r \in Resolver : Tenants!GetTenantId(c, r)
         \/ Tenants!LookUpUser(c) \/ Tenants!LookupRejects(c) \/ Tenants!FindsNone(c) \/ Tenants!FindRejects(c)
         \/ Tenants!Create(c) \/ Tenants!CreateRefused(c) \/ Tenants!CreateRejects(c)
         \/ \E i \in DOMAIN tenants : Tenants!Finds(c, i)
  PROVE  answer' = answer \/ Answers
<1>1. \A x : \A t \in {"none", "own", "default"} : Tenants!Ends(c, x, t) => Answers
  BY Zenon DEF Tenants!Ends, Answers
<1>2. \A x, pc : Tenants!At(c, x, pc) => answer' = answer
  BY DEF Tenants!At
<1>3. \A x : Tenants!DefaultTenant(c, x) => answer' = answer \/ Answers
  BY <1>1, <1>2 DEF Tenants!DefaultTenant
<1>4. \A x : Tenants!Past(c, x) => answer' = answer \/ Answers
  BY <1>1, <1>2 DEF Tenants!Past
<1>5. CASE \E r \in Resolver : Tenants!GetTenantId(c, r)
  BY <1>2, <1>3, <1>5, Zenon DEF Tenants!GetTenantId
<1>6. CASE Tenants!LookUpUser(c)
  BY <1>1, <1>2, <1>3, <1>6 DEF Tenants!LookUpUser, Tenants!MemberFound, Tenants!ExactFound, Tenants!DomainFound
<1>7. CASE Tenants!LookupRejects(c)
  BY <1>2, <1>3, <1>7, Zenon DEF Tenants!LookupRejects
<1>8. CASE Tenants!FindsNone(c) \/ Tenants!FindRejects(c)
  BY <1>4, <1>8, Zenon DEF Tenants!FindsNone, Tenants!FindRejects
<1>9. CASE Tenants!Create(c)
  BY <1>9, Zenon DEF Tenants!Create, Answers
<1>10. CASE Tenants!CreateRefused(c) \/ Tenants!CreateRejects(c)
  BY <1>2, <1>10 DEF Tenants!CreateRefused, Tenants!CreateRejects
<1>11. CASE \E i \in DOMAIN tenants : Tenants!Finds(c, i)
  BY <1>1, <1>11 DEF Tenants!Finds
<1> QED
  BY <1>5, <1>6, <1>7, <1>8, <1>9, <1>10, <1>11

\* The cache points to one of the default tenants, of which none goes.
LEMMA CallsCache ==
  ASSUME TenantInv, TenantRest, NEW c \in TenantCall,
         \/ \E r \in Resolver : Tenants!GetTenantId(c, r)
         \/ Tenants!LookUpUser(c) \/ Tenants!LookupRejects(c) \/ Tenants!FindsNone(c) \/ Tenants!FindRejects(c)
         \/ Tenants!Create(c) \/ Tenants!CreateRefused(c) \/ Tenants!CreateRejects(c)
         \/ \E i \in DOMAIN tenants : Tenants!Finds(c, i)
  PROVE  own' = own /\ cached' \in [Resolver -> 0 .. Len(tenants')]
<1>1. tenants \in DefaultTenants /\ Len(tenants) \in Nat /\ DOMAIN tenants = 1 .. Len(tenants)
  BY DEF TenantInv, TenantTypes, DefaultTenants
<1>2. /\ cached \in [Resolver -> 0 .. Len(tenants)]
      /\ Len(tenants') \in Nat /\ Len(tenants') >= Len(tenants) => cached \in [Resolver -> 0 .. Len(tenants')]
  BY <1>1 DEF TenantRest
<1>3. \A x : Tenants!Insert(x) => Len(tenants') \in Nat /\ Len(tenants') >= Len(tenants)
  BY <1>1 DEF Tenants!Insert, DefaultTenants
<1>4. CASE UNCHANGED <<tenants, own, cached>>
  BY <1>4 DEF TenantRest
<1>5. CASE \/ \E r \in Resolver : Tenants!GetTenantId(c, r)
           \/ Tenants!LookUpUser(c) \/ Tenants!LookupRejects(c) \/ Tenants!FindsNone(c) \/ Tenants!FindRejects(c)
           \/ Tenants!CreateRefused(c)
  BY <1>4, <1>5 DEF Tenants!GetTenantId, Tenants!LookUpUser, Tenants!LookupRejects, Tenants!FindsNone,
                    Tenants!FindRejects, Tenants!CreateRefused
<1>6. CASE Tenants!Create(c)
  <2>1. own' = own /\ cached' = [cached EXCEPT ![tenantCall[c].resolver] = Len(tenants')] /\ Tenants!Insert(c)
    BY <1>6 DEF Tenants!Create
  <2>2. cached \in [Resolver -> 0 .. Len(tenants')] /\ Len(tenants') \in 0 .. Len(tenants')
    BY <1>2, <1>3, <2>1
  <2> QED
    BY <2>1, <2>2
<1>7. CASE Tenants!CreateRejects(c)
  <2>1. own' = own /\ cached' = cached /\ (tenants' = tenants \/ Tenants!Insert(c))
    BY <1>7 DEF Tenants!CreateRejects
  <2>2. Len(tenants') \in Nat /\ Len(tenants') >= Len(tenants)
    BY <1>1, <1>3, <2>1
  <2> QED
    BY <1>1, <1>2, <2>1, <2>2
<1>8. CASE \E i \in DOMAIN tenants : Tenants!Finds(c, i)
  <2>1. PICK i \in DOMAIN tenants : Tenants!Finds(c, i)
    BY <1>8
  <2>2. own' = own /\ tenants' = tenants /\ cached' = [cached EXCEPT ![tenantCall[c].resolver] = i]
    BY <2>1 DEF Tenants!Finds
  <2>3. i \in 0 .. Len(tenants')
    BY <1>1, <2>1, <2>2
  <2> QED
    BY <1>2, <2>2, <2>3
<1> QED
  BY <1>5, <1>6, <1>7, <1>8

LEMMA TenantRestStep == TenantInv /\ TenantRest /\ [Next]_vars => TenantRest'
<1> SUFFICES ASSUME TenantInv, TenantRest, TenantInv', Tenants!Next \/ UNCHANGED tenancy PROVE TenantRest'
  BY TenantMoves, TenantStep
<1>1. answer' = answer \/ Answers => answer' \in AnswerShape
  <2>1. answer'.due \in BOOLEAN /\ answer'.failed \in BOOLEAN
    BY DEF TenantInv, AnswerIsGood
  <2>2. ASSUME Answers PROVE answer' \in AnswerShape
    <3>0. PICK t \in {"none", "own", "default"} :
            \E due, failed : answer' = [tenant |-> t, due |-> due, failed |-> failed]
      BY <2>2 DEF Answers
    <3>1. PICK due, failed : answer' = [tenant |-> t, due |-> due, failed |-> failed]
      BY <3>0
    <3>2. due \in BOOLEAN /\ failed \in BOOLEAN
      BY <2>1, <3>1
    <3> QED
      BY <3>1, <3>2 DEF AnswerShape
  <2> QED
    BY <2>2 DEF TenantRest
<1>2. CASE UNCHANGED tenancy
  BY <1>2 DEF tenancy, TenantRest
<1>3. ASSUME NEW k \in {"row", "tenantId"}, Tenants!LinkUser(k) PROVE TenantRest'
  BY <1>3 DEF Tenants!LinkUser, TenantRest, Tenants!Links
<1>4. ASSUME NEW r \in Resolver, Tenants!Restart(r) PROVE TenantRest'
  <2>1. Len(tenants) \in Nat
    BY DEF TenantInv, TenantTypes, DefaultTenants
  <2> QED
    BY <1>4, <2>1 DEF Tenants!Restart, TenantRest
<1>5. ASSUME NEW c \in TenantCall,
             \/ \E r \in Resolver : Tenants!GetTenantId(c, r)
             \/ Tenants!LookUpUser(c) \/ Tenants!LookupRejects(c) \/ Tenants!FindsNone(c) \/ Tenants!FindRejects(c)
             \/ Tenants!Create(c) \/ Tenants!CreateRefused(c) \/ Tenants!CreateRejects(c)
             \/ \E i \in DOMAIN tenants : Tenants!Finds(c, i)
      PROVE  TenantRest'
  <2>1. own' = own /\ cached' \in [Resolver -> 0 .. Len(tenants')]
    BY <1>5, CallsCache
  <2>2. answer' = answer \/ Answers
    BY <1>5, CallsAnswer
  <2> QED
    BY <1>1, <2>1, <2>2 DEF TenantRest
<1> QED
  BY <1>2, <1>3, <1>4, <1>5 DEF Tenants!Next

LEMMA TenantIsTyped == TenantInv /\ TenantRest => Tenants!TypeOK
<1> SUFFICES ASSUME TenantInv, TenantRest PROVE Tenants!TypeOK
  OBVIOUS
<1>1. ASSUME NEW c \in TenantCall
      PROVE  tenantCall[c] = Tenants!NoCall
             \/ /\ tenantCall[c].pc \in Places
                /\ tenantCall[c].resolver \in Resolver /\ tenantCall[c].due \in BOOLEAN
                /\ tenantCall[c].overtaken \in BOOLEAN /\ tenantCall[c].failed \in BOOLEAN
  BY TenantRecords DEF TenantInv, TenantTypes
<1>2. /\ deployment \in Deployment /\ tenants \in Seq([overtaken : BOOLEAN, failed : BOOLEAN])
      /\ own \subseteq Tenants!Links \cup {"row"} /\ cached \in [Resolver -> 0 .. Len(tenants)]
      /\ answer \in [tenant : {"none", "own", "default"}, due : BOOLEAN, failed : BOOLEAN]
  BY DEF TenantInv, TenantTypes, DefaultTenants, TenantRest, AnswerShape
<1> QED
  BY <1>1, <1>2, Zenon DEF Tenants!TypeOK, Places

-----------------------------------------------------------------------------
QuotaRest == usageEvents \in [Quota!Day -> 0 .. MaxActs] /\ acts \in [Quota!Day -> 0 .. MaxActs]

LEMMA QuotaRestInit == Quota!Init => QuotaRest
BY QuotaNumbers DEF Quota!Init, QuotaRest

LEMMA QuotaRestStep == QuotaInv /\ QuotaRest /\ [Next]_vars => QuotaRest'
<1> SUFFICES ASSUME QuotaInv, QuotaRest, Quota!Next \/ UNCHANGED quota PROVE QuotaRest'
  BY QuotaMoves
<1> USE DEF QuotaRest
<1>1. CASE UNCHANGED quota \/ Quota!Midnight
  BY <1>1 DEF quota, Quota!Midnight
<1>2. ASSUME NEW q \in Metered,
             Quota!EnforceUsageLimit(q) \/ Quota!CountSince(q) \/ Quota!CountFails(q) \/ Quota!RecordFails(q)
      PROVE  QuotaRest'
  BY <1>2 DEF Quota!EnforceUsageLimit, Quota!CountSince, Quota!CountFails, Quota!RecordFails
<1>3. ASSUME NEW q \in Metered, Quota!Act(q) PROVE QuotaRest'
  <2>1. acts[day] < MaxActs /\ acts' = [acts EXCEPT ![day] = @ + 1] /\ usageEvents' = usageEvents
    BY <1>3 DEF Quota!Act
  <2>2. day \in Quota!Day
    BY DEF QuotaInv, QuotaTypes
  <2> QED
    BY <2>1, <2>2, QuotaNumbers
<1>4. ASSUME NEW q \in Metered, Quota!Record(q) PROVE QuotaRest'
  <2>1. usageEvents[day] < MaxActs /\ usageEvents' = [usageEvents EXCEPT ![day] = @ + 1] /\ acts' = acts
    BY <1>4 DEF Quota!Record
  <2>2. day \in Quota!Day
    BY DEF QuotaInv, QuotaTypes
  <2> QED
    BY <2>1, <2>2, QuotaNumbers
<1> QED
  BY <1>1, <1>2, <1>3, <1>4 DEF Quota!Next

LEMMA QuotaIsTyped == QuotaInv /\ QuotaRest => Quota!TypeOK
BY DEF QuotaInv, QuotaTypes, QuotaRest, Quota!TypeOK, Counting, Working, Recording

-----------------------------------------------------------------------------
LEMMA GrowthNumbers == Top \in Nat /\ MaxEntries \in Nat /\ Skills \in Nat \ {0}
BY ServicesAssumption

Proficiency == [Growth!Skill -> 0 .. Top]

\* A feedback promotes a skill that it has not listed at the top.
BelowTop(x) == x.pc = "promote" => x.listed \in Proficiency /\ x.listed[x.at] < Top
GrowthRest ==
  /\ level \in Proficiency /\ entries \in 0 .. MaxEntries
  /\ \A f \in Feedback : BelowTop(feedback[f])

LEMMA IdleIsBelow == \A x \in FeedbackBusy : BelowTop(x)
BY GrowthRecords DEF BelowTop

LEMMA GrowthRestInit == Growth!Init => GrowthRest
<1> SUFFICES ASSUME Growth!Init PROVE GrowthRest
  OBVIOUS
<1>1. level \in Proficiency /\ entries \in 0 .. MaxEntries
  BY GrowthNumbers DEF Growth!Init, Proficiency
<1>2. \A f \in Feedback : BelowTop(feedback[f])
  BY IdleIsBelow, GrowthRecords DEF Growth!Init
<1> QED
  BY <1>1, <1>2 DEF GrowthRest

\* Whatever Promotes goes on with is below the top.
LEMMA PromotesBelow ==
  ASSUME GrowthInv, GrowthRest, NEW f \in Feedback, NEW listed \in Proficiency, NEW i \in Nat \ {0},
         Growth!Promotes(f, listed, i)
  PROVE  \A g \in Feedback : BelowTop(feedback'[g])
<1> DEFINE rest == {j \in i .. Skills : j <= MaxPromotions /\ listed[j] < Top}
           least == CHOOSE j \in rest : \A k \in rest : j <= k
           x == [pc |-> "promote", listed |-> listed, at |-> least]
<1>1. feedback' = [feedback EXCEPT ![f] = IF rest = {} THEN Growth!NoFeedback ELSE x]
  BY DEF Growth!Promotes, Growth!Becomes
<1>2. rest # {} => BelowTop(x)
  <2>1. SUFFICES ASSUME rest # {} PROVE BelowTop(x)
    OBVIOUS
  <2>2. least \in rest
    <3>1. rest \in SUBSET Nat
      BY GrowthNumbers
    <3> HIDE DEF rest
    <3>2. \E j \in rest : \A k \in rest : j <= k
      BY <2>1, <3>1, SetHasLeast
    <3> QED
      BY <3>2
  <2>3. listed[least] < Top
    BY <2>2
  <2> HIDE DEF least, rest
  <2> QED
    BY <2>3 DEF BelowTop
<1>3. BelowTop(Growth!NoFeedback)
  BY IdleIsBelow, GrowthRecords
<1> HIDE DEF rest, x
<1>4. \A g \in Feedback : feedback'[g] = IF g = f THEN IF rest = {} THEN Growth!NoFeedback ELSE x ELSE feedback[g]
  BY <1>1 DEF GrowthInv, GrowthTypes
<1> QED
  BY <1>2, <1>3, <1>4 DEF GrowthRest

LEMMA BecomesBelow ==
  ASSUME GrowthInv, GrowthRest, NEW f \in Feedback, NEW x \in FeedbackBusy, Growth!Becomes(f, x)
  PROVE  \A g \in Feedback : BelowTop(feedback'[g])
<1>1. \A g \in Feedback : feedback'[g] = IF g = f THEN x ELSE feedback[g]
  BY DEF Growth!Becomes, GrowthInv, GrowthTypes
<1> QED
  BY <1>1, IdleIsBelow DEF GrowthRest

LEMMA SetStaysInRange ==
  ASSUME GrowthInv, GrowthRest, NEW f \in Feedback, feedback[f].pc = "promote"
  PROVE  /\ feedback[f].listed \in Proficiency /\ feedback[f].at \in Growth!Skill
         /\ [level EXCEPT ![feedback[f].at] = feedback[f].listed[feedback[f].at] + 1] \in Proficiency
<1>1. feedback[f].at \in Growth!Skill
  BY GrowthRecords DEF GrowthInv, GrowthTypes
<1>2. feedback[f].listed \in Proficiency /\ feedback[f].listed[feedback[f].at] < Top
  BY DEF GrowthRest, BelowTop
<1>3. feedback[f].listed[feedback[f].at] + 1 \in 0 .. Top
  BY <1>1, <1>2, GrowthNumbers DEF Proficiency
<1> QED
  BY <1>1, <1>2, <1>3 DEF GrowthRest, Proficiency

LEMMA GrowthRestStep == GrowthInv /\ GrowthRest /\ [Next]_vars => GrowthRest'
<1> SUFFICES ASSUME GrowthInv, GrowthRest, Growth!Next \/ UNCHANGED growth PROVE GrowthRest'
  BY GrowthMoves
<1>1. CASE UNCHANGED growth
  BY <1>1 DEF growth, GrowthRest
<1>2. ASSUME NEW f \in Feedback, Growth!RecordTaskFeedback(f) \/ Growth!Insert(f) \/ Growth!InsertRejects(f)
      PROVE  GrowthRest'
  <2>1. level' = level /\ entries' \in 0 .. MaxEntries
    BY <1>2, GrowthNumbers DEF Growth!RecordTaskFeedback, Growth!Insert, Growth!InsertRejects, GrowthRest
  <2>2. \E x \in FeedbackBusy : Growth!Becomes(f, x)
    BY <1>2, GrowthRecords DEF Growth!RecordTaskFeedback, Growth!Insert, Growth!InsertRejects
  <2> QED
    BY <2>1, <2>2, BecomesBelow DEF GrowthRest
<1>3. ASSUME NEW f \in Feedback, Growth!ListByCharacter(f) PROVE GrowthRest'
  <2>1. UNCHANGED <<level, entries>> /\ Growth!Promotes(f, level, 1)
    BY <1>3 DEF Growth!ListByCharacter
  <2> QED
    BY <2>1, PromotesBelow DEF GrowthRest
<1>4. ASSUME NEW f \in Feedback, Growth!SetProficiency(f) PROVE GrowthRest'
  <2>1. /\ feedback[f].pc = "promote" /\ entries' = entries
        /\ level' = [level EXCEPT ![feedback[f].at] = feedback[f].listed[feedback[f].at] + 1]
        /\ Growth!Promotes(f, feedback[f].listed, feedback[f].at + 1)
    BY <1>4 DEF Growth!SetProficiency, Growth!Set
  <2>3. feedback[f].listed \in Proficiency /\ feedback[f].at \in Growth!Skill /\ level' \in Proficiency
    BY <2>1, SetStaysInRange
  <2>2. feedback[f].at + 1 \in Nat \ {0}
    BY <2>3, GrowthNumbers DEF Growth!Skill
  <2> QED
    BY <2>1, <2>2, <2>3, PromotesBelow DEF GrowthRest
<1>5. ASSUME NEW f \in Feedback, Growth!SkillsReject(f) PROVE GrowthRest'
  <2>1. entries' = entries /\ Growth!Becomes(f, Growth!NoFeedback)
    BY <1>5 DEF Growth!SkillsReject
  <2>2. level' \in Proficiency
    <3>1. CASE level' = level
      BY <3>1 DEF GrowthRest
    <3>2. CASE feedback[f].pc = "promote"
               /\ level' = [level EXCEPT ![feedback[f].at] = feedback[f].listed[feedback[f].at] + 1]
      BY <3>2, SetStaysInRange
    <3> QED
      BY <1>5, <3>1, <3>2 DEF Growth!SkillsReject, Growth!Set
  <2> QED
    BY <2>1, <2>2, BecomesBelow, GrowthRecords DEF GrowthRest
<1> QED
  BY <1>1, <1>2, <1>3, <1>4, <1>5 DEF Growth!Next

LEMMA GrowthIsTyped == GrowthInv /\ GrowthRest => Growth!TypeOK
<1> SUFFICES ASSUME GrowthInv, GrowthRest PROVE Growth!TypeOK
  OBVIOUS
<1>1. ASSUME NEW f \in Feedback
      PROVE  feedback[f] \in [pc : {"idle", "cv", "skills"}]
                              \cup [pc : {"promote"}, at : Growth!Skill, listed : [Growth!Skill -> 0 .. Top]]
  <2>1. CASE feedback[f] \in FeedbackBusy
    BY <2>1 DEF FeedbackBusy, Growth!NoFeedback
  <2>2. CASE feedback[f] \in FeedbackPromoting
    <3>1. feedback[f].listed \in Proficiency
      BY <2>2, GrowthRecords DEF GrowthRest, BelowTop
    <3> QED
      BY <2>2, <3>1 DEF FeedbackPromoting, Proficiency
  <2> QED
    BY <2>1, <2>2 DEF GrowthInv, GrowthTypes
<1> QED
  BY <1>1, Zenon DEF GrowthInv, GrowthTypes, GrowthRest, Proficiency, Growth!TypeOK

-----------------------------------------------------------------------------
(* Records that speak of each other agree, where no two requests of a kind had         *)
(* crossed: the reads and the writes of a request to the stores are separate calls, so *)
(* that others come between them, and any of them may fail.  An embedding is of the    *)
(* row's text but for the parts that confirmPending and update embed as empty.         *)
THEOREM RecordsAlwaysAgree == SafeSpec => []RecordsAgree
<1>1. Init => TaskInv /\ MemInv /\ AuditInv /\ FlagInv /\ GrowthInv
  BY TaskInit, MemInit, AuditInit, FlagInit, GrowthInit DEF Init
<1>2. TaskInv /\ MemInv /\ AuditInv /\ FlagInv /\ GrowthInv /\ [Next]_vars
        => (TaskInv /\ MemInv /\ AuditInv /\ FlagInv /\ GrowthInv)'
  BY TaskStep, MemStep, AuditStep, FlagStep, GrowthStep
<1>3. TaskInv /\ MemInv /\ AuditInv /\ FlagInv /\ GrowthInv => RecordsAgree
  BY TaskAgrees, MemoryAgrees, AuditAgrees, FlagAgrees, GrowthAgrees DEF RecordsAgree
<1> QED
  BY <1>1, <1>2, <1>3, PTL DEF SafeSpec

\* What is meant to happen once happens again only where two calls had crossed, a mark was
\* lost, or the caller had asked for less: every step of a call that another one can come
\* between is one of the service's own, and so is every failure.  A run of an agent's
\* action may cost anything, whatever its estimate was; a state that the store does not
\* have is accepted only from a callback that opted in to it.
THEOREM OnceUnlessCrossed == SafeSpec => []TwiceOnlyIfCrossed
<1>1. Init => BillInv /\ OAuthInv /\ BudgetInv /\ TenantInv /\ LimiterInv /\ QuotaInv
  BY BillInit, OAuthInit, BudgetInit, TenantInit, LimiterInit, QuotaInit DEF Init
<1>2. BillInv /\ OAuthInv /\ BudgetInv /\ TenantInv /\ LimiterInv /\ QuotaInv /\ [Next]_vars
        => (BillInv /\ OAuthInv /\ BudgetInv /\ TenantInv /\ LimiterInv /\ QuotaInv)'
  BY BillStep, OAuthStep, BudgetStep, TenantStep, LimiterStep, QuotaStep
<1>3. BillInv /\ OAuthInv /\ BudgetInv /\ TenantInv /\ LimiterInv /\ QuotaInv => TwiceOnlyIfCrossed
  <2> SUFFICES ASSUME BillInv, OAuthInv, BudgetInv, TenantInv, LimiterInv, QuotaInv PROVE TwiceOnlyIfCrossed
    OBVIOUS
  <2>1. Billing!HandledAgainOnlyContended /\ OAuth!UsedOnceUnlessCrossed
    BY DEF BillInv, BillOnce, Billing!HandledAgainOnlyContended, OAuthInv, OAuthOnce, OAuth!UsedOnceUnlessCrossed
  <2>2. Budget!OverspentOnlyCrossed
    BY DEF BudgetInv, BudgetHolds, Budget!OverspentOnlyCrossed
  <2>3. Tenants!SecondDefaultOnlyCrossed /\ Limiter!RateIsLimited /\ Quota!ExceededOnlyUnseen
    BY TenantAgrees, QuotaAgrees DEF LimiterInv
  <2> QED
    BY <2>1, <2>2, <2>3 DEF TwiceOnlyIfCrossed
<1> QED
  BY <1>1, <1>2, <1>3, PTL DEF SafeSpec

\* What a service reports as done has been done, although whatever it awaits may fail, be
\* retried, overlap another attempt or be cut off by a crash.
THEOREM ReportedHasBeenDone == SafeSpec => []ReportedIsDone
<1>1. Init => BillInv /\ GdprInv /\ DomInv /\ TenantInv
  BY BillInit, GdprInit, DomInit, TenantInit DEF Init
<1>2. BillInv /\ GdprInv /\ DomInv /\ TenantInv /\ [Next]_vars => (BillInv /\ GdprInv /\ DomInv /\ TenantInv)'
  BY BillStep, GdprStep, DomStep, TenantStep
<1>3. BillInv /\ GdprInv /\ DomInv /\ TenantInv => ReportedIsDone
  BY TenantAgrees DEF BillInv, BillHandled, GdprInv, DomInv, ReportedIsDone
<1> QED
  BY <1>1, <1>2, <1>3, PTL DEF SafeSpec

\* A domain moves along the state machine of types.ts, unless two runs of a cron had it.
THEOREM DomainsFollowStateMachine == SafeSpec => FollowsStateMachine
<1>1. Init => DomInv
  BY DomInit DEF Init
<1>2. DomInv /\ [Next]_vars
        => DomInv' /\ [\A d \in Domain \ domContended :
                         state'[d] = state[d] \/ <<state[d], state'[d]>> \in Domains!Documented]_Domains!cvars
  BY DomStep
<1> QED
  BY <1>1, <1>2, PTL DEF SafeSpec, FollowsStateMachine, Domains!FollowsStateMachine

-----------------------------------------------------------------------------
Rests == GdprRest /\ DomRest /\ actionsApproved \subseteq Action /\ TenantRest /\ QuotaRest /\ GrowthRest

\* All fifteen services keep their types: no row, request or call in flight is other than
\* the store or the code that reads it expects.
THEOREM TypeCorrect == SafeSpec => []TypeOK
<1> DEFINE Half == /\ BillInv /\ GdprInv /\ TaskInv /\ MemInv /\ DomInv /\ BreakerInv /\ AuditInv /\ OAuthInv
           Other == LiveInv /\ BudgetInv /\ TenantInv /\ FlagInv /\ LimiterInv /\ QuotaInv /\ GrowthInv
<1>1. Init => Half /\ Other
  BY BillInit, GdprInit, TaskInit, MemInit, DomInit, BreakerInit, AuditInit, OAuthInit, LiveInit, BudgetInit,
     TenantInit, FlagInit, LimiterInit, QuotaInit, GrowthInit DEF Init
<1>2. Half /\ Other /\ [Next]_vars => (Half /\ Other)'
  BY BillStep, GdprStep, TaskStep, MemStep, DomStep, BreakerStep, AuditStep, OAuthStep, LiveStep, BudgetStep,
     TenantStep, FlagStep, LimiterStep, QuotaStep, GrowthStep
<1>3. Init => Rests
  <2>1. Budget!Init => actionsApproved \subseteq Action
    BY DEF Budget!Init
  <2> QED
    BY <2>1, GdprRestInit, DomRestInit, TenantRestInit, QuotaRestInit, GrowthRestInit DEF Init, Rests
<1>4. Half /\ Other /\ Rests /\ [Next]_vars => Rests'
  BY GdprRestStep, DomRestStep, ApprovedStep, TenantRestStep, QuotaRestStep, GrowthRestStep DEF Rests
<1>5. Half /\ Other /\ Rests => TypeOK
  <2> SUFFICES ASSUME Half, Other, Rests PROVE TypeOK
    OBVIOUS
  <2>1. Billing!TypeOK /\ Task!TypeOK /\ Memory!TypeOK /\ Breaker!TypeOK /\ Audit!TypeOK /\ OAuth!TypeOK
    BY DEF BillInv, TaskInv, MemInv, MemTypes, BreakerInv, AuditInv, OAuthInv
  <2>2. Live!TypeOK /\ Flags!TypeOK /\ Limiter!TypeOK
    BY DEF LiveInv, FlagInv, LimiterInv
  <2>3. Gdpr!TypeOK /\ Domains!TypeOK /\ Budget!TypeOK
    BY GdprIsTyped, DomIsTyped, BudgetIsTyped DEF Rests
  <2>4. Tenants!TypeOK /\ Quota!TypeOK /\ Growth!TypeOK
    BY TenantIsTyped, QuotaIsTyped, GrowthIsTyped DEF Rests
  <2> QED
    BY <2>1, <2>2, <2>3, <2>4 DEF TypeOK
<1> QED
  <2> HIDE DEF Half, Other
  <2> QED
    BY <1>1, <1>2, <1>3, <1>4, <1>5, PTL DEF SafeSpec
=============================================================================
