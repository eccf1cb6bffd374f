----------------------- MODULE ApprovalWorkflowProofs -----------------------
(***************************************************************************)
(* Proofs about ApprovalWorkflow for any number of submissions, exception  *)
(* requests, approvers, texts and overlapping requests, on their own and   *)
(* beside any number of runs of ApprovalEscalation's job.                  *)
(***************************************************************************)
EXTENDS ApprovalEscalation, TLAPS

\* What a request in flight may rely on after its await, given the rows, the
\* exception requests and the audit log: the rows it is about are there, and
\* the audit entries it was to leave behind too.
OpOK(op, rw, ex, au) ==
    /\ op.pc \in {"evaluateNew", "evaluateFix"} =>
          op.s \in Submissions /\ op.content \in Contents
    /\ op.pc = "evaluateFix" => rw[op.s] # None
    /\ op.pc \in {"audit", "hook", "mark", "cascade"} => op.s \in Submissions
    /\ op.pc = "hook" => <<op.s, "approval">> \in au
    /\ op.pc \in {"mark", "auditException", "cascade"} =>
          /\ op.e \in Exceptions
          /\ ex[op.e] # None
          /\ ex[op.e].original = op.s
          /\ op.to \in {"override", "approved", "rejected"}
    /\ op.pc = "cascade" =>
          \/ op.to = "approved" /\ <<op.e, "change">> \in au
          \/ op.to = "rejected" /\ <<op.e, "stop">> \in au

OpsOK == \A o \in Ops : OpOK(ops[o], rows, exceptions, audit)

TypeAndOps == TypeOK /\ OpsOK

\* Nothing a request may rely on goes away again.
Stable ==
    /\ audit \subseteq audit'
    /\ \A s \in Submissions : rows[s] # None => rows'[s] # None
    /\ \A e \in Exceptions : exceptions[e] # None =>
          exceptions'[e] # None /\ exceptions'[e].original = exceptions[e].original

LEMMA InitTypeAndOps == Init => TypeAndOps
<1> SUFFICES ASSUME Init PROVE TypeAndOps
  OBVIOUS
<1> USE ApprovalWorkflowAssumption DEF ApprovalWorkflowAssumption
<1>1. Idle \in Op
  BY DEF Idle, Op
<1>2. TypeOK
  BY <1>1 DEF Init, TypeOK
<1>3. OpsOK
  BY DEF Init, OpsOK, OpOK, Idle
<1> QED
  BY <1>2, <1>3 DEF TypeAndOps

\* An update of a row leaves a row.
LEMMA RowUpdates ==
    ASSUME NEW r \in Row
    PROVE  /\ \A st \in Status : [r EXCEPT !.status = st] \in Row
           /\ \A st \in Status, a \in Approvers :
                 [r EXCEPT !.status = st, !.approver = a] \in Row
           /\ \A st \in Status, a \in Approvers, b \in BOOLEAN :
                 /\ [r EXCEPT !.status = st, !.reason = b, !.approver = a] \in Row
                 /\ [r EXCEPT !.status = st, !.approver = a, !.reason = b] \in Row
           /\ \A st \in Status, c \in Contents :
                 [r EXCEPT !.content = c, !.check = c, !.status = st] \in Row
           /\ \A st \in Status, e \in Exceptions :
                 [r EXCEPT !.status = st, !.exception = e] \in Row
BY DEF Row

\* Requests other than the one that steps keep what they rely on.
LEMMA OpsStep ==
    ASSUME TypeAndOps, Stable, NEW o \in Ops, NEW x,
           OpOK(x, rows', exceptions', audit'), ops' = [ops EXCEPT ![o] = x]
    PROVE  OpsOK'
<1> SUFFICES ASSUME NEW p \in Ops
             PROVE  OpOK(ops'[p], rows', exceptions', audit')
  BY DEF OpsOK
<1>1. CASE p = o
  BY <1>1 DEF TypeAndOps, TypeOK
<1>2. CASE p # o
  <2>1. ops'[p] = ops[p]
    BY <1>2 DEF TypeAndOps, TypeOK
  <2>2. OpOK(ops[p], rows, exceptions, audit)
    BY DEF TypeAndOps, OpsOK
  <2> QED
    BY <2>1, <2>2 DEF OpOK, Stable
<1> QED
  BY <1>1, <1>2

\* A step that sets one row to another row, and touches no exception request.
LEMMA RowStep ==
    ASSUME TypeAndOps, NEW s \in Submissions, NEW r \in Row,
           rows' = [rows EXCEPT ![s] = r], audit \subseteq audit',
           UNCHANGED exceptions
    PROVE  Stable /\ rows' \in [Submissions -> Row \union {None}]
BY NoRowAssumption DEF TypeAndOps, TypeOK, Stable

\* A request that begins.
LEMMA BeginStep ==
    ASSUME TypeAndOps, Stable, NEW o \in Ops, NEW op \in Op, Begin(o, op),
           OpOK(op, rows', exceptions', audit')
    PROVE  OpsOK' /\ ops' \in [Ops -> Op] /\ requests' \in 0..MaxRequests
<1>1. ops' = [ops EXCEPT ![o] = op]
  BY DEF Begin
<1>2. OpsOK'
  BY <1>1, OpsStep
<1> QED
  BY <1>1, <1>2, ApprovalWorkflowAssumption
  DEF TypeAndOps, TypeOK, Begin, ApprovalWorkflowAssumption

LEMMA IdleIsOp == Idle \in Op /\ \A rw, ex, au : OpOK(Idle, rw, ex, au)
BY DEF Idle, Op, OpOK

LEMMA RequestStep ==
    ASSUME TypeAndOps, NEW o \in Ops, Request(o)
    PROVE  TypeAndOps' /\ Stable
<1> USE ApprovalWorkflowAssumption, NoRowAssumption DEF ApprovalWorkflowAssumption
<1>1. ASSUME NEW s \in Submissions, NEW c \in Contents, Submit(o, s, c)
      PROVE  TypeAndOps' /\ Stable
  <2> DEFINE op == [Idle EXCEPT !.pc = "evaluateNew", !.s = s, !.content = c]
  <2>1. Stable
    BY <1>1 DEF Submit, Stable
  <2>2. op \in Op /\ OpOK(op, rows', exceptions', audit')
    BY DEF Op, Idle, OpOK
  <2>3. Begin(o, op)
    BY <1>1 DEF Submit
  <2> HIDE DEF op
  <2>4. OpsOK' /\ ops' \in [Ops -> Op] /\ requests' \in 0..MaxRequests
    BY <2>1, <2>2, <2>3, BeginStep
  <2> QED
    BY <1>1, <2>1, <2>4 DEF Submit, TypeAndOps, TypeOK
<1>2. ASSUME NEW s \in Submissions, NEW c \in Contents, Reapply(o, s, c)
      PROVE  TypeAndOps' /\ Stable
  <2> DEFINE op == [Idle EXCEPT !.pc = "evaluateFix", !.s = s, !.content = c]
  <2>1. Stable
    BY <1>2 DEF Reapply, Stable
  <2>2. op \in Op /\ OpOK(op, rows', exceptions', audit')
    BY <1>2 DEF Op, Idle, OpOK, Reapply
  <2>3. Begin(o, op)
    BY <1>2 DEF Reapply
  <2> HIDE DEF op
  <2>4. OpsOK' /\ ops' \in [Ops -> Op] /\ requests' \in 0..MaxRequests
    BY <2>1, <2>2, <2>3, BeginStep
  <2> QED
    BY <1>2, <2>1, <2>4 DEF Reapply, TypeAndOps, TypeOK
<1>3. ASSUME NEW s \in Submissions, NEW r \in Row, NEW to \in Status,
             rows' = [rows EXCEPT ![s] = r],
             Begin(o, [Idle EXCEPT !.pc = "audit", !.s = s, !.to = to]),
             UNCHANGED <<exceptions, audit, handed>>
      PROVE  TypeAndOps' /\ Stable
  <2> DEFINE op == [Idle EXCEPT !.pc = "audit", !.s = s, !.to = to]
  <2>1. Stable /\ rows' \in [Submissions -> Row \union {None}]
    BY <1>3, RowStep
  <2>2. op \in Op /\ OpOK(op, rows', exceptions', audit')
    BY DEF Op, Idle, OpOK
  <2>3. Begin(o, op)
    BY <1>3
  <2> HIDE DEF op
  <2>4. OpsOK' /\ ops' \in [Ops -> Op] /\ requests' \in 0..MaxRequests
    BY <2>1, <2>2, <2>3, BeginStep
  <2> QED
    BY <1>3, <2>1, <2>4 DEF TypeAndOps, TypeOK
<1>4. ASSUME NEW s \in Submissions, NEW a \in Approvers, RecordApprove(o, s, a)
      PROVE  TypeAndOps' /\ Stable
  <2>1. [rows[s] EXCEPT !.status = "approved", !.approver = a] \in Row
    BY <1>4, RowUpdates DEF RecordApprove, TypeAndOps, TypeOK, Status
  <2>2. rows' = [rows EXCEPT ![s] = [rows[s] EXCEPT !.status = "approved", !.approver = a]]
    BY <1>4 DEF RecordApprove, TypeAndOps, TypeOK
  <2> QED
    BY <1>4, <2>1, <2>2, <1>3 DEF RecordApprove, Status
<1>5. ASSUME NEW s \in Submissions, NEW a \in Approvers, RecordReject(o, s, a)
      PROVE  TypeAndOps' /\ Stable
  <2> DEFINE r == [rows[s] EXCEPT !.status = "rejected", !.approver = a, !.reason = TRUE]
  <2>1. r \in Row
    BY <1>5, RowUpdates DEF RecordReject, TypeAndOps, TypeOK, Status
  <2>2. rows' = [rows EXCEPT ![s] = r]
    BY <1>5 DEF RecordReject, TypeAndOps, TypeOK
  <2> QED
    BY <1>5, <2>1, <2>2, <1>3 DEF RecordReject, Status
<1>6. ASSUME NEW s \in Submissions, NEW a \in Approvers,
             NEW action \in DOMAIN DecisionStatus, Decide(o, s, action, a)
      PROVE  TypeAndOps' /\ Stable
  <2> DEFINE r == [rows[s] EXCEPT !.status = DecisionStatus[action],
                                  !.reason = (action = "reject"), !.approver = a]
  <2>0. DecisionStatus[action] \in Status
    BY DEF DecisionStatus, Status
  <2>1. r \in Row
    BY <1>6, <2>0, RowUpdates DEF Decide, TypeAndOps, TypeOK
  <2>2. rows' = [rows EXCEPT ![s] = r]
    BY <1>6 DEF Decide, TypeAndOps, TypeOK
  <2> QED
    BY <1>6, <2>0, <2>1, <2>2, <1>3 DEF Decide
<1>7. ASSUME NEW e \in Exceptions, NEW s \in Submissions \union {None},
             SubmitException(o, e, s)
      PROVE  TypeAndOps' /\ Stable
  <2> DEFINE row == [original |-> s, decision |-> "none"]
             pc == IF s = None THEN "auditException" ELSE "mark"
             op == [Idle EXCEPT !.pc = pc, !.s = s, !.e = e, !.to = "override"]
  <2>0. row \in ExceptionRow /\ row.original = s
    BY DEF ExceptionRow
  <2>1. exceptions' = [exceptions EXCEPT ![e] = row] /\ exceptions[e] = None
    BY <1>7 DEF SubmitException
  <2> HIDE DEF row
  <2>2. Stable /\ exceptions' \in [Exceptions -> ExceptionRow \union {None}]
        /\ exceptions'[e] = row
    BY <1>7, <2>0, <2>1 DEF SubmitException, Stable, TypeAndOps, TypeOK
  <2>3. op \in Op /\ OpOK(op, rows', exceptions', audit')
    <3>1. pc \in {"mark", "auditException"} /\ (pc = "mark" => s \in Submissions)
      OBVIOUS
    <3> HIDE DEF pc
    <3>2. op \in Op
      BY <3>1 DEF Op, Idle, Status
    <3>3. op.pc = pc /\ op.s = s /\ op.e = e /\ op.to = "override"
      BY DEF Idle
    <3> HIDE DEF op
    <3> QED
      BY <2>0, <2>2, <3>1, <3>2, <3>3 DEF OpOK
  <2>4. Begin(o, op)
    BY <1>7 DEF SubmitException
  <2> HIDE DEF op
  <2>5. OpsOK' /\ ops' \in [Ops -> Op] /\ requests' \in 0..MaxRequests
    BY <2>2, <2>3, <2>4, BeginStep
  <2> QED
    BY <1>7, <2>2, <2>5 DEF SubmitException, TypeAndOps, TypeOK
<1>8. ASSUME NEW e \in Exceptions, NEW decision \in {"approved", "rejected"},
             DecideException(o, e, decision)
      PROVE  TypeAndOps' /\ Stable
  <2> DEFINE row == [exceptions[e] EXCEPT !.decision = decision]
             op == [Idle EXCEPT !.pc = "auditException", !.s = exceptions[e].original,
                                !.e = e, !.to = decision]
  <2>0. exceptions[e] \in ExceptionRow
    BY <1>8 DEF DecideException, TypeAndOps, TypeOK
  <2>1. row \in ExceptionRow /\ row.original = exceptions[e].original
        /\ exceptions[e].original \in Submissions \union {None}
    BY <2>0 DEF ExceptionRow
  <2>2. exceptions' = [exceptions EXCEPT ![e] = row]
    BY <1>8 DEF DecideException, TypeAndOps, TypeOK
  <2> HIDE DEF row
  <2>3. Stable /\ exceptions' \in [Exceptions -> ExceptionRow \union {None}]
        /\ exceptions'[e] = row
    BY <1>8, <2>1, <2>2 DEF DecideException, Stable, TypeAndOps, TypeOK
  <2>4. op \in Op /\ OpOK(op, rows', exceptions', audit')
    BY <2>1, <2>3 DEF Op, Idle, OpOK, Status
  <2>5. Begin(o, op)
    BY <1>8 DEF DecideException
  <2> HIDE DEF op
  <2>6. OpsOK' /\ ops' \in [Ops -> Op] /\ requests' \in 0..MaxRequests
    BY <2>3, <2>4, <2>5, BeginStep
  <2> QED
    BY <1>8, <2>3, <2>6 DEF DecideException, TypeAndOps, TypeOK
<1> QED
  BY <1>1, <1>2, <1>4, <1>5, <1>6, <1>7, <1>8 DEF Request

\* A request that goes on to its next await, or ends.
LEMMA GoOnStep ==
    ASSUME TypeAndOps, Stable, NEW o \in Ops,
           NEW pc \in {"audit", "hook", "mark", "auditException", "cascade"},
           OpOK([ops[o] EXCEPT !.pc = pc], rows', exceptions', audit'), Continue(o, pc)
    PROVE  OpsOK' /\ ops' \in [Ops -> Op]
<1> DEFINE x == [ops[o] EXCEPT !.pc = pc]
<1>1. x \in Op
  BY DEF TypeAndOps, TypeOK, Op
<1>2. ops' = [ops EXCEPT ![o] = x]
  BY DEF Continue, TypeAndOps, TypeOK
<1> HIDE DEF x
<1>3. OpOK(x, rows', exceptions', audit')
  BY DEF x
<1> QED
  BY <1>1, <1>2, <1>3, OpsStep DEF TypeAndOps, TypeOK

LEMMA EndStep ==
    ASSUME TypeAndOps, Stable, NEW o \in Ops, End(o)
    PROVE  OpsOK' /\ ops' \in [Ops -> Op]
BY IdleIsOp, OpsStep DEF End, TypeAndOps, TypeOK

LEMMA ContinueStep ==
    ASSUME TypeAndOps, NEW o \in Ops, OpStep(o)
    PROVE  TypeAndOps' /\ Stable
<1> USE ApprovalWorkflowAssumption, NoRowAssumption DEF ApprovalWorkflowAssumption
<1> DEFINE s == ops[o].s
<1>op. ops[o] \in Op /\ OpOK(ops[o], rows, exceptions, audit)
  BY DEF TypeAndOps, TypeOK, OpsOK
<1>v. \A c : Verdict(c) \in Status
  BY DEF Verdict, Status
<1>1. ASSUME NEW a \in Approvers \union {None}, SubmitEvaluated(o, a)
      PROVE  TypeAndOps' /\ Stable
  <2> DEFINE r == [status |-> Verdict(ops[o].content), content |-> ops[o].content,
                   check |-> ops[o].content, approver |-> a, reason |-> FALSE,
                   exception |-> None, escalated |-> FALSE]
  <2>1. s \in Submissions /\ r \in Row
    BY <1>1, <1>op, <1>v DEF SubmitEvaluated, OpOK, Row
  <2>2. rows' = [rows EXCEPT ![s] = r]
    BY <1>1 DEF SubmitEvaluated
  <2> HIDE DEF r
  <2>3. Stable /\ rows' \in [Submissions -> Row \union {None}]
    BY <1>1, <2>1, <2>2, RowStep DEF SubmitEvaluated
  <2>4. OpsOK' /\ ops' \in [Ops -> Op]
    BY <1>1, <2>3, EndStep DEF SubmitEvaluated
  <2> QED
    BY <1>1, <2>3, <2>4 DEF SubmitEvaluated, TypeAndOps, TypeOK
<1>2. ASSUME ReapplyEvaluated(o)
      PROVE  TypeAndOps' /\ Stable
  <2> DEFINE c == ops[o].content
             r == [rows[s] EXCEPT !.content = c, !.check = c, !.status = Verdict(c)]
             x == [ops[o] EXCEPT !.pc = "audit", !.to = "none"]
  <2>1. s \in Submissions /\ rows[s] # None /\ c \in Contents
    BY <1>2, <1>op DEF ReapplyEvaluated, OpOK
  <2>2. rows[s] \in Row
    BY <2>1 DEF TypeAndOps, TypeOK
  <2>3. r \in Row
    BY <2>1, <2>2, <1>v, RowUpdates
  <2>4. rows' = [rows EXCEPT ![s] = r]
    BY <1>2, <2>1 DEF ReapplyEvaluated, TypeAndOps, TypeOK
  <2> HIDE DEF r
  <2>5. Stable /\ rows' \in [Submissions -> Row \union {None}]
    BY <1>2, <2>1, <2>3, <2>4, RowStep DEF ReapplyEvaluated
  <2>6. x \in Op /\ OpOK(x, rows', exceptions', audit')
    BY <1>op, <2>1 DEF Op, OpOK
  <2>7. ops' = [ops EXCEPT ![o] = x]
    BY <1>2 DEF ReapplyEvaluated, TypeAndOps, TypeOK
  <2> HIDE DEF x
  <2>8. OpsOK' /\ ops' \in [Ops -> Op]
    BY <2>5, <2>6, <2>7, OpsStep DEF TypeAndOps, TypeOK
  <2> QED
    BY <1>2, <2>5, <2>8 DEF ReapplyEvaluated, TypeAndOps, TypeOK
<1>3. ASSUME Audit(o)
      PROVE  TypeAndOps' /\ Stable
  <2>1. Stable
    BY <1>3 DEF Audit, Stable
  <2>2. audit' \subseteq (Submissions \union Exceptions) \X
           {"approval", "rejection", "change", "start", "stop", "refused"}
    BY <1>3, <1>op DEF Audit, OpOK, AuditType, TypeAndOps, TypeOK
  <2>3. OpsOK' /\ ops' \in [Ops -> Op]
    <3>1. CASE ops[o].to = "approved"
      <4>1. <<s, "approval">> \in audit'
        BY <1>3, <3>1 DEF Audit, AuditType
      <4>2. OpOK([ops[o] EXCEPT !.pc = "hook"], rows', exceptions', audit')
        BY <1>3, <1>op, <4>1 DEF Audit, Op, OpOK
      <4> QED
        BY <1>3, <2>1, <3>1, <4>2, GoOnStep DEF Audit
    <3>2. CASE ops[o].to # "approved"
      BY <1>3, <2>1, <3>2, EndStep DEF Audit
    <3> QED
      BY <3>1, <3>2
  <2> QED
    BY <1>3, <2>1, <2>2, <2>3 DEF Audit, TypeAndOps, TypeOK
<1>4. ASSUME AuditFails(o)
      PROVE  TypeAndOps' /\ Stable
  <2>1. Stable
    BY <1>4 DEF AuditFails, Stable
  <2>2. audit' \subseteq (Submissions \union Exceptions) \X
           {"approval", "rejection", "change", "start", "stop", "refused"}
    BY <1>4, <1>op DEF AuditFails, OpOK, Audited, TypeAndOps, TypeOK
  <2>3. OpsOK' /\ ops' \in [Ops -> Op]
    BY <1>4, <2>1, EndStep DEF AuditFails
  <2> QED
    BY <1>4, <2>1, <2>2, <2>3 DEF AuditFails, TypeAndOps, TypeOK
<1>5. ASSUME OnApproved(o)
      PROVE  TypeAndOps' /\ Stable
  <2>1. Stable
    BY <1>5 DEF OnApproved, Stable
  <2>2. OpsOK' /\ ops' \in [Ops -> Op]
    BY <1>5, <2>1, EndStep DEF OnApproved
  <2> QED
    BY <1>5, <1>op, <2>1, <2>2 DEF OnApproved, OpOK, TypeAndOps, TypeOK
<1>6. ASSUME MarkOverridden(o)
      PROVE  TypeAndOps' /\ Stable
  <2> DEFINE e == ops[o].e
             r == [rows[s] EXCEPT !.status = "override", !.exception = e]
  <2>1. s \in Submissions /\ e \in Exceptions
    BY <1>6, <1>op DEF MarkOverridden, OpOK
  <2>2. Stable /\ rows' \in [Submissions -> Row \union {None}]
    <3>1. CASE rows[s] = None
      BY <1>6, <3>1 DEF MarkOverridden, Stable, TypeAndOps, TypeOK
    <3>2. CASE rows[s] # None
      <4>1. r \in Row
        BY <2>1, <3>2, RowUpdates DEF TypeAndOps, TypeOK, Status
      <4>2. rows' = [rows EXCEPT ![s] = r]
        BY <1>6, <2>1, <3>2 DEF MarkOverridden, TypeAndOps, TypeOK
      <4> HIDE DEF r
      <4> QED
        BY <1>6, <2>1, <4>1, <4>2, RowStep DEF MarkOverridden
    <3> QED
      BY <3>1, <3>2
  <2>3. OpOK([ops[o] EXCEPT !.pc = "auditException"], rows', exceptions', audit')
    BY <1>6, <1>op DEF MarkOverridden, Op, OpOK
  <2>4. OpsOK' /\ ops' \in [Ops -> Op]
    BY <1>6, <2>2, <2>3, GoOnStep DEF MarkOverridden
  <2> QED
    BY <1>6, <2>2, <2>4 DEF MarkOverridden, TypeAndOps, TypeOK
<1>7. ASSUME AuditException(o)
      PROVE  TypeAndOps' /\ Stable
  <2> DEFINE e == ops[o].e
  <2>1. Stable
    BY <1>7 DEF AuditException, Stable
  <2>2. e \in Exceptions /\ ops[o].to \in {"override", "approved", "rejected"}
    BY <1>7, <1>op DEF AuditException, OpOK
  <2>3. /\ audit' \subseteq (Submissions \union Exceptions) \X
              {"approval", "rejection", "change", "start", "stop", "refused"}
        /\ ops[o].to = "approved" => <<e, "change">> \in audit'
        /\ ops[o].to = "rejected" => <<e, "stop">> \in audit'
    BY <1>7, <2>2 DEF AuditException, TypeAndOps, TypeOK
  <2>4. OpsOK' /\ ops' \in [Ops -> Op]
    <3>1. CASE ops[o].to = "override" \/ s = None
      BY <1>7, <2>1, <3>1, EndStep DEF AuditException
    <3>2. CASE ~(ops[o].to = "override" \/ s = None)
      <4>1. s \in Submissions
        BY <1>op, <3>2 DEF Op
      <4>2. OpOK([ops[o] EXCEPT !.pc = "cascade"], rows', exceptions', audit')
        BY <1>7, <1>op, <2>2, <2>3, <3>2, <4>1 DEF AuditException, Op, OpOK
      <4> QED
        BY <1>7, <2>1, <3>2, <4>2, GoOnStep DEF AuditException
    <3> QED
      BY <3>1, <3>2
  <2> QED
    BY <1>7, <2>1, <2>3, <2>4 DEF AuditException, TypeAndOps, TypeOK
<1>8. ASSUME Cascade(o)
      PROVE  TypeAndOps' /\ Stable
  <2> DEFINE r == [rows[s] EXCEPT !.status = ops[o].to]
  <2>1. s \in Submissions /\ ops[o].to \in Status
    BY <1>8, <1>op DEF Cascade, OpOK, Status
  <2>2. Stable /\ rows' \in [Submissions -> Row \union {None}]
    <3>1. CASE rows[s] = None
      BY <1>8, <3>1 DEF Cascade, Stable, TypeAndOps, TypeOK
    <3>2. CASE rows[s] # None
      <4>1. r \in Row
        BY <2>1, <3>2, RowUpdates DEF TypeAndOps, TypeOK
      <4>2. rows' = [rows EXCEPT ![s] = r]
        BY <1>8, <2>1, <3>2 DEF Cascade, TypeAndOps, TypeOK
      <4> HIDE DEF r
      <4> QED
        BY <1>8, <2>1, <4>1, <4>2, RowStep DEF Cascade
    <3> QED
      BY <3>1, <3>2
  <2>3. OpsOK' /\ ops' \in [Ops -> Op]
    BY <1>8, <2>2, EndStep DEF Cascade
  <2> QED
    BY <1>8, <2>2, <2>3 DEF Cascade, TypeAndOps, TypeOK
<1> QED
  BY <1>1, <1>2, <1>3, <1>4, <1>5, <1>6, <1>7, <1>8 DEF OpStep

LEMMA NextStep == TypeAndOps /\ [Next]_vars => TypeAndOps' /\ Stable
<1> SUFFICES ASSUME TypeAndOps, [Next]_vars PROVE TypeAndOps' /\ Stable
  OBVIOUS
<1>1. CASE Next
  BY <1>1, RequestStep, ContinueStep DEF Next
<1>2. CASE UNCHANGED vars
  BY <1>2 DEF vars, TypeAndOps, TypeOK, OpsOK, OpOK, Stable
<1> QED
  BY <1>1, <1>2

\* Every row, exception request and request in flight of workflow.ts keeps its
\* shape: the status of a row is one of the documented ones, and audit entries
\* are about submissions or exception requests, however requests overlap.
THEOREM TypeCorrect == Spec => []TypeOK
<1>1. Spec => []TypeAndOps
  BY InitTypeAndOps, NextStep, PTL DEF Spec
<1>2. TypeAndOps => TypeOK
  BY DEF TypeAndOps
<1> QED
  BY <1>1, <1>2, PTL

-----------------------------------------------------------------------------
(* What a step does to a row, and the invariants that follow from it *)

\* The evaluator's verdict on the text the row has now was stored with it.
Evaluated(s) ==
    /\ rows'[s].check = rows'[s].content
    /\ rows'[s].status = Verdict(rows'[s].content)
    /\ \/ rows'[s].exception = None
       \/ rows[s] # None /\ rows'[s].exception = rows[s].exception

SameText(s) ==
    /\ rows[s] # None
    /\ rows'[s].content = rows[s].content /\ rows'[s].check = rows[s].check

\* An approver decided; the request goes on to its audit entry.
Decided(s) ==
    /\ SameText(s) /\ rows'[s].exception = rows[s].exception
    /\ rows'[s].status \in {"approved", "rejected", "deployed", "override"}
    /\ rows'[s].status = "rejected" => rows'[s].reason
    /\ \E o \in Ops : /\ ops'[o].pc = "audit" /\ ops'[o].s = s
                      /\ ops'[o].to = rows'[s].status

\* An exception request about it was submitted.
Marked(s) ==
    /\ SameText(s) /\ rows'[s].status = "override"
    /\ rows'[s].exception \in Exceptions
    /\ exceptions'[rows'[s].exception] # None
    /\ exceptions'[rows'[s].exception].original = s

\* An audited decision on an exception request reached it.
Cascaded(s) ==
    /\ SameText(s) /\ rows'[s].exception = rows[s].exception
    /\ rows'[s].reason = rows[s].reason
    /\ \E e \in Exceptions :
          /\ exceptions'[e] # None /\ exceptions'[e].original = s
          /\ \/ rows'[s].status = "approved" /\ <<e, "change">> \in audit'
             \/ rows'[s].status = "rejected" /\ <<e, "stop">> \in audit'

RowEffect(s) ==
    rows'[s] = rows[s] \/ Evaluated(s) \/ Decided(s) \/ Marked(s) \/ Cascaded(s)

\* The decision paths: one row update, and a request that awaits the logger.
LEMMA DecisionEffect ==
    ASSUME TypeAndOps, NEW o \in Ops, NEW s \in Submissions, NEW r \in Row,
           NEW to \in {"approved", "rejected", "deployed", "override"},
           rows[s] # None, rows' = [rows EXCEPT ![s] = r],
           r.status = to, to = "rejected" => r.reason, r.exception = rows[s].exception,
           r.content = rows[s].content, r.check = rows[s].check,
           Begin(o, [Idle EXCEPT !.pc = "audit", !.s = s, !.to = to])
    PROVE  \A t \in Submissions : RowEffect(t)
<1>1. rows'[s] = r
  BY DEF TypeAndOps, TypeOK
<1>2. ops'[o].pc = "audit" /\ ops'[o].s = s /\ ops'[o].to = to
  BY DEF Begin, Idle, TypeAndOps, TypeOK
<1>3. Decided(s)
  BY <1>1, <1>2 DEF Decided, SameText
<1>4. \A t \in Submissions : t # s => rows'[t] = rows[t]
  BY DEF TypeAndOps, TypeOK
<1> QED
  BY <1>3, <1>4 DEF RowEffect

LEMMA RequestEffect ==
    ASSUME TypeAndOps, NEW o \in Ops, Request(o), NEW t \in Submissions
    PROVE  RowEffect(t)
<1> USE ApprovalWorkflowAssumption, NoRowAssumption DEF ApprovalWorkflowAssumption
<1>1. ASSUME NEW s \in Submissions, NEW c \in Contents, Submit(o, s, c) \/ Reapply(o, s, c)
      PROVE  RowEffect(t)
  BY <1>1 DEF Submit, Reapply, RowEffect
<1>2. ASSUME NEW s \in Submissions, NEW a \in Approvers, RecordApprove(o, s, a)
      PROVE  RowEffect(t)
  <2> DEFINE r == [rows[s] EXCEPT !.status = "approved", !.approver = a]
  <2>1. rows[s] \in Row
    BY <1>2 DEF RecordApprove, TypeAndOps, TypeOK
  <2>2. r \in Row
    BY <2>1, RowUpdates DEF Status
  <2>3. /\ r.status = "approved" /\ r.exception = rows[s].exception
        /\ r.content = rows[s].content /\ r.check = rows[s].check
    BY <2>1 DEF Row
  <2>4. rows' = [rows EXCEPT ![s] = r]
    BY <1>2 DEF RecordApprove, TypeAndOps, TypeOK
  <2> HIDE DEF r
  <2> QED
    BY <1>2, <2>2, <2>3, <2>4, DecisionEffect DEF RecordApprove
<1>3. ASSUME NEW s \in Submissions, NEW a \in Approvers, RecordReject(o, s, a)
      PROVE  RowEffect(t)
  <2> DEFINE r == [rows[s] EXCEPT !.status = "rejected", !.approver = a, !.reason = TRUE]
  <2>1. rows[s] \in Row
    BY <1>3 DEF RecordReject, TypeAndOps, TypeOK
  <2>2. r \in Row
    BY <2>1, RowUpdates DEF Status
  <2>3. /\ r.status = "rejected" /\ r.exception = rows[s].exception /\ r.reason
        /\ r.content = rows[s].content /\ r.check = rows[s].check
    BY <2>1 DEF Row
  <2>4. rows' = [rows EXCEPT ![s] = r]
    BY <1>3 DEF RecordReject, TypeAndOps, TypeOK
  <2> HIDE DEF r
  <2> QED
    BY <1>3, <2>2, <2>3, <2>4, DecisionEffect DEF RecordReject
<1>4. ASSUME NEW s \in Submissions, NEW a \in Approvers,
             NEW action \in DOMAIN DecisionStatus, Decide(o, s, action, a)
      PROVE  RowEffect(t)
  <2> DEFINE to == DecisionStatus[action]
             r == [rows[s] EXCEPT !.status = to, !.reason = (action = "reject"),
                                  !.approver = a]
  <2>1. rows[s] \in Row
    BY <1>4 DEF Decide, TypeAndOps, TypeOK
  <2>2. /\ to \in {"approved", "rejected", "deployed", "override"}
        /\ to = "rejected" => action = "reject"
    BY DEF DecisionStatus
  <2>3. rows' = [rows EXCEPT ![s] = r] /\ rows[s] # None
        /\ Begin(o, [Idle EXCEPT !.pc = "audit", !.s = s, !.to = to])
    BY <1>4 DEF Decide, TypeAndOps, TypeOK
  <2>st. to \in Status
    BY DEF DecisionStatus, Status
  <2> HIDE DEF to
  <2>4. r \in Row
    BY <2>1, <2>st, RowUpdates
  <2>5. /\ r.status = to /\ r.exception = rows[s].exception
        /\ (to = "rejected" => r.reason)
        /\ r.content = rows[s].content /\ r.check = rows[s].check
    BY <2>1, <2>2 DEF Row
  <2> HIDE DEF r
  <2> QED
    BY <2>2, <2>3, <2>4, <2>5, DecisionEffect
<1>5. ASSUME NEW e \in Exceptions, NEW s \in Submissions \union {None},
             SubmitException(o, e, s)
      PROVE  RowEffect(t)
  BY <1>5 DEF SubmitException, RowEffect
<1>6. ASSUME NEW e \in Exceptions, NEW decision \in {"approved", "rejected"},
             DecideException(o, e, decision)
      PROVE  RowEffect(t)
  BY <1>6 DEF DecideException, RowEffect
<1> QED
  BY <1>1, <1>2, <1>3, <1>4, <1>5, <1>6 DEF Request

LEMMA OpEffect ==
    ASSUME TypeAndOps, NEW o \in Ops, OpStep(o), NEW t \in Submissions
    PROVE  RowEffect(t)
<1> USE ApprovalWorkflowAssumption, NoRowAssumption DEF ApprovalWorkflowAssumption
<1> DEFINE s == ops[o].s
<1>op. ops[o] \in Op /\ OpOK(ops[o], rows, exceptions, audit)
  BY DEF TypeAndOps, TypeOK, OpsOK
<1>1. ASSUME NEW a \in Approvers \union {None}, SubmitEvaluated(o, a)
      PROVE  RowEffect(t)
  <2>1. s \in Submissions
    BY <1>1, <1>op DEF SubmitEvaluated, OpOK
  <2>2. CASE t = s
    BY <1>1, <2>1, <2>2 DEF SubmitEvaluated, RowEffect, Evaluated, TypeAndOps, TypeOK
  <2>3. CASE t # s
    BY <1>1, <2>3 DEF SubmitEvaluated, RowEffect, TypeAndOps, TypeOK
  <2> QED
    BY <2>2, <2>3
<1>2. ASSUME ReapplyEvaluated(o)
      PROVE  RowEffect(t)
  <2>1. s \in Submissions /\ rows[s] # None
    BY <1>2, <1>op DEF ReapplyEvaluated, OpOK
  <2>2. rows[s] \in Row
    BY <2>1 DEF TypeAndOps, TypeOK
  <2>3. CASE t = s
    <3> DEFINE c == ops[o].content
    <3>1. rows'[s] = [rows[s] EXCEPT !.content = c, !.check = c, !.status = Verdict(c)]
      BY <1>2, <2>1 DEF ReapplyEvaluated, TypeAndOps, TypeOK
    <3>2. /\ rows'[s].content = c /\ rows'[s].check = c /\ rows'[s].status = Verdict(c)
          /\ rows'[s].exception = rows[s].exception
      BY <2>2, <3>1 DEF Row
    <3> QED
      BY <2>1, <2>3, <3>2 DEF RowEffect, Evaluated
  <2>4. CASE t # s
    BY <1>2, <2>4 DEF ReapplyEvaluated, RowEffect, TypeAndOps, TypeOK
  <2> QED
    BY <2>3, <2>4
<1>3. ASSUME Audit(o) \/ AuditFails(o) \/ OnApproved(o) \/ AuditException(o)
      PROVE  RowEffect(t)
  BY <1>3 DEF Audit, AuditFails, OnApproved, AuditException, RowEffect
<1>4. ASSUME MarkOverridden(o)
      PROVE  RowEffect(t)
  <2>1. /\ s \in Submissions /\ ops[o].e \in Exceptions
        /\ exceptions[ops[o].e] # None /\ exceptions[ops[o].e].original = s
    BY <1>4, <1>op DEF MarkOverridden, OpOK
  <2>2. CASE t = s /\ rows[s] # None
    <3>1. rows[s] \in Row
      BY <2>1, <2>2 DEF TypeAndOps, TypeOK
    <3>2. rows'[s] = [rows[s] EXCEPT !.status = "override", !.exception = ops[o].e]
      BY <1>4, <2>1, <2>2 DEF MarkOverridden, TypeAndOps, TypeOK
    <3>3. /\ rows'[s].content = rows[s].content /\ rows'[s].check = rows[s].check
          /\ rows'[s].status = "override" /\ rows'[s].exception = ops[o].e
      BY <3>1, <3>2 DEF Row
    <3>4. exceptions' = exceptions
      BY <1>4 DEF MarkOverridden
    <3> QED
      BY <2>1, <2>2, <3>3, <3>4 DEF RowEffect, Marked, SameText
  <2>3. CASE t # s \/ rows[s] = None
    BY <1>4, <2>3 DEF MarkOverridden, RowEffect, TypeAndOps, TypeOK
  <2> QED
    BY <2>2, <2>3
<1>5. ASSUME Cascade(o)
      PROVE  RowEffect(t)
  <2> DEFINE e == ops[o].e
  <2>1. /\ s \in Submissions /\ e \in Exceptions
        /\ exceptions[e] # None /\ exceptions[e].original = s
        /\ \/ ops[o].to = "approved" /\ <<e, "change">> \in audit
           \/ ops[o].to = "rejected" /\ <<e, "stop">> \in audit
    BY <1>5, <1>op DEF Cascade, OpOK
  <2>2. CASE t = s /\ rows[s] # None
    <3>1. rows[s] \in Row
      BY <2>1, <2>2 DEF TypeAndOps, TypeOK
    <3>2. rows'[s] = [rows[s] EXCEPT !.status = ops[o].to]
      BY <1>5, <2>1, <2>2 DEF Cascade, TypeAndOps, TypeOK
    <3>3. /\ rows'[s].content = rows[s].content /\ rows'[s].check = rows[s].check
          /\ rows'[s].status = ops[o].to /\ rows'[s].exception = rows[s].exception
          /\ rows'[s].reason = rows[s].reason
      BY <3>1, <3>2 DEF Row
    <3>4. exceptions' = exceptions /\ audit' = audit
      BY <1>5 DEF Cascade
    <3> QED
      BY <2>1, <2>2, <3>3, <3>4 DEF RowEffect, Cascaded, SameText
  <2>3. CASE t # s \/ rows[s] = None
    BY <1>5, <2>3 DEF Cascade, RowEffect, TypeAndOps, TypeOK
  <2> QED
    BY <2>2, <2>3
<1> QED
  BY <1>1, <1>2, <1>3, <1>4, <1>5 DEF OpStep

LEMMA StepEffect ==
    ASSUME TypeAndOps, [Next]_vars
    PROVE  \A s \in Submissions : RowEffect(s)
BY RequestEffect, OpEffect DEF Next, vars, RowEffect

\* The decision entry of a request is in the audit log once it awaits no more.
LEMMA AuditEffect ==
    ASSUME TypeAndOps, [Next]_vars, NEW o \in Ops, ops[o].pc = "audit"
    PROVE  \/ ops'[o] = ops[o]
           \/ <<ops[o].s, AuditType(ops[o].to)>> \in audit'
           \/ <<ops[o].s, "refused">> \in audit'
<1>1. ASSUME NEW p \in Ops, p # o, Request(p) \/ OpStep(p)
      PROVE  ops'[o] = ops[o]
  BY <1>1 DEF Request, OpStep, Submit, Reapply, Decide, RecordApprove, RecordReject,
     SubmitException, DecideException, Begin, SubmitEvaluated, ReapplyEvaluated, Audit,
     AuditFails, OnApproved, MarkOverridden, AuditException, Cascade, Continue, End,
     TypeAndOps, TypeOK
<1>2. ~Request(o)
  <2>1. ops[o] # Idle
    BY DEF Idle
  <2> QED
    BY <2>1 DEF Request, Submit, Reapply, Decide, RecordApprove, RecordReject,
       SubmitException, DecideException, Begin
<1>3. ASSUME OpStep(o)
      PROVE  \/ <<ops[o].s, AuditType(ops[o].to)>> \in audit'
             \/ <<ops[o].s, "refused">> \in audit'
  BY <1>3 DEF OpStep, SubmitEvaluated, ReapplyEvaluated, Audit, AuditFails, Audited,
     OnApproved, MarkOverridden, AuditException, Cascade
<1> QED
  BY <1>1, <1>2, <1>3 DEF Next, vars

\* Every decision a row shows has its entry in the audit log, or a request on
\* its way to write it.
ToBeAudited(s, statuses) ==
    \E o \in Ops : ops[o].pc = "audit" /\ ops[o].s = s /\ ops[o].to \in statuses

DecisionsExplained ==
    \A s \in Submissions : Exists(s) =>
        /\ rows[s].status \in {"approved", "deployed"} =>
              Explained(s, "approval", "change") \/ ToBeAudited(s, {"approved", "deployed"})
        /\ rows[s].status = "rejected" =>
              Explained(s, "rejection", "stop") \/ ToBeAudited(s, {"rejected"})

Inv == /\ TypeAndOps
       /\ CheckMatchesContent /\ RejectedHasReason /\ ExceptionIsAboutIt
       /\ HandedWasAudited /\ DecisionsExplained

LEMMA InitInv == Init => Inv
BY InitTypeAndOps
DEF Init, Inv, Exists, CheckMatchesContent, RejectedHasReason, ExceptionIsAboutIt,
    HandedWasAudited, DecisionsExplained

LEMMA HandedStep ==
    ASSUME TypeAndOps, Stable, HandedWasAudited, [Next]_vars
    PROVE  HandedWasAudited'
<1>1. ASSUME NEW o \in Ops, OnApproved(o)
      PROVE  HandedWasAudited'
  <2>1. <<ops[o].s, "approval">> \in audit
    BY <1>1 DEF OnApproved, TypeAndOps, OpsOK, OpOK
  <2> QED
    BY <1>1, <2>1 DEF OnApproved, HandedWasAudited
<1>2. ASSUME UNCHANGED handed
      PROVE  HandedWasAudited'
  BY <1>2 DEF HandedWasAudited, Stable
<1>3. ASSUME NEW o \in Ops, OpStep(o) \/ Request(o), ~OnApproved(o)
      PROVE  UNCHANGED handed
  BY <1>3 DEF Request, OpStep, Submit, Reapply, Decide, RecordApprove, RecordReject,
     SubmitException, DecideException, SubmitEvaluated, ReapplyEvaluated, Audit,
     AuditFails, MarkOverridden, AuditException, Cascade
<1> QED
  BY <1>1, <1>2, <1>3 DEF Next, vars

LEMMA CheckStep ==
    ASSUME CheckMatchesContent, NEW s \in Submissions, RowEffect(s), rows'[s] # None
    PROVE  /\ rows'[s].check = rows'[s].content
           /\ rows'[s].status \in {"lint_running", "under_review"}
                 => rows'[s].status = Verdict(rows'[s].content)
BY DEF CheckMatchesContent, Exists, RowEffect, Evaluated, Decided, Marked, Cascaded, SameText

LEMMA ReasonStep ==
    ASSUME TypeAndOps, Stable, RejectedHasReason, NEW s \in Submissions, RowEffect(s),
           rows'[s] # None, rows'[s].status = "rejected", ~rows'[s].reason
    PROVE  \E e \in Exceptions : /\ <<e, "stop">> \in audit'
                                 /\ exceptions'[e] # None /\ exceptions'[e].original = s
<1>1. CASE rows'[s] = rows[s]
  BY <1>1 DEF RejectedHasReason, Exists, Stable
<1>2. CASE Evaluated(s)
  BY <1>2 DEF Evaluated, Verdict
<1>3. CASE Decided(s)
  BY <1>3 DEF Decided
<1>4. CASE Marked(s)
  BY <1>4 DEF Marked
<1>5. CASE Cascaded(s)
  BY <1>5 DEF Cascaded
<1> QED
  BY <1>1, <1>2, <1>3, <1>4, <1>5 DEF RowEffect

LEMMA ExceptionStep ==
    ASSUME TypeAndOps, Stable, ExceptionIsAboutIt, NEW s \in Submissions, RowEffect(s),
           rows'[s] # None, rows'[s].exception # None
    PROVE  /\ exceptions'[rows'[s].exception] # None
           /\ exceptions'[rows'[s].exception].original = s
<1>1. CASE Marked(s)
  BY <1>1 DEF Marked
<1>2. CASE rows[s] # None /\ rows'[s].exception = rows[s].exception
  <2>1. rows[s].exception \in Exceptions
    BY <1>2 DEF TypeAndOps, TypeOK, Row
  <2> QED
    BY <1>2, <2>1 DEF ExceptionIsAboutIt, Exists, Stable
<1> QED
  BY <1>1, <1>2 DEF RowEffect, Evaluated, Decided, Cascaded, SameText

\* What explains a status stays, and what is pending becomes an explanation.
LEMMA ExplanationStays ==
    ASSUME Stable, NEW s \in Submissions, NEW own, NEW of, Explained(s, own, of)
    PROVE  Explained(s, own, of)'
BY DEF Explained, Stable

LEMMA ToBeAuditedStep ==
    ASSUME TypeAndOps, [Next]_vars, NEW s \in Submissions, NEW own, NEW of, NEW statuses,
           \A to \in statuses : AuditType(to) = own, ToBeAudited(s, statuses)
    PROVE  Explained(s, own, of)' \/ ToBeAudited(s, statuses)'
<1> PICK o \in Ops : ops[o].pc = "audit" /\ ops[o].s = s /\ ops[o].to \in statuses
  BY DEF ToBeAudited
<1> QED
  BY AuditEffect DEF Explained, ToBeAudited

LEMMA ExplainedStep ==
    ASSUME TypeAndOps, Stable, DecisionsExplained, [Next]_vars,
           NEW s \in Submissions, RowEffect(s), rows'[s] # None
    PROVE  /\ rows'[s].status \in {"approved", "deployed"} =>
                 \/ Explained(s, "approval", "change")'
                 \/ ToBeAudited(s, {"approved", "deployed"})'
           /\ rows'[s].status = "rejected" =>
                 Explained(s, "rejection", "stop")' \/ ToBeAudited(s, {"rejected"})'
<1>1. CASE rows'[s] = rows[s]
  <2>1. /\ \A to \in {"approved", "deployed"} : AuditType(to) = "approval"
        /\ \A to \in {"rejected"} : AuditType(to) = "rejection"
    BY DEF AuditType
  <2> QED
    BY <1>1, <2>1, ExplanationStays, ToBeAuditedStep DEF DecisionsExplained, Exists
<1>2. CASE Evaluated(s)
  BY <1>2 DEF Evaluated, Verdict
<1>3. CASE Decided(s)
  BY <1>3 DEF Decided, ToBeAudited
<1>4. CASE Marked(s)
  BY <1>4 DEF Marked
<1>5. CASE Cascaded(s)
  BY <1>5 DEF Cascaded, Explained
<1> QED
  BY <1>1, <1>2, <1>3, <1>4, <1>5 DEF RowEffect

LEMMA InvStep == Inv /\ [Next]_vars => Inv'
<1> SUFFICES ASSUME Inv, [Next]_vars PROVE Inv'
  OBVIOUS
<1>1. TypeAndOps' /\ Stable
  BY NextStep DEF Inv
<1>2. \A s \in Submissions : RowEffect(s)
  BY StepEffect DEF Inv
<1>3. CheckMatchesContent'
  BY <1>2, CheckStep DEF Inv, CheckMatchesContent, Exists
<1>4. RejectedHasReason'
  BY <1>1, <1>2, ReasonStep DEF Inv, RejectedHasReason, Exists
<1>5. ExceptionIsAboutIt'
  BY <1>1, <1>2, ExceptionStep DEF Inv, ExceptionIsAboutIt, Exists
<1>6. HandedWasAudited'
  BY <1>1, HandedStep DEF Inv
<1>7. DecisionsExplained'
  BY <1>1, <1>2, ExplainedStep DEF Inv, DecisionsExplained, Exists
<1> QED
  BY <1>1, <1>3, <1>4, <1>5, <1>6, <1>7 DEF Inv

LEMMA Invariance == Spec => []Inv
BY InitInv, InvStep, PTL DEF Spec

\* The stored check of a submission is about its stored text, and a submission
\* that waits does so because of that check, however many reapplies overlap.
THEOREM CheckAlwaysMatches == Spec => []CheckMatchesContent
<1>1. Inv => CheckMatchesContent
  BY DEF Inv
<1> QED
  BY <1>1, Invariance, PTL

\* No submission is rejected without a reason code, except through an exception
\* request whose rejection is in the audit log.
THEOREM RejectionsHaveReasons == Spec => []RejectedHasReason
<1>1. Inv => RejectedHasReason
  BY DEF Inv
<1> QED
  BY <1>1, Invariance, PTL

\* The exception request a submission points to exists and is about it.
THEOREM ExceptionsAreAboutTheirRows == Spec => []ExceptionIsAboutIt
<1>1. Inv => ExceptionIsAboutIt
  BY DEF Inv
<1> QED
  BY <1>1, Invariance, PTL

\* Nothing reaches the deploy gate whose approval is not in the audit log.
THEOREM HandedAfterAudit == Spec => []HandedWasAudited
<1>1. Inv => HandedWasAudited
  BY DEF Inv
<1> QED
  BY <1>1, Invariance, PTL

\* Once no request on a submission is in flight, the decision it shows is in
\* the audit log, or the logger refused an entry about it.
THEOREM AuditIsComplete == Spec => []DecisionsAreAudited
<1>1. Inv => DecisionsAreAudited
  BY DEF Inv, DecisionsExplained, DecisionsAreAudited, ToBeAudited
<1> QED
  BY <1>1, Invariance, PTL
-----------------------------------------------------------------------------
(* The escalation job beside the requests *)

\* A submission that is being evaluated for the first time has no row yet.
NewAreAbsent ==
    \A o \in Ops : ops[o].pc = "evaluateNew" =>
        /\ rows[ops[o].s] = None
        /\ \A p \in Ops : ops[p].pc = "evaluateNew" /\ ops[p].s = ops[o].s => p = o

\* What is overdue and what a run has listed is there and stays there.
ListedExist ==
    /\ \A s \in overdue : rows[s] # None
    /\ \A j \in Jobs :
          /\ \A l \in jobs[j].todo : rows[l.s] # None
          /\ jobs[j].pc = "idle" => jobs[j].todo = {}
          /\ jobs[j].pc # "idle" => jobs[j].current \in Listed /\ rows[jobs[j].current.s] # None

InvE == Inv /\ TypeOKE /\ NewAreAbsent /\ ListedExist

\* No request takes the mark of an escalation away, or sets it.
MarksStay ==
    \A s \in Submissions : rows[s] # None =>
        rows'[s] # None /\ rows'[s].escalated = rows[s].escalated

LEMMA OneRowKeepsMark ==
    ASSUME TypeOK, NEW s \in Submissions, NEW r \in Row, r.escalated = rows[s].escalated,
           rows' = [rows EXCEPT ![s] = r]
    PROVE  MarksStay
BY NoRowAssumption DEF TypeOK, MarksStay

LEMMA RequestKeepsMarks ==
    ASSUME TypeAndOps, NEW o \in Ops, Request(o)
    PROVE  MarksStay
<1> USE ApprovalWorkflowAssumption, NoRowAssumption DEF ApprovalWorkflowAssumption
<1>0. ASSUME UNCHANGED rows PROVE MarksStay
  BY <1>0 DEF MarksStay
<1>1. ASSUME NEW s \in Submissions, NEW c \in Contents, Submit(o, s, c) \/ Reapply(o, s, c)
      PROVE  MarksStay
  BY <1>0, <1>1 DEF Submit, Reapply
<1>2. ASSUME NEW s \in Submissions, NEW a \in Approvers, RecordApprove(o, s, a)
      PROVE  MarksStay
  <2> DEFINE r == [rows[s] EXCEPT !.status = "approved", !.approver = a]
  <2>1. rows[s] \in Row
    BY <1>2 DEF RecordApprove, TypeAndOps, TypeOK
  <2>2. r \in Row
    BY <2>1, RowUpdates DEF Status
  <2>2k. r.escalated = rows[s].escalated
    BY <2>1 DEF Row
  <2>3. rows' = [rows EXCEPT ![s] = r]
    BY <1>2 DEF RecordApprove, TypeAndOps, TypeOK
  <2> HIDE DEF r
  <2> QED
    BY <2>2, <2>2k, <2>3, OneRowKeepsMark DEF TypeAndOps
<1>3. ASSUME NEW s \in Submissions, NEW a \in Approvers, RecordReject(o, s, a)
      PROVE  MarksStay
  <2> DEFINE r == [rows[s] EXCEPT !.status = "rejected", !.approver = a, !.reason = TRUE]
  <2>1. rows[s] \in Row
    BY <1>3 DEF RecordReject, TypeAndOps, TypeOK
  <2>2. r \in Row
    BY <2>1, RowUpdates DEF Status
  <2>2k. r.escalated = rows[s].escalated
    BY <2>1 DEF Row
  <2>3. rows' = [rows EXCEPT ![s] = r]
    BY <1>3 DEF RecordReject, TypeAndOps, TypeOK
  <2> HIDE DEF r
  <2> QED
    BY <2>2, <2>2k, <2>3, OneRowKeepsMark DEF TypeAndOps
<1>4. ASSUME NEW s \in Submissions, NEW a \in Approvers,
             NEW action \in DOMAIN DecisionStatus, Decide(o, s, action, a)
      PROVE  MarksStay
  <2> DEFINE to == DecisionStatus[action]
             r == [rows[s] EXCEPT !.status = to, !.reason = (action = "reject"),
                                  !.approver = a]
  <2>1. rows[s] \in Row
    BY <1>4 DEF Decide, TypeAndOps, TypeOK
  <2>2. to \in Status
    BY DEF DecisionStatus, Status
  <2>3. rows' = [rows EXCEPT ![s] = r]
    BY <1>4 DEF Decide, TypeAndOps, TypeOK
  <2> HIDE DEF to
  <2>4. r \in Row
    BY <2>1, <2>2, RowUpdates
  <2>4k. r.escalated = rows[s].escalated
    BY <2>1 DEF Row
  <2> HIDE DEF r
  <2> QED
    BY <2>3, <2>4, <2>4k, OneRowKeepsMark DEF TypeAndOps
<1>5. ASSUME NEW e \in Exceptions, NEW s \in Submissions \union {None},
             SubmitException(o, e, s)
      PROVE  MarksStay
  BY <1>0, <1>5 DEF SubmitException
<1>6. ASSUME NEW e \in Exceptions, NEW decision \in {"approved", "rejected"},
             DecideException(o, e, decision)
      PROVE  MarksStay
  BY <1>0, <1>6 DEF DecideException
<1> QED
  BY <1>1, <1>2, <1>3, <1>4, <1>5, <1>6 DEF Request

LEMMA OpKeepsMarks ==
    ASSUME TypeAndOps, NewAreAbsent, NEW o \in Ops, OpStep(o)
    PROVE  MarksStay
<1> USE ApprovalWorkflowAssumption, NoRowAssumption DEF ApprovalWorkflowAssumption
<1> DEFINE s == ops[o].s
<1>op. ops[o] \in Op /\ OpOK(ops[o], rows, exceptions, audit)
  BY DEF TypeAndOps, TypeOK, OpsOK
<1>0. ASSUME UNCHANGED rows PROVE MarksStay
  BY <1>0 DEF MarksStay
<1>v. \A c : Verdict(c) \in Status
  BY DEF Verdict, Status
<1>1. ASSUME NEW a \in Approvers \union {None}, SubmitEvaluated(o, a)
      PROVE  MarksStay
  <2>1. rows[s] = None
    BY <1>1 DEF SubmitEvaluated, NewAreAbsent
  <2>2. \A t \in Submissions : t # s => rows'[t] = rows[t]
    BY <1>1 DEF SubmitEvaluated, TypeAndOps, TypeOK
  <2> QED
    BY <2>1, <2>2 DEF MarksStay
<1>2. CASE ReapplyEvaluated(o)
  <2> DEFINE c == ops[o].content
             r == [rows[s] EXCEPT !.content = c, !.check = c, !.status = Verdict(c)]
  <2>1. s \in Submissions /\ c \in Contents /\ rows[s] \in Row
    BY <1>2, <1>op DEF ReapplyEvaluated, OpOK, TypeAndOps, TypeOK
  <2>2. rows' = [rows EXCEPT ![s] = r]
    BY <1>2, <2>1 DEF ReapplyEvaluated, TypeAndOps, TypeOK
  <2> HIDE DEF c
  <2>3. r \in Row
    BY <2>1, <1>v, RowUpdates
  <2>3k. r.escalated = rows[s].escalated
    BY <2>1 DEF Row
  <2> HIDE DEF r, s
  <2> QED
    BY <2>1, <2>2, <2>3, <2>3k, OneRowKeepsMark DEF TypeAndOps
<1>3. CASE Audit(o) \/ AuditFails(o) \/ OnApproved(o) \/ AuditException(o)
  BY <1>0, <1>3 DEF Audit, AuditFails, OnApproved, AuditException
<1>4. CASE MarkOverridden(o)
  <2>1. CASE rows[s] = None
    BY <1>0, <1>4, <2>1 DEF MarkOverridden
  <2>2. CASE rows[s] # None
    <3> DEFINE r == [rows[s] EXCEPT !.status = "override", !.exception = ops[o].e]
    <3>1. s \in Submissions /\ ops[o].e \in Exceptions /\ rows[s] \in Row
      BY <1>4, <1>op, <2>2 DEF MarkOverridden, OpOK, TypeAndOps, TypeOK
    <3>2. rows' = [rows EXCEPT ![s] = r]
      BY <1>4, <2>2, <3>1 DEF MarkOverridden, TypeAndOps, TypeOK
    <3>3. r \in Row
      BY <3>1, RowUpdates DEF Status
    <3>3k. r.escalated = rows[s].escalated
      BY <3>1 DEF Row
    <3> HIDE DEF r, s
    <3> QED
      BY <3>1, <3>2, <3>3, <3>3k, OneRowKeepsMark DEF TypeAndOps
  <2> QED
    BY <2>1, <2>2
<1>5. CASE Cascade(o)
  <2>1. CASE rows[s] = None
    BY <1>0, <1>5, <2>1 DEF Cascade
  <2>2. CASE rows[s] # None
    <3> DEFINE r == [rows[s] EXCEPT !.status = ops[o].to]
    <3>1. s \in Submissions /\ ops[o].to \in Status /\ rows[s] \in Row
      BY <1>5, <1>op, <2>2 DEF Cascade, OpOK, Status, TypeAndOps, TypeOK
    <3>2. rows' = [rows EXCEPT ![s] = r]
      BY <1>5, <2>2, <3>1 DEF Cascade, TypeAndOps, TypeOK
    <3>3. r \in Row
      BY <3>1, RowUpdates
    <3>3k. r.escalated = rows[s].escalated
      BY <3>1 DEF Row
    <3> HIDE DEF r, s
    <3> QED
      BY <3>1, <3>2, <3>3, <3>3k, OneRowKeepsMark DEF TypeAndOps
  <2> QED
    BY <2>1, <2>2
<1> QED
  BY <1>1, <1>2, <1>3, <1>4, <1>5 DEF OpStep


LEMMA MarksStep == ASSUME TypeAndOps, NewAreAbsent, [Next]_vars PROVE MarksStay
<1>1. CASE UNCHANGED vars
  BY <1>1 DEF vars, MarksStay
<1> QED
  BY <1>1, RequestKeepsMarks, OpKeepsMarks DEF Next

\* A step that gives no submission a row and begins no first evaluation.
LEMMA NothingNew ==
    ASSUME NewAreAbsent, \A s \in Submissions : rows[s] = None => rows'[s] = None,
           \A p \in Ops : ops'[p].pc = "evaluateNew" => ops'[p] = ops[p] /\ ops[p].s \in Submissions
    PROVE  NewAreAbsent'
BY DEF NewAreAbsent

LEMMA OthersStay ==
    ASSUME TypeAndOps, NEW o \in Ops, NEW x, ops' = [ops EXCEPT ![o] = x]
    PROVE  ops'[o] = x /\ \A p \in Ops : p # o => ops'[p] = ops[p]
BY DEF TypeAndOps, TypeOK

LEMMA NewOnesAreAbout ==
    ASSUME TypeAndOps
    PROVE  \A p \in Ops : ops[p].pc = "evaluateNew" => ops[p].s \in Submissions
BY DEF TypeAndOps, OpsOK, OpOK

LEMMA NewAreAbsentStep ==
    ASSUME TypeAndOps, NewAreAbsent, [Next]_vars
    PROVE  NewAreAbsent'
<1> USE ApprovalWorkflowAssumption, NoRowAssumption DEF ApprovalWorkflowAssumption
<1>1. ASSUME NEW o \in Ops, NEW s \in Submissions, NEW c \in Contents, Submit(o, s, c)
      PROVE  NewAreAbsent'
  <2> DEFINE x == [Idle EXCEPT !.pc = "evaluateNew", !.s = s, !.content = c]
  <2>1. x.s = s
    BY DEF Idle
  <2>2. ops'[o] = x /\ \A p \in Ops : p # o => ops'[p] = ops[p]
    BY <1>1, OthersStay DEF Submit, Begin
  <2> HIDE DEF x
  <2>3. UNCHANGED rows /\ rows[s] = None /\ \A p \in Ops : ops[p].s # s
    BY <1>1 DEF Submit
  <2> QED
    BY <2>1, <2>2, <2>3 DEF NewAreAbsent
<1>2. ASSUME NEW o \in Ops, NEW a \in Approvers \union {None}, SubmitEvaluated(o, a)
      PROVE  NewAreAbsent'
  <2>1. ops'[o] = Idle /\ \A p \in Ops : p # o => ops'[p] = ops[p]
    BY <1>2, OthersStay DEF SubmitEvaluated, End
  <2>2. \A t \in Submissions : t # ops[o].s => rows'[t] = rows[t]
    BY <1>2 DEF SubmitEvaluated, TypeAndOps, TypeOK
  <2>3. ops[o].pc = "evaluateNew" /\ Idle.pc # "evaluateNew"
    BY <1>2 DEF SubmitEvaluated, Idle
  <2> QED
    BY <2>1, <2>2, <2>3, NewOnesAreAbout DEF NewAreAbsent
<1>3. ASSUME NEW o \in Ops, Request(o), \A s \in Submissions, c \in Contents : ~Submit(o, s, c)
      PROVE  NewAreAbsent'
  <2>1. \A s \in Submissions : rows[s] = None => rows'[s] = None
    <3>1. ASSUME NEW s \in Submissions, NEW c \in Approvers,
                 \/ RecordApprove(o, s, c) \/ RecordReject(o, s, c)
                 \/ \E action \in DOMAIN DecisionStatus : Decide(o, s, action, c)
          PROVE  \A t \in Submissions : rows[t] = None => rows'[t] = None
      BY <3>1 DEF RecordApprove, RecordReject, Decide, TypeAndOps, TypeOK
    <3>2. ASSUME NEW e \in Exceptions,
                 \/ \E s \in Submissions \union {None} : SubmitException(o, e, s)
                 \/ \E decision \in {"approved", "rejected"} : DecideException(o, e, decision)
          PROVE  UNCHANGED rows
      BY <3>2 DEF SubmitException, DecideException
    <3>3. ASSUME NEW s \in Submissions, NEW c \in Contents, Reapply(o, s, c)
          PROVE  UNCHANGED rows
      BY <3>3 DEF Reapply
    <3> QED
      BY <1>3, <3>1, <3>2, <3>3 DEF Request
  <2>2. \E x : x.pc # "evaluateNew" /\ ops' = [ops EXCEPT ![o] = x]
    BY <1>3 DEF Request, Reapply, Decide, RecordApprove, RecordReject, SubmitException,
       DecideException, Begin, Idle
  <2> QED
    BY <2>1, <2>2, OthersStay, NothingNew, NewOnesAreAbout
<1>4. ASSUME NEW o \in Ops, OpStep(o), \A a \in Approvers \union {None} : ~SubmitEvaluated(o, a)
      PROVE  NewAreAbsent'
  <2>op. OpOK(ops[o], rows, exceptions, audit)
    BY DEF TypeAndOps, OpsOK
  <2>1. \A s \in Submissions : rows[s] = None => rows'[s] = None
    BY <1>4, <2>op DEF OpStep, ReapplyEvaluated, Audit, AuditFails, OnApproved, MarkOverridden,
       AuditException, Cascade, OpOK, TypeAndOps, TypeOK
  <2>2. ops'[o].pc # "evaluateNew" /\ \A p \in Ops : p # o => ops'[p] = ops[p]
    BY <1>4 DEF OpStep, ReapplyEvaluated, Audit, AuditFails, OnApproved, MarkOverridden,
       AuditException, Cascade, Continue, End, Idle, Op, TypeAndOps, TypeOK
  <2> QED
    BY <2>1, <2>2, NothingNew, NewOnesAreAbout
<1>5. CASE UNCHANGED vars
  BY <1>5 DEF vars, NewAreAbsent
<1> QED
  BY <1>1, <1>2, <1>3, <1>4, <1>5 DEF Next, OpStep, Request


\* What the requests' invariants say of a row does not depend on who is to
\* approve it, nor on its mark.
LEMMA LooksTheSame ==
    ASSUME Inv, TypeAndOps', UNCHANGED <<exceptions, ops, handed>>, audit \subseteq audit',
           \A s \in Submissions : rows'[s] = None <=> rows[s] = None,
           \A s \in Submissions : rows[s] # None =>
               /\ rows'[s].status = rows[s].status /\ rows'[s].content = rows[s].content
               /\ rows'[s].check = rows[s].check /\ rows'[s].exception = rows[s].exception
               /\ rows[s].reason => rows'[s].reason
    PROVE  Inv'
<1>1. CheckMatchesContent'
  BY DEF Inv, CheckMatchesContent, Exists
<1>2. RejectedHasReason'
  BY DEF Inv, RejectedHasReason, Exists
<1>3. ExceptionIsAboutIt'
  BY DEF Inv, ExceptionIsAboutIt, Exists
<1>4. HandedWasAudited'
  BY DEF Inv, HandedWasAudited
<1>5. DecisionsExplained'
  <2>1. \A s \in Submissions : \A own, ids : Explained(s, own, ids) => Explained(s, own, ids)'
    BY DEF Explained
  <2>2. \A s \in Submissions : \A statuses : ToBeAudited(s, statuses) => ToBeAudited(s, statuses)'
    BY DEF ToBeAudited
  <2> QED
    BY <2>1, <2>2 DEF Inv, DecisionsExplained, Exists
<1> QED
  BY <1>1, <1>2, <1>3, <1>4, <1>5 DEF Inv

\* Jobs other than the one that steps stay; that one goes on with a listed
\* submission or ends.
GoesOn(j, todo) ==
    \/ jobs'[j].pc = "idle" /\ jobs'[j].todo = {}
    \/ /\ jobs'[j].pc = "policy" /\ jobs'[j].current \in todo
       /\ jobs'[j].todo = todo \ {jobs'[j].current}

LEMMA IdleJobIsRun == IdleJob \in JobRun
BY DEF IdleJob, JobRun

LEMMA AdvanceStep ==
    ASSUME jobs \in [Jobs -> JobRun], NEW j \in Jobs, NEW todo \in SUBSET Listed, Advance(j, todo)
    PROVE  /\ jobs' \in [Jobs -> JobRun]
           /\ GoesOn(j, todo) /\ \A k \in Jobs : k # j => jobs'[k] = jobs[k]
<1>1. CASE jobs' = [jobs EXCEPT ![j] = IdleJob]
  <2>1. jobs' \in [Jobs -> JobRun]
    BY <1>1, IdleJobIsRun
  <2>2. jobs'[j] = IdleJob /\ \A k \in Jobs : k # j => jobs'[k] = jobs[k]
    BY <1>1
  <2> QED
    BY <2>1, <2>2 DEF GoesOn, IdleJob
<1>2. ASSUME NEW l \in todo,
             jobs' = [jobs EXCEPT ![j] = [pc |-> "policy", current |-> l, todo |-> todo \ {l}]]
      PROVE  /\ jobs' \in [Jobs -> JobRun]
             /\ GoesOn(j, todo) /\ \A k \in Jobs : k # j => jobs'[k] = jobs[k]
  <2> DEFINE x == [pc |-> "policy", current |-> l, todo |-> todo \ {l}]
  <2>1. x \in JobRun /\ x.pc = "policy" /\ x.current = l /\ x.todo = todo \ {l}
    BY DEF JobRun
  <2>2. jobs' = [jobs EXCEPT ![j] = x]
    BY <1>2
  <2> HIDE DEF x
  <2>3. jobs'[j] = x /\ jobs' \in [Jobs -> JobRun] /\ \A k \in Jobs : k # j => jobs'[k] = jobs[k]
    BY <2>1, <2>2
  <2> QED
    BY <2>1, <2>3 DEF GoesOn
<1> QED
  BY <1>1, <1>2 DEF Advance

\* A row, when it is listed.
Entry(s) == [s |-> s, escalated |-> rows[s].escalated]

LEMMA EntryIsListed ==
    ASSUME TypeOK, NEW s \in Submissions, rows[s] # None
    PROVE  Entry(s) \in Listed /\ Entry(s).s = s /\ Entry(s).escalated = rows[s].escalated
<1>1. rows[s] \in Row
  BY DEF TypeOK
<1>2. rows[s].escalated \in BOOLEAN
  BY <1>1, Zenon DEF Row
<1> QED
  BY <1>2, Zenon DEF Entry, Listed

ListedNow == {s \in overdue : rows[s].status \in Pending}

LEMMA ListEffect ==
    ASSUME InvE, NEW j \in Jobs, ListPending(j)
    PROVE  /\ jobs' \in [Jobs -> JobRun]
           /\ GoesOn(j, {Entry(s) : s \in ListedNow})
           /\ \A k \in Jobs : k # j => jobs'[k] = jobs[k]
           /\ {Entry(s) : s \in ListedNow} \in SUBSET Listed
           /\ UNCHANGED <<vars, overdue, escalations>>
<1>1. \A s \in ListedNow : Entry(s) \in Listed
  BY EntryIsListed DEF ListedNow, InvE, Inv, TypeAndOps, TypeOKE, ListedExist
<1>2. {Entry(s) : s \in ListedNow} \in SUBSET Listed
  BY <1>1
<1>3. Advance(j, {Entry(s) : s \in ListedNow}) /\ UNCHANGED <<vars, overdue, escalations>>
  BY DEF ListPending, Entry, ListedNow
<1>4. jobs \in [Jobs -> JobRun]
  BY DEF InvE, TypeOKE
<1> QED
  BY <1>2, <1>3, <1>4, AdvanceStep

LEMMA SkipEffect ==
    ASSUME InvE, NEW j \in Jobs, SkipListed(j)
    PROVE  /\ jobs' \in [Jobs -> JobRun]
           /\ GoesOn(j, jobs[j].todo) /\ \A k \in Jobs : k # j => jobs'[k] = jobs[k]
           /\ UNCHANGED <<vars, overdue, escalations>>
<1>1. jobs \in [Jobs -> JobRun]
  BY DEF InvE, TypeOKE
<1>2. jobs[j].todo \in SUBSET Listed
  BY <1>1 DEF JobRun
<1> QED
  BY <1>1, <1>2, AdvanceStep DEF SkipListed

LEMMA ReportEffect ==
    ASSUME InvE, NEW j \in Jobs, Report(j)
    PROVE  /\ jobs' \in [Jobs -> JobRun]
           /\ GoesOn(j, jobs[j].todo) /\ \A k \in Jobs : k # j => jobs'[k] = jobs[k]
           /\ UNCHANGED <<rows, exceptions, ops, handed, requests, overdue, escalations>>
           /\ Inv'
<1>1. jobs \in [Jobs -> JobRun]
  BY DEF InvE, TypeOKE
<1>2. jobs[j].todo \in SUBSET Listed
  BY <1>1 DEF JobRun
<1>3. jobs[j].current.s \in Submissions
  BY DEF Report, InvE, ListedExist, Listed
<1>4. audit \subseteq audit' /\ audit' \subseteq audit \union {<<jobs[j].current.s, "change">>}
  BY DEF Report
<1>5. UNCHANGED <<rows, exceptions, ops, handed, requests, overdue, escalations>>
  BY DEF Report
<1>6. TypeAndOps'
  BY <1>3, <1>4, <1>5 DEF InvE, Inv, TypeAndOps, TypeOK, OpsOK, OpOK
<1>7. Inv'
  BY <1>4, <1>5, <1>6, LooksTheSame DEF InvE
<1> QED
  BY <1>1, <1>2, <1>5, <1>7, AdvanceStep DEF Report

LEMMA EscalateEffect ==
    ASSUME InvE, NEW j \in Jobs, NEW s, s = jobs[j].current.s, Escalate(j)
    PROVE  /\ s \in Submissions /\ rows[s] # None
           /\ rows'[s] # None /\ rows'[s].escalated
           /\ \A t \in Submissions : t # s => rows'[t] = rows[t]
           /\ Inv'
<1>1. s \in Submissions /\ rows[s] # None
  BY DEF Escalate, InvE, ListedExist, Listed
<1>2. rows[s] \in Row
  BY <1>1 DEF InvE, Inv, TypeAndOps, TypeOK
<1> DEFINE r == [rows[s] EXCEPT !.approver = NextApprover, !.escalated = TRUE]
<1>3. r \in Row
  BY <1>2, ApprovalEscalationAssumption, Zenon DEF Row
<1>4. r.escalated /\ r.status = rows[s].status /\ r.content = rows[s].content
      /\ r.check = rows[s].check /\ r.exception = rows[s].exception /\ r.reason = rows[s].reason
  BY <1>2 DEF Row
<1>5. rows' = [rows EXCEPT ![s] = r]
  BY <1>1 DEF Escalate, InvE, Inv, TypeAndOps, TypeOK
<1>6. UNCHANGED <<exceptions, ops, audit, handed, requests>>
  BY DEF Escalate
<1> HIDE DEF r
<1>7. rows'[s] = r /\ r # None /\ \A t \in Submissions : t # s => rows'[t] = rows[t]
  BY <1>1, <1>3, <1>5, NoRowAssumption DEF InvE, Inv, TypeAndOps, TypeOK
<1>8. TypeAndOps'
  BY <1>1, <1>3, <1>5, <1>6, <1>7 DEF InvE, Inv, TypeAndOps, TypeOK, OpsOK, OpOK
<1>9. Inv'
  BY <1>1, <1>4, <1>6, <1>7, <1>8, LooksTheSame DEF InvE
<1> QED
  BY <1>1, <1>4, <1>7, <1>9


\* A run that goes on does so with what it has listed.
LEMMA GoesOnWithRows ==
    ASSUME NEW j \in Jobs, NEW todo \in SUBSET Listed, GoesOn(j, todo),
           \A l \in todo : rows'[l.s] # None
    PROVE  /\ \A l \in jobs'[j].todo : rows'[l.s] # None
           /\ jobs'[j].pc = "idle" => jobs'[j].todo = {}
           /\ jobs'[j].pc # "idle" => jobs'[j].current \in Listed /\ rows'[jobs'[j].current.s] # None
BY DEF GoesOn

\* Listed rows stay where they are whenever rows do.
LEMMA ListsStay ==
    ASSUME InvE, \A s \in Submissions : rows[s] # None => rows'[s] # None, UNCHANGED overdue,
           NEW K \in SUBSET Jobs, \A k \in K : jobs'[k] = jobs[k],
           \A j \in Jobs \ K :
               /\ \A l \in jobs'[j].todo : rows'[l.s] # None
               /\ jobs'[j].pc = "idle" => jobs'[j].todo = {}
               /\ jobs'[j].pc # "idle" => jobs'[j].current \in Listed /\ rows'[jobs'[j].current.s] # None
    PROVE  ListedExist'
<1>1. \A s \in overdue' : rows'[s] # None
  BY DEF InvE, TypeOKE, ListedExist
<1>2. \A k \in Jobs : jobs[k].todo \in SUBSET Listed
  BY DEF InvE, TypeOKE, JobRun
<1>3. \A l \in Listed : l.s \in Submissions
  BY DEF Listed
<1>4. ASSUME NEW k \in K
      PROVE  /\ \A l \in jobs'[k].todo : rows'[l.s] # None
             /\ jobs'[k].pc = "idle" => jobs'[k].todo = {}
             /\ jobs'[k].pc # "idle" => jobs'[k].current \in Listed /\ rows'[jobs'[k].current.s] # None
  BY <1>2, <1>3, <1>4 DEF InvE, ListedExist
<1> QED
  BY <1>1, <1>4 DEF ListedExist

LEMMA InitInvE == InitE => InvE
<1> SUFFICES ASSUME InitE PROVE InvE
  OBVIOUS
<1>1. Inv /\ TypeOK
  BY InitInv DEF InitE, Inv, TypeAndOps
<1>2. TypeOKE
  BY <1>1, IdleJobIsRun, ApprovalEscalationAssumption DEF InitE, TypeOKE
<1>3. NewAreAbsent
  BY DEF InitE, Init, Idle, NewAreAbsent
<1>4. ListedExist
  BY DEF InitE, IdleJob, ListedExist
<1> QED
  BY <1>1, <1>2, <1>3, <1>4 DEF InvE

LEMMA InvEStep == InvE /\ [NextE]_evars => InvE'
<1> SUFFICES ASSUME InvE, [NextE]_evars PROVE InvE'
  OBVIOUS
<1>0. ASSUME Inv', overdue' \subseteq Submissions, jobs' \in [Jobs -> JobRun],
             escalations' \in [Submissions -> 0..MaxEscalations]
      PROVE  TypeOKE'
  BY <1>0 DEF Inv, TypeAndOps, TypeOKE
<1>j. jobs \in [Jobs -> JobRun] /\ overdue \subseteq Submissions
      /\ escalations \in [Submissions -> 0..MaxEscalations]
  BY DEF InvE, TypeOKE
<1>l. \A j \in Jobs : jobs[j].todo \in SUBSET Listed /\ \A l \in jobs[j].todo : rows[l.s] # None
  BY <1>j DEF JobRun, InvE, ListedExist
<1>n. ASSUME UNCHANGED ops, \A s \in Submissions : rows[s] = None => rows'[s] = None PROVE NewAreAbsent'
  BY <1>n, NewOnesAreAbout DEF InvE, Inv, NewAreAbsent
<1>1. CASE (Next \/ UNCHANGED vars) /\ UNCHANGED jvars
  <2>1. Inv' /\ NewAreAbsent' /\ Stable
    BY <1>1, InvStep, NewAreAbsentStep, NextStep DEF InvE, Inv
  <2>2. UNCHANGED <<overdue, jobs, escalations>>
    BY <1>1 DEF jvars
  <2>3. ListedExist'
    BY <2>1, <2>2, ListsStay DEF Stable
  <2> QED
    BY <1>0, <1>j, <2>1, <2>2, <2>3 DEF InvE
<1>2. ASSUME NEW s \in Submissions, TimeoutPasses(s) PROVE InvE'
  <2>1. UNCHANGED <<vars, jobs, escalations>> /\ overdue' = overdue \union {s} /\ rows[s] # None
    BY <1>2 DEF TimeoutPasses
  <2>2. Inv' /\ NewAreAbsent'
    BY <2>1, InvStep, NewAreAbsentStep DEF InvE, Inv
  <2>3. ListedExist'
    BY <2>1 DEF InvE, ListedExist, vars
  <2> QED
    BY <1>0, <1>j, <2>1, <2>2, <2>3 DEF InvE
<1>3. ASSUME NEW j \in Jobs, ListPending(j) PROVE InvE'
  <2> DEFINE todo == {Entry(s) : s \in ListedNow}
  <2>1. /\ jobs' \in [Jobs -> JobRun] /\ GoesOn(j, todo) /\ todo \in SUBSET Listed
        /\ \A k \in Jobs \ {j} : jobs'[k] = jobs[k]
        /\ UNCHANGED <<vars, overdue, escalations>>
    BY <1>3, ListEffect
  <2>2. Inv' /\ NewAreAbsent'
    BY <2>1, InvStep, NewAreAbsentStep DEF InvE, Inv
  <2>3. \A l \in todo : rows'[l.s] # None
    <3>1. ASSUME NEW s \in ListedNow PROVE rows'[Entry(s).s] # None
      BY <2>1, EntryIsListed DEF ListedNow, InvE, Inv, TypeAndOps, TypeOKE, ListedExist, vars
    <3> QED
      BY <3>1
  <2> HIDE DEF todo
  <2>4. ListedExist'
    <3>1. /\ \A l \in jobs'[j].todo : rows'[l.s] # None
          /\ jobs'[j].pc = "idle" => jobs'[j].todo = {}
          /\ jobs'[j].pc # "idle" => jobs'[j].current \in Listed /\ rows'[jobs'[j].current.s] # None
      BY <2>1, <2>3, GoesOnWithRows
    <3>2. \A k \in Jobs \ (Jobs \ {j}) : k = j
      OBVIOUS
    <3> QED
      BY <2>1, <3>1, <3>2, ListsStay DEF vars
  <2> QED
    BY <1>0, <1>j, <2>1, <2>2, <2>4 DEF InvE
<1>4. ASSUME NEW j \in Jobs, SkipListed(j) PROVE InvE'
  <2>1. /\ jobs' \in [Jobs -> JobRun] /\ GoesOn(j, jobs[j].todo)
        /\ \A k \in Jobs \ {j} : jobs'[k] = jobs[k]
        /\ UNCHANGED <<vars, overdue, escalations>>
    BY <1>4, SkipEffect
  <2>2. Inv' /\ NewAreAbsent'
    BY <2>1, InvStep, NewAreAbsentStep DEF InvE, Inv
  <2>3. ListedExist'
    <3>1. \A l \in jobs[j].todo : rows'[l.s] # None
      BY <1>l, <2>1 DEF vars
    <3>2. /\ \A l \in jobs'[j].todo : rows'[l.s] # None
          /\ jobs'[j].pc = "idle" => jobs'[j].todo = {}
          /\ jobs'[j].pc # "idle" => jobs'[j].current \in Listed /\ rows'[jobs'[j].current.s] # None
      BY <1>l, <2>1, <3>1, GoesOnWithRows
    <3>3. \A k \in Jobs \ (Jobs \ {j}) : k = j
      OBVIOUS
    <3> QED
      BY <2>1, <3>2, <3>3, ListsStay DEF vars
  <2> QED
    BY <1>0, <1>j, <2>1, <2>2, <2>3 DEF InvE
<1>5. ASSUME NEW j \in Jobs, Report(j) PROVE InvE'
  <2>1. /\ jobs' \in [Jobs -> JobRun] /\ GoesOn(j, jobs[j].todo)
        /\ \A k \in Jobs \ {j} : jobs'[k] = jobs[k]
        /\ UNCHANGED <<rows, ops, overdue, escalations>> /\ Inv'
    BY <1>5, ReportEffect
  <2>2. NewAreAbsent'
    BY <1>n, <2>1
  <2>3. ListedExist'
    <3>1. \A l \in jobs[j].todo : rows'[l.s] # None
      BY <1>l, <2>1
    <3>2. /\ \A l \in jobs'[j].todo : rows'[l.s] # None
          /\ jobs'[j].pc = "idle" => jobs'[j].todo = {}
          /\ jobs'[j].pc # "idle" => jobs'[j].current \in Listed /\ rows'[jobs'[j].current.s] # None
      BY <1>l, <2>1, <3>1, GoesOnWithRows
    <3>3. \A k \in Jobs \ (Jobs \ {j}) : k = j
      OBVIOUS
    <3> QED
      BY <2>1, <3>2, <3>3, ListsStay
  <2> QED
    BY <1>0, <1>j, <2>1, <2>2, <2>3 DEF InvE
<1>6. ASSUME NEW j \in Jobs, Escalate(j) PROVE InvE'
  <2> DEFINE s == jobs[j].current.s
  <2>1. /\ s \in Submissions /\ rows[s] # None /\ rows'[s] # None /\ Inv'
        /\ \A t \in Submissions : t # s => rows'[t] = rows[t]
    BY <1>6, EscalateEffect
  <2>2. escalations' = [escalations EXCEPT ![s] = @ + 1] /\ escalations[s] < MaxEscalations
        /\ jobs' = [jobs EXCEPT ![j].pc = "report"] /\ UNCHANGED <<ops, overdue>>
    BY <1>6 DEF Escalate
  <2> HIDE DEF s
  <2>3. escalations' \in [Submissions -> 0..MaxEscalations]
    BY <1>j, <2>1, <2>2, ApprovalEscalationAssumption
  <2>4. jobs[j] \in JobRun
    BY <1>j
  <2>5. [jobs[j] EXCEPT !.pc = "report"] \in JobRun
    BY <2>4 DEF JobRun
  <2>6. /\ jobs' \in [Jobs -> JobRun] /\ jobs'[j] = [jobs[j] EXCEPT !.pc = "report"]
        /\ \A k \in Jobs \ {j} : jobs'[k] = jobs[k]
    BY <1>j, <2>2, <2>5
  <2>7. jobs'[j].pc = "report" /\ jobs'[j].todo = jobs[j].todo /\ jobs'[j].current = jobs[j].current
    BY <2>4, <2>6 DEF JobRun
  <2>8. jobs[j].current \in Listed /\ rows[jobs[j].current.s] # None
    BY <1>6 DEF Escalate, InvE, ListedExist
  <2>9. \A t \in Submissions : rows[t] # None => rows'[t] # None
    BY <2>1
  <2>10. \A l \in Listed : l.s \in Submissions
    BY DEF Listed
  <2>11. ListedExist'
    <3>1. /\ \A l \in jobs'[j].todo : rows'[l.s] # None
          /\ jobs'[j].pc = "idle" => jobs'[j].todo = {}
          /\ jobs'[j].pc # "idle" => jobs'[j].current \in Listed /\ rows'[jobs'[j].current.s] # None
      BY <1>l, <2>7, <2>8, <2>9, <2>10
    <3>2. \A k \in Jobs \ (Jobs \ {j}) : k = j
      OBVIOUS
    <3> QED
      BY <2>2, <2>6, <2>9, <3>1, <3>2, ListsStay
  <2>12. NewAreAbsent'
    BY <1>n, <2>1, <2>2
  <2> QED
    BY <1>0, <1>j, <2>1, <2>2, <2>3, <2>6, <2>11, <2>12 DEF InvE
<1> QED
  BY <1>1, <1>2, <1>3, <1>4, <1>5, <1>6 DEF NextE, JobStep, evars

LEMMA InvarianceE == SpecE => []InvE
BY InitInvE, InvEStep, PTL DEF SpecE

\* runEscalationJob takes part in none of the requests' promises and breaks
\* none, however many runs overlap with each other and with the requests:
\* it changes an approver from a snapshot, but no text, decision or reason.
THEOREM RequestsAreSafeBesideTheJob ==
    SpecE => [](/\ TypeOKE /\ CheckMatchesContent /\ RejectedHasReason /\ ExceptionIsAboutIt
                /\ HandedWasAudited /\ DecisionsAreAudited)
<1>1. InvE => /\ TypeOKE /\ CheckMatchesContent /\ RejectedHasReason /\ ExceptionIsAboutIt
              /\ HandedWasAudited /\ DecisionsAreAudited
  BY DEF InvE, Inv, DecisionsExplained, DecisionsAreAudited, ToBeAudited
<1> QED
  BY <1>1, InvarianceE, PTL

-----------------------------------------------------------------------------
(* Runs of the job that do not overlap *)

AtMostOneRun == \A i, j \in Jobs : jobs[i].pc # "idle" /\ jobs[j].pc # "idle" => i = j

\* Whatever a run has still to do, its list shows the marks that are there; it
\* lists a submission once.
ListIsCurrent(run) ==
    /\ \A l \in run.todo : rows[l.s].escalated => l.escalated
    /\ \A l, m \in run.todo : l.s = m.s => l = m
    /\ run.pc # "idle" => \A l \in run.todo : l.s # run.current.s
    /\ run.pc = "policy" => (rows[run.current.s].escalated => run.current.escalated)

ListsAreCurrent == \A j \in Jobs : ListIsCurrent(jobs[j])

\* What was escalated is marked, and was escalated once.
EscalatedIsMarked ==
    \A s \in Submissions :
        escalations[s] = 0 \/ (escalations[s] = 1 /\ rows[s] # None /\ rows[s].escalated)

OnceInv == ListsAreCurrent /\ EscalatedIsMarked

LEMMA AdvancedListIsCurrent ==
    ASSUME NEW j \in Jobs, NEW todo \in SUBSET Listed, GoesOn(j, todo),
           \A l \in todo : rows'[l.s].escalated => l.escalated,
           \A l, m \in todo : l.s = m.s => l = m
    PROVE  ListIsCurrent(jobs[j])'
<1>1. CASE jobs'[j].pc = "idle" /\ jobs'[j].todo = {}
  BY <1>1 DEF ListIsCurrent
<1>2. CASE /\ jobs'[j].pc = "policy" /\ jobs'[j].current \in todo
           /\ jobs'[j].todo = todo \ {jobs'[j].current}
  BY <1>2 DEF ListIsCurrent
<1> QED
  BY <1>1, <1>2 DEF GoesOn

\* A run that does not step keeps a current list as long as no mark is set.
LEMMA OtherListIsCurrent ==
    ASSUME InvE, MarksStay, NEW j \in Jobs, jobs'[j] = jobs[j], ListIsCurrent(jobs[j])
    PROVE  ListIsCurrent(jobs[j])'
<1>1. jobs[j].todo \in SUBSET Listed
  BY DEF InvE, TypeOKE, JobRun
<1>2. \A l \in Listed : l.s \in Submissions
  BY DEF Listed
<1>3. \A l \in jobs[j].todo : rows'[l.s].escalated => l.escalated
  <2>1. ASSUME NEW l \in jobs[j].todo PROVE rows'[l.s].escalated = rows[l.s].escalated
    BY <1>1, <1>2 DEF InvE, ListedExist, MarksStay
  <2> QED
    BY <2>1 DEF ListIsCurrent
<1>4. jobs[j].pc = "policy" => (rows'[jobs[j].current.s].escalated => jobs[j].current.escalated)
  <2>1. ASSUME jobs[j].pc = "policy"
        PROVE  rows'[jobs[j].current.s].escalated = rows[jobs[j].current.s].escalated
    BY <1>2, <2>1 DEF InvE, ListedExist, MarksStay
  <2> QED
    BY <2>1 DEF ListIsCurrent
<1> QED
  BY <1>3, <1>4 DEF ListIsCurrent

LEMMA MarkedStays ==
    ASSUME MarksStay, EscalatedIsMarked, UNCHANGED escalations
    PROVE  EscalatedIsMarked'
<1>1. ASSUME NEW s \in Submissions, escalations[s] = 1
      PROVE  rows'[s] # None /\ rows'[s].escalated = rows[s].escalated
  BY <1>1 DEF EscalatedIsMarked, MarksStay
<1> QED
  BY <1>1 DEF EscalatedIsMarked

LEMMA OnceStep == InvE /\ AtMostOneRun /\ OnceInv /\ [NextE]_evars => OnceInv'
<1> SUFFICES ASSUME InvE, AtMostOneRun, OnceInv, [NextE]_evars PROVE OnceInv'
  OBVIOUS
<1>s. ASSUME UNCHANGED rows PROVE MarksStay
  BY <1>s DEF MarksStay
<1>l. \A j \in Jobs : jobs[j].todo \in SUBSET Listed
  BY DEF InvE, TypeOKE, JobRun
\* A step of one run that sets no mark.
<1>o. ASSUME NEW j \in Jobs, MarksStay, \A k \in Jobs : k # j => jobs'[k] = jobs[k],
             ListIsCurrent(jobs[j])', UNCHANGED escalations
      PROVE  OnceInv'
  BY <1>o, OtherListIsCurrent, MarkedStays DEF OnceInv, ListsAreCurrent
\* A run goes on with the rest of its list.
<1>g. ASSUME NEW j \in Jobs, GoesOn(j, jobs[j].todo), UNCHANGED <<rows, escalations>>,
             \A k \in Jobs : k # j => jobs'[k] = jobs[k]
      PROVE  OnceInv'
  <2>1. /\ \A l \in jobs[j].todo : rows'[l.s].escalated => l.escalated
        /\ \A l, m \in jobs[j].todo : l.s = m.s => l = m
    BY <1>g DEF OnceInv, ListsAreCurrent, ListIsCurrent
  <2>2. ListIsCurrent(jobs[j])'
    BY <1>g, <1>l, <2>1, AdvancedListIsCurrent
  <2> QED
    BY <1>g, <1>o, <1>s, <2>2
<1>1. CASE (Next \/ UNCHANGED vars) /\ UNCHANGED jvars
  <2>1. MarksStay /\ UNCHANGED <<jobs, escalations>>
    BY <1>1, MarksStep DEF InvE, Inv, jvars
  <2> QED
    BY <2>1, OtherListIsCurrent, MarkedStays DEF OnceInv, ListsAreCurrent
<1>2. ASSUME NEW s \in Submissions, TimeoutPasses(s) PROVE OnceInv'
  <2>1. MarksStay /\ UNCHANGED <<jobs, escalations>>
    BY <1>2, <1>s DEF TimeoutPasses, vars
  <2> QED
    BY <2>1, OtherListIsCurrent, MarkedStays DEF OnceInv, ListsAreCurrent
<1>3. ASSUME NEW j \in Jobs, ListPending(j) PROVE OnceInv'
  <2> DEFINE todo == {Entry(s) : s \in ListedNow}
  <2>1. /\ GoesOn(j, todo) /\ todo \in SUBSET Listed
        /\ \A k \in Jobs : k # j => jobs'[k] = jobs[k]
        /\ UNCHANGED <<rows, escalations>>
    BY <1>3, ListEffect DEF vars
  <2>2. \A l \in todo : \E s \in ListedNow : l = Entry(s)
    OBVIOUS
  <2>3. \A s \in ListedNow : Entry(s).s = s /\ Entry(s).escalated = rows[s].escalated
    BY EntryIsListed DEF ListedNow, InvE, Inv, TypeAndOps, TypeOKE, ListedExist
  <2> HIDE DEF todo
  <2>4. ASSUME NEW l \in todo, rows'[l.s].escalated PROVE l.escalated
    <3>1. PICK s \in ListedNow : l = Entry(s)
      BY <2>2
    <3>2. l.s = s /\ l.escalated = rows[s].escalated
      BY <2>3, <3>1
    <3> QED
      BY <2>1, <2>4, <3>2
  <2>5. \A l, m \in todo : l.s = m.s => l = m
    BY <2>2, <2>3
  <2>6. ListIsCurrent(jobs[j])'
    BY <2>1, <2>4, <2>5, AdvancedListIsCurrent
  <2> QED
    BY <1>o, <1>s, <2>1, <2>6
<1>4. ASSUME NEW j \in Jobs, SkipListed(j) PROVE OnceInv'
  BY <1>4, <1>g, SkipEffect DEF vars
<1>5. ASSUME NEW j \in Jobs, Report(j) PROVE OnceInv'
  BY <1>5, <1>g, ReportEffect
<1>6. ASSUME NEW j \in Jobs, Escalate(j) PROVE OnceInv'
  <2> DEFINE s == jobs[j].current.s
  <2>1. /\ s \in Submissions /\ rows'[s] # None /\ rows'[s].escalated
        /\ \A t \in Submissions : t # s => rows'[t] = rows[t]
    BY <1>6, EscalateEffect
  <2>2. escalations' = [escalations EXCEPT ![s] = @ + 1]
        /\ jobs' = [jobs EXCEPT ![j].pc = "report"]
    BY <1>6 DEF Escalate
  <2>3. ~rows[s].escalated
    BY <1>6 DEF Escalate, OnceInv, ListsAreCurrent, ListIsCurrent
  <2>t. escalations \in [Submissions -> 0..MaxEscalations] /\ jobs \in [Jobs -> JobRun]
    BY DEF InvE, TypeOKE
  <2>4. escalations'[s] = 1 /\ \A t \in Submissions : t # s => escalations'[t] = escalations[t]
    BY <2>1, <2>2, <2>3, <2>t DEF OnceInv, EscalatedIsMarked
  <2>5. EscalatedIsMarked'
    BY <2>1, <2>4 DEF OnceInv, EscalatedIsMarked
  <2>6. jobs'[j].pc = "report" /\ jobs'[j].todo = jobs[j].todo /\ jobs'[j].current = jobs[j].current
    BY <2>2, <2>t DEF JobRun
  <2>7. ListIsCurrent(jobs[j])'
    <3>1. \A l \in jobs[j].todo : l.s # s /\ l.s \in Submissions
      BY <1>6, <1>l DEF Escalate, OnceInv, ListsAreCurrent, ListIsCurrent, Listed
    <3>2. \A l \in jobs[j].todo : rows'[l.s].escalated => l.escalated
      BY <2>1, <3>1 DEF OnceInv, ListsAreCurrent, ListIsCurrent
    <3> QED
      BY <2>6, <3>1, <3>2 DEF OnceInv, ListsAreCurrent, ListIsCurrent
  \* The other runs are idle, their lists empty.
  <2>8. ASSUME NEW k \in Jobs, k # j PROVE ListIsCurrent(jobs[k])'
    <3>1. jobs[k].pc = "idle" /\ jobs[k].todo = {}
      BY <1>6, <2>8 DEF Escalate, AtMostOneRun, InvE, ListedExist
    <3>2. jobs'[k] = jobs[k]
      BY <2>2, <2>8, <2>t
    <3> QED
      BY <3>1, <3>2 DEF ListIsCurrent
  <2> QED
    BY <2>5, <2>7, <2>8 DEF OnceInv, ListsAreCurrent
<1> QED
  BY <1>1, <1>2, <1>3, <1>4, <1>5, <1>6 DEF NextE, JobStep, evars

LEMMA InitOnce == InitE => OnceInv
BY DEF InitE, IdleJob, OnceInv, ListsAreCurrent, ListIsCurrent, EscalatedIsMarked

\* "After escalating we SET metadata.escalated = true" (escalation.ts:10-12): as
\* long as a run of the job ends before the next begins, no submission is
\* escalated twice, whatever requests change in its row between listing and
\* update, and however many timeouts, tenants and refused audit entries there are.
THEOREM EscalatesOnce == SpecE /\ []AtMostOneRun => []EscalatedOnce
<1>1. EscalatedIsMarked => EscalatedOnce
  <2>1. ASSUME EscalatedIsMarked, NEW s \in Submissions PROVE escalations[s] <= 1
    BY <2>1 DEF EscalatedIsMarked
  <2> QED
    BY <2>1 DEF EscalatedOnce
<1>2. OnceInv => EscalatedIsMarked
  BY DEF OnceInv
<1> QED
  BY <1>1, <1>2, InitOnce, OnceStep, InvarianceE, PTL DEF SpecE

=============================================================================
