-------------------------- MODULE ApprovalWorkflow --------------------------
(***************************************************************************)
(* Submissions and exception requests of packages/kit-approval-workflow    *)
(* (src/workflow.ts), over its in-memory stores (src/stores.ts).           *)
(*                                                                         *)
(* Every request is a chain of awaited calls: a store update takes effect  *)
(* when it is called, and what comes after it (the audit entry, the        *)
(* hand-off hooks, the cascade to the original submission) runs in later   *)
(* steps, between which other requests run.  A request in flight is a      *)
(* record in "ops" that holds exactly what the code has in local variables *)
(* across its next await.                                                  *)
(*                                                                         *)
(* A request that fails a check (unknown row, caller not the submitter, no *)
(* reason code, fix.before absent) returns an error before it changes      *)
(* anything and is no step.  One tenant is modelled: stores match rows by  *)
(* tenant, a foreign request is a request for an unknown row.              *)
(***************************************************************************)
EXTENDS Naturals, FiniteSets

CONSTANTS
    Submissions, Exceptions, \* row ids
    Approvers,               \* who decides
    Contents,                \* the texts a submission can have
    Risky,                   \* those the injected evaluator scores above zero
    Ops,                     \* identities of requests in flight
    MaxRequests,             \* bound: requests begun
    AuditMayFail,            \* may the injected audit logger reject?
    None

ASSUME ApprovalWorkflowAssumption ==
    /\ Risky \subseteq Contents
    /\ MaxRequests \in Nat
    /\ AuditMayFail \in BOOLEAN
    /\ None \notin Submissions \union Exceptions \union Approvers \union Contents

VARIABLES
    rows,       \* the submission store
    exceptions, \* the exception request store
    ops,        \* the requests in flight
    audit,      \* entries the audit logger took, or "refused" for one it rejected
    handed,     \* submissions given to onApproved
    requests    \* requests begun so far

vars == <<rows, exceptions, ops, audit, handed, requests>>

Status == {"draft", "submitted", "lint_running", "lint_failed", "under_review",
           "approved", "rejected", "override", "deployed"}

Reapplyable == {"lint_running", "lint_failed", "draft", "submitted"}

\* Mutant of DecisionStatus: the action itself is stored as the status.
DecisionStatusVerbatim == [approve |-> "approve", reject |-> "rejected",
                           deploy |-> "deployed", override |-> "override"]

\* DECISION_STATUS_MAP.
DecisionStatus == [approve |-> "approved", reject |-> "rejected",
                   deploy |-> "deployed", override |-> "override"]

\* The reason code an approver must give to reject is one value here.
Row == [status    : Status,
        content   : Contents,
        check     : Contents,             \* the text that checkId is about
        approver  : Approvers \union {None},
        reason    : BOOLEAN,              \* rejectionReasonCode # null
        exception : Exceptions \union {None},
        escalated : BOOLEAN]              \* metadata.escalated

ExceptionRow == [original : Submissions \union {None},
                 decision : {"none", "approved", "rejected"}]

\* "No such row" is no row.
ASSUME NoRowAssumption == None \notin Row /\ None \notin ExceptionRow

\* A request awaits the evaluator, the audit logger, a store or a hook.
Op == [pc      : {"idle", "evaluateNew", "evaluateFix", "audit", "hook",
                  "mark", "auditException", "cascade"},
       s       : Submissions \union {None},
       e       : Exceptions \union {None},
       to      : Status \union {"none"},
       content : Contents \union {None}]

Idle == [pc |-> "idle", s |-> None, e |-> None, to |-> "none", content |-> None]

TypeOK ==
    /\ rows \in [Submissions -> Row \union {None}]
    /\ exceptions \in [Exceptions -> ExceptionRow \union {None}]
    /\ ops \in [Ops -> Op]
    /\ audit \subseteq (Submissions \union Exceptions) \X
          {"approval", "rejection", "change", "start", "stop", "refused"}
    /\ handed \subseteq Submissions
    /\ requests \in 0..MaxRequests

Init ==
    /\ rows = [s \in Submissions |-> None]
    /\ exceptions = [e \in Exceptions |-> None]
    /\ ops = [o \in Ops |-> Idle]
    /\ audit = {} /\ handed = {}
    /\ requests = 0

\* A request begins: it takes a free op, whose record says what it awaits next.
Begin(o, op) ==
    /\ ops[o] = Idle
    /\ requests < MaxRequests
    /\ requests' = requests + 1
    /\ ops' = [ops EXCEPT ![o] = op]

Continue(o, pc) == ops' = [ops EXCEPT ![o].pc = pc]
End(o) == ops' = [ops EXCEPT ![o] = Idle]

\* The status the evaluation of a text leads to.
Verdict(c) == IF c \in Risky THEN "lint_running" ELSE "under_review"

-----------------------------------------------------------------------------
(* submit and reapply *)

Submit(o, s, c) ==
    /\ rows[s] = None
    /\ \A p \in Ops : ops[p].s # s
    /\ Begin(o, [Idle EXCEPT !.pc = "evaluateNew", !.s = s, !.content = c])
    /\ UNCHANGED <<rows, exceptions, audit, handed>>

\* The evaluation of a new text is there: the row is inserted; notifying the
\* approver changes nothing here and ends the request.
SubmitEvaluated(o, a) ==
    /\ ops[o].pc = "evaluateNew"
    /\ rows' = [rows EXCEPT ![ops[o].s] =
                  [status |-> Verdict(ops[o].content), content |-> ops[o].content,
                   check |-> ops[o].content, approver |-> a, reason |-> FALSE,
                   exception |-> None, escalated |-> FALSE]]
    /\ End(o)
    /\ UNCHANGED <<exceptions, audit, handed, requests>>

\* reapply up to the evaluator: the checks are made on the row as it is now.
\* The fix replaces a text by another one.
Reapply(o, s, c) ==
    /\ rows[s] # None
    /\ rows[s].status \in Reapplyable
    /\ c # rows[s].content
    /\ Begin(o, [Idle EXCEPT !.pc = "evaluateFix", !.s = s, !.content = c])
    /\ UNCHANGED <<rows, exceptions, audit, handed>>

\* Mutant of ReapplyEvaluated: the new text is stored, its check is not.
ReapplyKeepsCheck(o) ==
    /\ ops[o].pc = "evaluateFix"
    /\ rows' = [rows EXCEPT ![ops[o].s].content = ops[o].content,
                            ![ops[o].s].status  = Verdict(ops[o].content)]
    /\ ops' = [ops EXCEPT ![o].pc = "audit", ![o].to = "none"]
    /\ UNCHANGED <<exceptions, audit, handed, requests>>

\* The rest of reapply: the row is updated whatever became of it meanwhile.
ReapplyEvaluated(o) ==
    /\ ops[o].pc = "evaluateFix"
    /\ rows' = [rows EXCEPT ![ops[o].s].content = ops[o].content,
                            ![ops[o].s].check   = ops[o].content,
                            ![ops[o].s].status  = Verdict(ops[o].content)]
    /\ ops' = [ops EXCEPT ![o].pc = "audit", ![o].to = "none"]
    /\ UNCHANGED <<exceptions, audit, handed, requests>>

-----------------------------------------------------------------------------
(* decide, recordApprove and recordReject *)

\* decide: one update sets status, reason, decision time and approver.
Decide(o, s, action, a) ==
    /\ rows[s] # None
    /\ rows' = [rows EXCEPT ![s].status   = DecisionStatus[action],
                            ![s].reason   = (action = "reject"),
                            ![s].approver = a]
    /\ Begin(o, [Idle EXCEPT !.pc = "audit", !.s = s, !.to = DecisionStatus[action]])
    /\ UNCHANGED <<exceptions, audit, handed>>

\* recordApprove leaves a reason code of an earlier rejection in place.
RecordApprove(o, s, a) ==
    /\ rows[s] # None
    /\ rows' = [rows EXCEPT ![s].status = "approved", ![s].approver = a]
    /\ Begin(o, [Idle EXCEPT !.pc = "audit", !.s = s, !.to = "approved"])
    /\ UNCHANGED <<exceptions, audit, handed>>

\* Mutant of RecordReject: the triage reason is only audited, not stored.
RecordRejectNoReason(o, s, a) ==
    /\ rows[s] # None
    /\ rows' = [rows EXCEPT ![s].status = "rejected", ![s].approver = a]
    /\ Begin(o, [Idle EXCEPT !.pc = "audit", !.s = s, !.to = "rejected"])
    /\ UNCHANGED <<exceptions, audit, handed>>

\* recordReject stores the triage reason.
RecordReject(o, s, a) ==
    /\ rows[s] # None
    /\ rows' = [rows EXCEPT ![s].status = "rejected", ![s].approver = a,
                            ![s].reason = TRUE]
    /\ Begin(o, [Idle EXCEPT !.pc = "audit", !.s = s, !.to = "rejected"])
    /\ UNCHANGED <<exceptions, audit, handed>>

\* The decisionType of the audit entry: "change" for a reapply.
AuditType(to) == CASE to = "none"     -> "change"
                   [] to = "rejected" -> "rejection"
                   [] OTHER           -> "approval"

\* The audit logger takes the entry; a decision goes on to its hook.
Audit(o) ==
    /\ ops[o].pc = "audit"
    /\ audit' = audit \union {<<ops[o].s, AuditType(ops[o].to)>>}
    /\ IF ops[o].to = "approved" THEN Continue(o, "hook") ELSE End(o)
    /\ UNCHANGED <<rows, exceptions, handed, requests>>

\* What the audit entry of a request in flight is about.
Audited(op) == IF op.pc = "audit" THEN op.s ELSE op.e

\* Mutant of AuditFails: the error is swallowed, like a hook's.
AuditFailsSilently(o) ==
    /\ AuditMayFail
    /\ ops[o].pc \in {"audit", "auditException"}
    /\ audit' = audit \union {<<Audited(ops[o]), "refused">>}
    /\ IF ops[o].to = "approved" /\ ops[o].pc = "audit" THEN Continue(o, "hook") ELSE End(o)
    /\ UNCHANGED <<rows, exceptions, handed, requests>>

\* The audit logger rejects: so does the request, after its update.
AuditFails(o) ==
    /\ AuditMayFail
    /\ ops[o].pc \in {"audit", "auditException"}
    /\ audit' = audit \union {<<Audited(ops[o]), "refused">>}
    /\ End(o)
    /\ UNCHANGED <<rows, exceptions, handed, requests>>

\* onApproved gets the row as the update returned it; its errors are swallowed.
OnApproved(o) ==
    /\ ops[o].pc = "hook"
    /\ handed' = handed \union {ops[o].s}
    /\ End(o)
    /\ UNCHANGED <<rows, exceptions, audit, requests>>

-----------------------------------------------------------------------------
(* Exception requests *)

\* submitException inserts the request, then marks the original submission,
\* then audits.
SubmitException(o, e, original) ==
    /\ exceptions[e] = None
    /\ exceptions' = [exceptions EXCEPT
                         ![e] = [original |-> original, decision |-> "none"]]
    /\ Begin(o, [Idle EXCEPT !.pc = IF original = None THEN "auditException" ELSE "mark",
                             !.s = original, !.e = e, !.to = "override"])
    /\ UNCHANGED <<rows, audit, handed>>

\* Mutant of MarkOverridden: the original is marked by its own id's exception.
MarkOverriddenOther(o) ==
    /\ ops[o].pc = "mark"
    /\ \E e \in Exceptions :
          rows' = IF rows[ops[o].s] = None THEN rows
                  ELSE [rows EXCEPT ![ops[o].s].status = "override",
                                    ![ops[o].s].exception = e]
    /\ Continue(o, "auditException")
    /\ UNCHANGED <<exceptions, audit, handed, requests>>

\* The original submission, if there is one, points to the exception request.
MarkOverridden(o) ==
    /\ ops[o].pc = "mark"
    /\ rows' = IF rows[ops[o].s] = None THEN rows
               ELSE [rows EXCEPT ![ops[o].s].status = "override",
                                 ![ops[o].s].exception = ops[o].e]
    /\ Continue(o, "auditException")
    /\ UNCHANGED <<exceptions, audit, handed, requests>>

\* decideException updates the request whether or not it is decided already.
DecideException(o, e, decision) ==
    /\ exceptions[e] # None
    /\ exceptions' = [exceptions EXCEPT ![e].decision = decision]
    /\ Begin(o, [Idle EXCEPT !.pc = "auditException", !.s = exceptions[e].original,
                             !.e = e, !.to = decision])
    /\ UNCHANGED <<rows, audit, handed>>

\* Mutant of AuditException: the entry is written after the cascade, or never.
AuditExceptionSkipped(o) ==
    /\ ops[o].pc = "auditException"
    /\ IF ops[o].to = "override" \/ ops[o].s = None THEN End(o) ELSE Continue(o, "cascade")
    /\ UNCHANGED <<rows, exceptions, audit, handed, requests>>

\* The audit entry says what happened to the exception request.
AuditException(o) ==
    /\ ops[o].pc = "auditException"
    /\ audit' = audit \union {<<ops[o].e, CASE ops[o].to = "override" -> "start"
                                            [] ops[o].to = "approved" -> "change"
                                            [] ops[o].to = "rejected" -> "stop">>}
    /\ IF ops[o].to = "override" \/ ops[o].s = None THEN End(o) ELSE Continue(o, "cascade")
    /\ UNCHANGED <<rows, exceptions, handed, requests>>

\* The outcome reaches the original submission; onExceptionApproved is external
\* and changes nothing here.
Cascade(o) ==
    /\ ops[o].pc = "cascade"
    /\ rows' = IF rows[ops[o].s] = None THEN rows
               ELSE [rows EXCEPT ![ops[o].s].status = ops[o].to]
    /\ End(o)
    /\ UNCHANGED <<exceptions, audit, handed, requests>>

-----------------------------------------------------------------------------
OpStep(o) == \/ \E a \in Approvers \union {None} : SubmitEvaluated(o, a)
             \/ ReapplyEvaluated(o) \/ Audit(o) \/ AuditFails(o) \/ OnApproved(o)
             \/ MarkOverridden(o) \/ AuditException(o) \/ Cascade(o)

Request(o) ==
    \/ \E s \in Submissions, c \in Contents : Submit(o, s, c) \/ Reapply(o, s, c)
    \/ \E s \in Submissions, a \in Approvers :
          \/ RecordApprove(o, s, a) \/ RecordReject(o, s, a)
          \/ \E action \in DOMAIN DecisionStatus : Decide(o, s, action, a)
    \/ \E e \in Exceptions :
          \/ \E s \in Submissions \union {None} : SubmitException(o, e, s)
          \/ \E decision \in {"approved", "rejected"} : DecideException(o, e, decision)

Next == \E o \in Ops : OpStep(o) \/ Request(o)

Spec == Init /\ [][Next]_vars

-----------------------------------------------------------------------------
(* Properties *)

Exists(s) == rows[s] # None

\* Overlapping reapplies each replace text, check and status in one update: the
\* stored check is always about the stored text, and a submission that waits
\* for review or for a fix does so because of that very check.
CheckMatchesContent ==
    \A s \in Submissions : Exists(s) =>
        /\ rows[s].check = rows[s].content
        /\ rows[s].status \in {"lint_running", "under_review"}
              => rows[s].status = Verdict(rows[s].content)

\* A rejection carries a reason code, unless it came down from an exception
\* request whose own "stop" is in the audit log.
RejectedHasReason ==
    \A s \in Submissions : Exists(s) /\ rows[s].status = "rejected" /\ ~rows[s].reason =>
        \E e \in Exceptions : /\ <<e, "stop">> \in audit
                              /\ exceptions[e] # None /\ exceptions[e].original = s

\* What was handed to the deploy gate has an approval in the audit log, even
\* if the logger fails now and then.
HandedWasAudited == \A s \in handed : <<s, "approval">> \in audit

\* The exception request a submission points to exists and is about it.
ExceptionIsAboutIt ==
    \A s \in Submissions : Exists(s) /\ rows[s].exception # None =>
        /\ exceptions[rows[s].exception] # None
        /\ exceptions[rows[s].exception].original = s

\* The decisions in the audit log that would explain a status of a submission:
\* its own, or that of an exception request about it.  A refused entry may have
\* been any of them.
Explained(s, own, ofException) ==
    \/ <<s, own>> \in audit \/ <<s, "refused">> \in audit
    \/ \E e \in Exceptions : /\ exceptions[e] # None /\ exceptions[e].original = s
                            /\ <<e, ofException>> \in audit

\* When no request on a submission is in flight, the decision it shows is in the
\* audit log, unless the logger refused an entry about it.
DecisionsAreAudited ==
    \A s \in Submissions :
        Exists(s) /\ (\A o \in Ops : ops[o].s # s) =>
            /\ rows[s].status \in {"approved", "deployed"} => Explained(s, "approval", "change")
            /\ rows[s].status = "rejected" => Explained(s, "rejection", "stop")
=============================================================================
