----------------------------- MODULE TaskReview -----------------------------
(***************************************************************************)
(* TaskReviewService (kit-chief-of-staff): requests on one extracted task, *)
(* each of which reads the task, decides by its status, and updates it     *)
(* whatever has happened to it meanwhile.  sync creates an issue elsewhere *)
(* between the two.                                                        *)
(***************************************************************************)
EXTENDS Naturals, FiniteSets

CONSTANTS Op,     \* requests that may be under way at once
          Issue,  \* bound: the issues there can be
          NoIssue

VARIABLES status,     \* of the task
          externalId,
          issues,     \* the issues created for the task
          op,
          approved,   \* history: somebody confirmed the task
          raced,      \* history: a rejection and a confirmation were under way at once
          contended   \* history: two syncs or two confirmations were, or a sync was not
                      \* recorded

tvars == <<status, externalId, issues, op, approved, raced, contended>>

NoOp == [pc |-> "idle"]
Kind == {"confirm", "reject", "sync"}
Now(o, kind, pc) == op[o] # NoOp /\ op[o].kind = kind /\ op[o].pc = pc

TypeOK ==
  /\ status \in {"pending_review", "confirmed", "rejected", "synced"}
  /\ issues \subseteq Issue /\ externalId \in Issue \cup {NoIssue}
  /\ op \in [Op -> {NoOp} \cup [pc : {"read", "update"}, kind : Kind, issue : Issue \cup {NoIssue}]
                   \cup [pc : {"create"}, kind : {"sync"}, issue : {NoIssue}]]

Init ==
  /\ status = "pending_review" /\ externalId = NoIssue /\ issues = {}
  /\ op = [o \in Op |-> NoOp]
  /\ approved = FALSE /\ raced = FALSE /\ contended = FALSE

Others(o, kinds) == {p \in Op \ {o} : op[p] # NoOp /\ op[p].kind \in kinds}
Leave(o) == op' = [op EXCEPT ![o] = NoOp]

Request(o, kind) ==
  /\ op[o] = NoOp
  /\ op' = [op EXCEPT ![o] = [pc |-> "read", kind |-> kind, issue |-> NoIssue]]
  /\ raced' = (raced \/ (kind # "sync" /\ Others(o, {"confirm", "reject"} \ {kind}) # {}))
  /\ contended' = (contended \/ (kind # "reject" /\ Others(o, {kind}) # {}))
  /\ UNCHANGED <<status, externalId, issues, approved>>

\* confirm and reject go on from pending_review, ...
ReadsPending(o) ==
  /\ \E kind \in {"confirm", "reject"} : Now(o, kind, "read")
  /\ IF status = "pending_review" THEN op' = [op EXCEPT ![o].pc = "update"] ELSE Leave(o)
  /\ UNCHANGED <<status, externalId, issues, approved, raced, contended>>

\* Mutant of ReadsConfirmed: what has not been rejected may be synced.
ReadsConfirmedOrPending(o) ==
  /\ Now(o, "sync", "read")
  /\ IF status # "rejected" THEN op' = [op EXCEPT ![o].pc = "create"] ELSE Leave(o)
  /\ UNCHANGED <<status, externalId, issues, approved, raced, contended>>

\* Mutant of ReadsConfirmed: a synced task may be synced again.
ReadsConfirmedOrSynced(o) ==
  /\ Now(o, "sync", "read")
  /\ IF status \in {"confirmed", "synced"} THEN op' = [op EXCEPT ![o].pc = "create"] ELSE Leave(o)
  /\ UNCHANGED <<status, externalId, issues, approved, raced, contended>>

\* ... sync from confirmed.
ReadsConfirmed(o) ==
  /\ Now(o, "sync", "read")
  /\ IF status = "confirmed" THEN op' = [op EXCEPT ![o].pc = "create"] ELSE Leave(o)
  /\ UNCHANGED <<status, externalId, issues, approved, raced, contended>>

TargetSyncs(o) ==
  /\ Now(o, "sync", "create")
  /\ \E i \in Issue \ issues :
       /\ issues' = issues \cup {i}
       /\ op' = [op EXCEPT ![o] = [pc |-> "update", kind |-> "sync", issue |-> i]]
  /\ UNCHANGED <<status, externalId, approved, raced, contended>>

TargetFails(o) ==
  /\ Now(o, "sync", "create")
  /\ Leave(o)
  /\ UNCHANGED <<status, externalId, issues, approved, raced, contended>>

UpdateStatus(o) ==
  /\ op[o].pc = "update"
  /\ status' = CASE op[o].kind = "confirm" -> "confirmed"
                 [] op[o].kind = "reject" -> "rejected"
                 [] op[o].kind = "sync" -> "synced"
  /\ externalId' = IF op[o].kind = "sync" THEN op[o].issue ELSE externalId
  /\ approved' = (approved \/ op[o].kind = "confirm")
  /\ Leave(o)
  /\ UNCHANGED <<issues, raced, contended>>

\* The store answers no, or rejects: an issue that was created stays.
UpdateFails(o) ==
  /\ op[o].pc = "update"
  /\ contended' = (contended \/ op[o].kind = "sync")
  /\ Leave(o)
  /\ UNCHANGED <<status, externalId, issues, approved, raced>>

OpStep(o) ==
  \/ ReadsPending(o) \/ ReadsConfirmed(o) \/ TargetSyncs(o) \/ TargetFails(o)
  \/ UpdateStatus(o) \/ UpdateFails(o)

Next == \E o \in Op : OpStep(o) \/ \E kind \in Kind : Request(o, kind)

-----------------------------------------------------------------------------
\* No issue is created elsewhere before a human has confirmed the task, and a
\* rejected task has an issue only if its rejection crossed a confirmation
\* ("a human always confirms before an issue is made", task-review.ts).
IssueNeedsConfirmation ==
  issues # {} => approved /\ (status = "rejected" => raced)

\* A task is synced only to an issue that exists, and only one issue was made
\* for it unless two syncs overlapped, one could not be recorded, or a second
\* confirmation came late and made the task ready for another sync.
SyncedToItsIssue ==
  /\ status = "synced" => externalId \in issues
  /\ Cardinality(issues) > 1 => contended
=============================================================================
