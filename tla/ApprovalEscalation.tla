------------------------- MODULE ApprovalEscalation -------------------------
(***************************************************************************)
(* The escalation job of packages/kit-approval-workflow                    *)
(* (src/escalation.ts) beside the requests of ApprovalWorkflow, on the     *)
(* same submission store.                                                  *)
(*                                                                         *)
(* A run of the job lists the overdue pending submissions once, with their *)
(* metadata, and then works through that list, awaiting the tenant's       *)
(* policy, the audit logger and the notifier for each of them.             *)
(***************************************************************************)
EXTENDS ApprovalWorkflow

CONSTANTS
    Jobs,            \* identities of job runs that can overlap
    NextApprover,    \* policy.next_approver_id
    NoPolicy,        \* submissions of tenants without a usable policy
    MaxEscalations   \* bound: escalations of one submission

ASSUME ApprovalEscalationAssumption ==
    /\ NextApprover \in Approvers
    /\ NoPolicy \subseteq Submissions
    /\ MaxEscalations \in Nat \ {0}

VARIABLES
    overdue,     \* submissions older than the timeout
    jobs,        \* the runs in flight
    escalations  \* how often each submission was escalated

jvars == <<overdue, jobs, escalations>>
evars == <<vars, jvars>>

\* DEFAULT_PENDING_STATUSES.
Pending == {"submitted", "lint_running", "under_review"}

\* What a run remembers of each listed submission: whether it was escalated.
Listed == [s : Submissions, escalated : BOOLEAN]

JobRun == [pc : {"idle", "policy", "report"},
           current : Listed \union {None},
           todo : SUBSET Listed]

IdleJob == [pc |-> "idle", current |-> None, todo |-> {}]

TypeOKE ==
    /\ TypeOK
    /\ overdue \subseteq Submissions
    /\ jobs \in [Jobs -> JobRun]
    /\ escalations \in [Submissions -> 0..MaxEscalations]

InitE ==
    /\ Init
    /\ overdue = {}
    /\ jobs = [j \in Jobs |-> IdleJob]
    /\ escalations = [s \in Submissions |-> 0]

\* The loop goes on with one of the remaining submissions, or ends.
Advance(j, todo) ==
    \/ /\ todo = {}
       /\ jobs' = [jobs EXCEPT ![j] = IdleJob]
    \/ \E l \in todo :
          jobs' = [jobs EXCEPT ![j] =
                      [pc |-> "policy", current |-> l, todo |-> todo \ {l}]]

TimeoutPasses(s) ==
    /\ rows[s] # None
    /\ s \notin overdue
    /\ overdue' = overdue \union {s}
    /\ UNCHANGED <<vars, jobs, escalations>>

\* runEscalationJob begins: listPendingOlderThan.
ListPending(j) ==
    LET listed == {s \in overdue : rows[s].status \in Pending} IN
    /\ jobs[j].pc = "idle"
    /\ listed # {}
    /\ Advance(j, {[s |-> s, escalated |-> rows[s].escalated] : s \in listed})
    /\ UNCHANGED <<vars, overdue, escalations>>

\* Mutant of SkipListed: an unusable policy ends the whole run.
SkipListedAndStop(j) ==
    /\ jobs[j].pc = "policy"
    /\ jobs[j].current.s \in NoPolicy \/ jobs[j].current.escalated
    /\ jobs' = [jobs EXCEPT ![j] = IdleJob]
    /\ UNCHANGED <<vars, overdue, escalations>>

\* getPolicy finds no enabled policy or rejects, or the listed metadata says
\* that the submission was escalated: skip it.
SkipListed(j) ==
    /\ jobs[j].pc = "policy"
    /\ jobs[j].current.s \in NoPolicy \/ jobs[j].current.escalated
    /\ Advance(j, jobs[j].todo)
    /\ UNCHANGED <<vars, overdue, escalations>>

\* Mutant of Escalate: the approver is changed, the flag is not set.
EscalateUnmarked(j) ==
    LET s == jobs[j].current.s IN
    /\ jobs[j].pc = "policy"
    /\ s \notin NoPolicy /\ ~jobs[j].current.escalated
    /\ escalations[s] < MaxEscalations
    /\ rows' = [rows EXCEPT ![s].approver = NextApprover]
    /\ escalations' = [escalations EXCEPT ![s] = @ + 1]
    /\ jobs' = [jobs EXCEPT ![j].pc = "report"]
    /\ UNCHANGED <<exceptions, ops, audit, handed, requests, overdue>>

\* The update: approver and metadata, from the listed snapshot.
Escalate(j) ==
    LET s == jobs[j].current.s IN
    /\ jobs[j].pc = "policy"
    /\ s \notin NoPolicy /\ ~jobs[j].current.escalated
    /\ escalations[s] < MaxEscalations
    /\ rows' = [rows EXCEPT ![s].approver = NextApprover, ![s].escalated = TRUE]
    /\ escalations' = [escalations EXCEPT ![s] = @ + 1]
    /\ jobs' = [jobs EXCEPT ![j].pc = "report"]
    /\ UNCHANGED <<exceptions, ops, audit, handed, requests, overdue>>

\* Audit entry and notification; an error of either is caught, the loop goes on.
Report(j) ==
    /\ jobs[j].pc = "report"
    /\ \/ audit' = audit \union {<<jobs[j].current.s, "change">>}
       \/ AuditMayFail /\ audit' = audit
    /\ Advance(j, jobs[j].todo)
    /\ UNCHANGED <<rows, exceptions, ops, handed, requests, overdue, escalations>>

JobStep(j) == ListPending(j) \/ SkipListed(j) \/ Escalate(j) \/ Report(j)

NextE ==
    \/ Next /\ UNCHANGED jvars
    \/ \E j \in Jobs : JobStep(j)
    \/ \E s \in Submissions : TimeoutPasses(s)

SpecE == InitE /\ [][NextE]_evars

\* The job is run again and again, and what it awaits settles.
FairSpecE == SpecE /\ \A j \in Jobs : WF_evars(JobStep(j))

-----------------------------------------------------------------------------
(* Properties *)

\* "After escalating we SET metadata.escalated = true ... re-escalated on every
\* run -- a latent bug fixed here" (escalation.ts:10-12): no submission is
\* escalated twice, whatever happens to it between the runs.
EscalatedOnce == \A s \in Submissions : escalations[s] <= 1

\* A submission that stays undecided past the timeout is escalated, even if the
\* policy of another tenant's submission in the same list is missing or fails.
OverdueIsEscalated ==
    \A s \in Submissions \ NoPolicy :
        s \in overdue /\ rows[s].status \in Pending
            ~> rows[s] # None /\ (rows[s].escalated \/ rows[s].status \notin Pending)
=============================================================================
