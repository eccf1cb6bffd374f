---------------------------- MODULE AgentActions ----------------------------
(***************************************************************************)
(* Plans and actions of packages/kit-ai-agent: planner.ts, approval.ts,    *)
(* executor.ts, monitor.ts and the action rollback of rollback.ts, over    *)
(* one PlanStore.                                                          *)
(*                                                                         *)
(* Every request reads a row, awaits, and then writes statuses without     *)
(* looking at the row again, so requests on one plan or action overlap.  A *)
(* request in flight is a record in "ops".  A request whose first check    *)
(* fails throws before it changes anything and is no step.                 *)
(*                                                                         *)
(* What the requests call (LLM, handlers, budget, policy, audit, log and   *)
(* store) is injected: it may reject if MayFail.  A plan's id is known to  *)
(* callers when generatePlan returns it, so plan and actions are inserted  *)
(* in one step here.                                                       *)
(***************************************************************************)
EXTENDS Naturals, FiniteSets

CONSTANTS
    Plans, Actions,
    PlanOf,        \* the plan of an action
    Needs,         \* approval_required of an action: "none" or a source
    Sources,       \* where approvals come from
    Handled,       \* actions whose type has a handler
    Ops,           \* identities of requests in flight
    MaxRequests,   \* bound: requests begun
    MayFail,       \* may what a request calls reject?
    None

ASSUME AgentActionsAssumption ==
    /\ PlanOf \in [Actions -> Plans]
    /\ Needs \in [Actions -> Sources \union {"none"}]
    /\ Handled \subseteq Actions
    /\ MaxRequests \in Nat
    /\ MayFail \in BOOLEAN
    /\ None \notin Plans \union Actions \union Sources

VARIABLES
    plans,     \* status of each plan
    actions,   \* status of each action
    ops,       \* the requests in flight
    log,       \* the execution log
    charged,   \* actions whose cost was added to the usage
    requests,  \* requests begun so far
    signed,    \* who approved what: a plan or an action, and from which source
    ran,       \* actions whose handler was called
    faulted    \* plans and actions with a request that ended in a rejection

vars == <<plans, actions, ops, log, charged, requests, signed, ran, faulted>>
history == <<signed, ran, faulted>>

PlanStatus == {"pending_approval", "approved", "rejected", "revised"}

ActionStatus == {"pending_approval", "approved", "rejected", "cancelled",
                 "executing", "completed", "failed", "rolled_back"}

\* What a request in flight awaits next, and on whose behalf.
Op == [pc     : {"idle", "approvePlan", "approveEach", "rejectPlan", "listPending",
                 "cancelEach", "decideAction", "revise", "insert", "guard",
                 "dispatch", "handler", "logSuccess", "complete", "charge",
                 "logFailure", "fail", "undo"},
       plan   : Plans \union {None},
       action : Actions \union {None},
       source : Sources \union {None},
       to     : Plans \union ActionStatus \union {None},
       todo   : SUBSET Actions]

Idle == [pc |-> "idle", plan |-> None, action |-> None, source |-> None,
         to |-> None, todo |-> {}]

TypeOK ==
    /\ plans \in [Plans -> PlanStatus \union {"absent"}]
    /\ actions \in [Actions -> ActionStatus \union {"absent"}]
    /\ ops \in [Ops -> Op]
    /\ log \subseteq Actions \X {"success", "failure"}
    /\ charged \subseteq Actions
    /\ requests \in 0..MaxRequests
    /\ signed \subseteq (Plans \union Actions) \X Sources
    /\ ran \subseteq Actions
    /\ faulted \subseteq Plans \union Actions

Init ==
    /\ plans = [p \in Plans |-> "absent"]
    /\ actions = [a \in Actions |-> "absent"]
    /\ ops = [o \in Ops |-> Idle]
    /\ log = {} /\ charged = {} /\ requests = 0
    /\ signed = {} /\ ran = {} /\ faulted = {}

ActionsOf(p) == {a \in Actions : PlanOf[a] = p}

Begin(o, op) ==
    /\ ops[o] = Idle
    /\ requests < MaxRequests
    /\ requests' = requests + 1
    /\ ops' = [ops EXCEPT ![o] = op]

At(o, pc) == ops[o].pc = pc
Continue(o, pc) == ops' = [ops EXCEPT ![o].pc = pc]
End(o) == ops' = [ops EXCEPT ![o] = Idle]

\* The request goes through the actions in todo one by one, then ends.
WorkThrough(o, pc, todo) ==
    ops' = [ops EXCEPT ![o] = IF todo = {} THEN Idle
                              ELSE [@ EXCEPT !.pc = pc, !.todo = todo]]

SetAction(a, status) == actions' = [actions EXCEPT ![a] = status]

-----------------------------------------------------------------------------
(* Planner *)

\* persistPlan: the plan and its actions, all pending.
Persist(p) ==
    /\ plans' = [plans EXCEPT ![p] = "pending_approval"]
    /\ actions' = [a \in Actions |-> IF a \in ActionsOf(p) THEN "pending_approval"
                                     ELSE actions[a]]

GeneratePlan(p) ==
    /\ plans[p] = "absent"
    /\ \A o \in Ops : ops[o].to # p
    /\ Persist(p)
    /\ UNCHANGED <<ops, log, charged, requests, history>>

\* regenerateWithFeedback reads the plan and asks the LLM for a new plan q.
Regenerate(o, p, q) ==
    /\ plans[p] # "absent" /\ plans[q] = "absent"
    /\ \A u \in Ops : ops[u].to # q
    /\ Begin(o, [Idle EXCEPT !.pc = "revise", !.plan = p, !.to = q])
    /\ UNCHANGED <<plans, actions, log, charged, history>>

\* The old plan is marked whatever became of it meanwhile.
Revise(o) ==
    /\ At(o, "revise")
    /\ plans' = [plans EXCEPT ![ops[o].plan] = "revised"]
    /\ Continue(o, "insert")
    /\ UNCHANGED <<actions, log, charged, requests, history>>

InsertRevision(o) ==
    /\ At(o, "insert")
    /\ Persist(ops[o].to)
    /\ End(o)
    /\ UNCHANGED <<log, charged, requests, history>>

-----------------------------------------------------------------------------
(* Approval service *)

ApprovePlan(o, p, source) ==
    /\ plans[p] = "pending_approval"
    /\ Begin(o, [Idle EXCEPT !.pc = "approvePlan", !.plan = p, !.source = source])
    /\ UNCHANGED <<plans, actions, log, charged, history>>

\* Mutant of ApprovedWith: the source an action requires is not looked at.
ApprovedWithAny(p, source) == ActionsOf(p)

\* The actions a plan approval covers.
ApprovedWith(p, source) == {a \in ActionsOf(p) : Needs[a] \in {"none", source}}

\* The plan is approved, then its actions are listed.
PlanApproved(o) ==
    LET p == ops[o].plan IN
    /\ At(o, "approvePlan")
    /\ plans' = [plans EXCEPT ![p] = "approved"]
    /\ signed' = signed \union {<<p, ops[o].source>>}
    /\ WorkThrough(o, "approveEach", ApprovedWith(p, ops[o].source))
    /\ UNCHANGED <<actions, log, charged, requests, ran, faulted>>

\* One action after the other is approved, whatever its status.
ApproveEach(o) ==
    /\ At(o, "approveEach")
    /\ \E a \in ops[o].todo :
          /\ SetAction(a, "approved")
          /\ WorkThrough(o, "approveEach", ops[o].todo \ {a})
    /\ UNCHANGED <<plans, log, charged, requests, history>>

RejectPlan(o, p) ==
    /\ plans[p] = "pending_approval"
    /\ Begin(o, [Idle EXCEPT !.pc = "rejectPlan", !.plan = p])
    /\ UNCHANGED <<plans, actions, log, charged, history>>

PlanRejected(o) ==
    /\ At(o, "rejectPlan")
    /\ plans' = [plans EXCEPT ![ops[o].plan] = "rejected"]
    /\ Continue(o, "listPending")
    /\ UNCHANGED <<actions, log, charged, requests, history>>

\* Mutant of ListPending: it cancels what is approved instead.
ListPendingApproved(o) ==
    /\ At(o, "listPending")
    /\ WorkThrough(o, "cancelEach", {a \in ActionsOf(ops[o].plan) :
                                        actions[a] = "approved"})
    /\ UNCHANGED <<plans, actions, log, charged, requests, history>>

\* The actions that are pending in the list read after the update.
ListPending(o) ==
    /\ At(o, "listPending")
    /\ WorkThrough(o, "cancelEach", {a \in ActionsOf(ops[o].plan) :
                                        actions[a] = "pending_approval"})
    /\ UNCHANGED <<plans, actions, log, charged, requests, history>>

CancelEach(o) ==
    /\ At(o, "cancelEach")
    /\ \E a \in ops[o].todo :
          /\ SetAction(a, "cancelled")
          /\ WorkThrough(o, "cancelEach", ops[o].todo \ {a})
    /\ UNCHANGED <<plans, log, charged, requests, history>>

\* approveAction and rejectAction; neither looks at the plan.
DecideAction(o, a, source, to) ==
    /\ actions[a] = "pending_approval"
    /\ Begin(o, [Idle EXCEPT !.pc = "decideAction", !.action = a,
                             !.source = source, !.to = to])
    /\ UNCHANGED <<plans, actions, log, charged, history>>

ActionDecided(o) ==
    /\ At(o, "decideAction")
    /\ SetAction(ops[o].action, ops[o].to)
    /\ signed' = IF ops[o].to = "approved"
                 THEN signed \union {<<ops[o].action, ops[o].source>>} ELSE signed
    /\ End(o)
    /\ UNCHANGED <<plans, log, charged, requests, ran, faulted>>

-----------------------------------------------------------------------------
(* Executor *)

ExecuteAction(o, a) ==
    /\ actions[a] = "approved"
    /\ Begin(o, [Idle EXCEPT !.pc = "guard", !.action = a])
    /\ UNCHANGED <<plans, actions, log, charged, history>>

\* Over budget, or the policy check says no.
GuardCancels(o) ==
    /\ At(o, "guard")
    /\ SetAction(ops[o].action, "cancelled")
    /\ End(o)
    /\ UNCHANGED <<plans, log, charged, requests, history>>

GuardPasses(o) ==
    /\ At(o, "guard")
    /\ SetAction(ops[o].action, "executing")
    /\ Continue(o, "dispatch")
    /\ UNCHANGED <<plans, log, charged, requests, history>>

\* Mutant of UnknownType: the action is left as it is.
UnknownTypeLeft(o) ==
    /\ At(o, "dispatch") /\ ops[o].action \notin Handled
    /\ End(o)
    /\ UNCHANGED <<plans, actions, log, charged, requests, history>>

\* No handler for the action's type: it fails, and executeAction throws.
UnknownType(o) ==
    /\ At(o, "dispatch") /\ ops[o].action \notin Handled
    /\ SetAction(ops[o].action, "failed")
    /\ End(o)
    /\ UNCHANGED <<plans, log, charged, requests, history>>

CallHandler(o) ==
    /\ At(o, "dispatch") /\ ops[o].action \in Handled
    /\ ran' = ran \union {ops[o].action}
    /\ Continue(o, "handler")
    /\ UNCHANGED <<plans, actions, log, charged, requests, signed, faulted>>

HandlerSucceeds(o) ==
    /\ At(o, "handler")
    /\ Continue(o, "logSuccess")
    /\ UNCHANGED <<plans, actions, log, charged, requests, history>>

\* Mutant of LogSuccess: the record is written with the result of a failure.
LogSuccessAsFailure(o) ==
    /\ At(o, "logSuccess")
    /\ log' = log \union {<<ops[o].action, "failure">>}
    /\ Continue(o, "complete")
    /\ UNCHANGED <<plans, actions, charged, requests, history>>

\* Audit, then the execution log.
LogSuccess(o) ==
    /\ At(o, "logSuccess")
    /\ log' = log \union {<<ops[o].action, "success">>}
    /\ Continue(o, "complete")
    /\ UNCHANGED <<plans, actions, charged, requests, history>>

\* Mutant of Complete: the usage is not added.
CompleteUncharged(o) ==
    /\ At(o, "complete")
    /\ SetAction(ops[o].action, "completed")
    /\ End(o)
    /\ UNCHANGED <<plans, log, charged, requests, history>>

Complete(o) ==
    /\ At(o, "complete")
    /\ SetAction(ops[o].action, "completed")
    /\ Continue(o, "charge")
    /\ UNCHANGED <<plans, log, charged, requests, history>>

\* addUsage, for a run that cost something.
Charge(o) ==
    /\ At(o, "charge")
    /\ charged' = charged \union {ops[o].action}
    /\ End(o)
    /\ UNCHANGED <<plans, actions, log, requests, history>>

\* The catch block is entered when the handler throws, and also when anything
\* after it in the try block rejects.
Throws(o) ==
    /\ At(o, "handler") \/ (MayFail /\ ops[o].pc \in {"logSuccess", "complete", "charge"})
    /\ Continue(o, "logFailure")
    /\ UNCHANGED <<plans, actions, log, charged, requests, history>>

LogFailure(o) ==
    /\ At(o, "logFailure")
    /\ log' = log \union {<<ops[o].action, "failure">>}
    /\ Continue(o, "fail")
    /\ UNCHANGED <<plans, actions, charged, requests, history>>

Fail(o) ==
    /\ At(o, "fail")
    /\ SetAction(ops[o].action, "failed")
    /\ End(o)
    /\ UNCHANGED <<plans, log, charged, requests, history>>

-----------------------------------------------------------------------------
(* Rollback, monitor, and rejections *)

\* rollbackAction reads a completed action and calls its strategy's handler.
RollbackAction(o, a) ==
    /\ actions[a] = "completed"
    /\ Begin(o, [Idle EXCEPT !.pc = "undo", !.action = a])
    /\ UNCHANGED <<plans, actions, log, charged, history>>

RolledBack(o) ==
    /\ At(o, "undo")
    /\ SetAction(ops[o].action, "rolled_back")
    /\ End(o)
    /\ UNCHANGED <<plans, log, charged, requests, history>>

\* haltAction cancels the action an anomaly points to, in whatever status it is.
Halt(a) ==
    /\ actions[a] # "absent"
    /\ SetAction(a, "cancelled")
    /\ UNCHANGED <<plans, ops, log, charged, requests, history>>

\* Outside of the executor's try block a rejection ends the request.
Rejects(o) ==
    /\ MayFail
    /\ ~At(o, "idle")
    /\ ops[o].pc \notin {"handler", "logSuccess", "complete", "charge"}
    /\ faulted' = faulted \union ({ops[o].plan, ops[o].action} \ {None})
    /\ End(o)
    /\ UNCHANGED <<plans, actions, log, charged, requests, signed, ran>>

-----------------------------------------------------------------------------
Request(o) ==
    \/ \E p \in Plans :
          \/ RejectPlan(o, p)
          \/ \E source \in Sources : ApprovePlan(o, p, source)
          \/ \E q \in Plans : Regenerate(o, p, q)
    \/ \E a \in Actions :
          \/ ExecuteAction(o, a) \/ RollbackAction(o, a)
          \/ DecideAction(o, a, None, "rejected")
          \/ \E source \in Sources : DecideAction(o, a, source, "approved")

OpStep(o) ==
    \/ Revise(o) \/ InsertRevision(o)
    \/ PlanApproved(o) \/ ApproveEach(o)
    \/ PlanRejected(o) \/ ListPending(o) \/ CancelEach(o)
    \/ ActionDecided(o)
    \/ GuardCancels(o) \/ GuardPasses(o) \/ UnknownType(o) \/ CallHandler(o)
    \/ HandlerSucceeds(o) \/ LogSuccess(o) \/ Complete(o) \/ Charge(o)
    \/ Throws(o) \/ LogFailure(o) \/ Fail(o)
    \/ RolledBack(o) \/ Rejects(o)

Next ==
    \/ \E p \in Plans : GeneratePlan(p)
    \/ \E a \in Actions : Halt(a)
    \/ \E o \in Ops : Request(o) \/ OpStep(o)

Spec == Init /\ [][Next]_vars

\* What a request awaits settles.
FairSpec == Spec /\ \A o \in Ops : WF_vars(OpStep(o))

-----------------------------------------------------------------------------
(* Properties *)

Busy(x) == \E o \in Ops : x \in {ops[o].plan, ops[o].action}

\* The two-stage approval of README.md: a handler is only called for an action
\* that somebody approved by itself, or whose plan was approved from the source
\* the action requires, however approvals, halts and executions overlap.
ExecutedHasApproval ==
    \A a \in ran : \E source \in Sources :
        \/ <<a, source>> \in signed
        \/ <<PlanOf[a], source>> \in signed /\ Needs[a] \in {"none", source}

\* The execution log explains every outcome, also when two executions, a
\* rollback and rejecting stores overlap.
OutcomeIsLogged ==
    \A a \in Actions :
        /\ actions[a] \in {"completed", "rolled_back"} => <<a, "success">> \in log
        /\ actions[a] = "failed" => a \notin Handled \/ <<a, "failure">> \in log

\* An action that ends up completed was paid for, unless reporting the failed
\* payment was rejected too.
CompletedIsCharged ==
    \A a \in Actions :
        actions[a] = "completed" /\ ~Busy(a) => a \in charged \union faulted

\* When an approval and a rejection of one plan overlap, the one that is written
\* last wins the plan, and nothing it covers is left waiting for a decision.
DecidedPlanIsSettled ==
    \A p \in Plans : ~Busy(p) /\ p \notin faulted =>
        \A a \in ActionsOf(p) : actions[a] = "pending_approval" =>
            plans[p] # "rejected" /\ (plans[p] = "approved" => Needs[a] # "none")

\* No action stays "executing", unless logging its failure was rejected.
ExecutingEnds ==
    \A a \in Actions :
        actions[a] = "executing" ~> actions[a] # "executing" \/ a \in faulted

\* "halt" cancels the action (monitor.ts:20): a cancelled action is not executed.
HaltStops ==
    [][\A a \in Actions : actions[a] = "cancelled" =>
          actions'[a] \notin {"executing", "completed"}]_vars
=============================================================================
