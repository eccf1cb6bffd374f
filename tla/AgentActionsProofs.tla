------------------------- MODULE AgentActionsProofs -------------------------
(***************************************************************************)
(* Proofs about AgentActions, for any plans, actions, sources of approval, *)
(* handlers and overlapping requests, rejecting or not: what a handler is  *)
(* called for, what the log and the usage say of an outcome, and what a    *)
(* decision about a plan leaves undecided.                                 *)
(***************************************************************************)
EXTENDS AgentActions, TLAPS

\* Somebody approved the action, or its plan from the source it requires.
ApprovedBy(a, source) ==
    \/ <<a, source>> \in signed
    \/ <<PlanOf[a], source>> \in signed /\ Needs[a] \in {"none", source}
Approved(a) == \E source \in Sources : ApprovedBy(a, source)

OfPlan == {"approvePlan", "approveEach", "rejectPlan", "listPending", "cancelEach", "revise", "insert"}
OfAction == {"decideAction", "guard", "dispatch", "handler", "logSuccess", "complete", "charge",
             "logFailure", "fail", "undo"}

\* What a request that awaits carries along from what it read before.  It writes
\* without looking again, so this is all that its write can rest on.
Carries(x) ==
    /\ x.pc \in OfPlan => x.plan \in Plans
    /\ x.pc \in OfAction => x.action \in Actions
    /\ x.pc = "approvePlan" => x.source \in Sources
    /\ x.pc = "decideAction" => x.to = "rejected" \/ (x.to = "approved" /\ x.source \in Sources)
    /\ x.pc = "approveEach" => \A a \in x.todo : Approved(a)
    /\ x.pc \in {"guard", "dispatch"} => Approved(x.action)
    /\ x.pc \in {"complete", "undo"} => <<x.action, "success">> \in log
    /\ x.pc = "fail" => <<x.action, "failure">> \in log

RequestsCarry == \A o \in Ops : Carries(ops[o])

ApprovedIsSigned == \A a \in Actions : actions[a] = "approved" => Approved(a)

\* Until it is paid for, somebody is about to charge a completed action or to
\* mark it as failed.
Pays(o, a) == ops[o].action = a /\ ops[o].pc \in {"charge", "logFailure", "fail"}
CompletedIsPaid ==
    \A a \in Actions : actions[a] = "completed" =>
        a \in charged \union faulted \/ \E o \in Ops : Pays(o, a)

\* Whoever decided a plan last works off what is pending of it.
Settles(o, p, a) ==
    /\ ops[o].plan = p
    /\ \/ plans[p] = "rejected" /\ (At(o, "listPending") \/ (At(o, "cancelEach") /\ a \in ops[o].todo))
       \/ plans[p] = "approved" /\ At(o, "approveEach") /\ a \in ops[o].todo
Unsettled(p, a) ==
    /\ actions[a] = "pending_approval"
    /\ plans[p] = "rejected" \/ (plans[p] = "approved" /\ Needs[a] = "none")
DecidedIsWorkedOff ==
    \A p \in Plans : \A a \in ActionsOf(p) :
        Unsettled(p, a) => p \in faulted \/ \E o \in Ops : Settles(o, p, a)

IInv ==
    /\ TypeOK
    /\ RequestsCarry
    /\ ApprovedIsSigned
    /\ ExecutedHasApproval
    /\ OutcomeIsLogged
    /\ CompletedIsPaid
    /\ DecidedIsWorkedOff

-----------------------------------------------------------------------------
\* How a request begins, goes on and ends.
OthersStay(o) == \A u \in Ops : u # o => ops'[u] = ops[u]

SameBut(x, y, pc) == y.pc = pc /\ y.plan = x.plan /\ y.action = x.action /\ y.source = x.source /\ y.to = x.to

LEMMA OpFields ==
  ASSUME NEW x \in Op
  PROVE  /\ x.pc \in OfPlan \union OfAction \union {"idle"} /\ x.plan \in Plans \union {None}
         /\ x.action \in Actions \union {None} /\ x.source \in Sources \union {None}
         /\ x.to \in Plans \union ActionStatus \union {None} /\ x.todo \subseteq Actions
  BY DEF Op, OfPlan, OfAction

LEMMA IdleTyped == Idle \in Op /\ Idle.pc = "idle" /\ Idle.plan = None /\ Idle.action = None /\ Idle.todo = {}
<1>1. Idle \in Op
  BY DEF Idle, Op
<1> QED
  BY <1>1 DEF Idle

LEMMA Begun ==
  ASSUME TypeOK, NEW o \in Ops, NEW x \in Op, Begin(o, x)
  PROVE  /\ ops' \in [Ops -> Op] /\ ops'[o] = x /\ OthersStay(o) /\ requests' \in 0..MaxRequests /\ ops[o] = Idle
  BY AgentActionsAssumption DEF TypeOK, Begin, OthersStay

LEMMA Continued ==
  ASSUME TypeOK, NEW o \in Ops, NEW pc \in OfPlan \union OfAction, Continue(o, pc)
  PROVE  /\ ops' \in [Ops -> Op] /\ SameBut(ops[o], ops'[o], pc) /\ ops'[o].todo = ops[o].todo /\ OthersStay(o)
<1> DEFINE x == [ops[o] EXCEPT !.pc = pc]
<1>1. x \in Op /\ SameBut(ops[o], x, pc) /\ x.todo = ops[o].todo
  BY DEF TypeOK, Op, OfPlan, OfAction, SameBut
<1>2. ops' = [ops EXCEPT ![o] = x]
  BY DEF Continue
<1> HIDE DEF x
<1> QED
  BY <1>1, <1>2 DEF TypeOK, OthersStay

LEMMA Ended ==
  ASSUME TypeOK, NEW o \in Ops, End(o)
  PROVE  ops' \in [Ops -> Op] /\ ops'[o] = Idle /\ OthersStay(o)
  BY IdleTyped DEF TypeOK, End, OthersStay

LEMMA WorkedThrough ==
  ASSUME TypeOK, NEW o \in Ops, NEW pc \in OfPlan, NEW todo \in SUBSET Actions, WorkThrough(o, pc, todo)
  PROVE  /\ ops' \in [Ops -> Op] /\ OthersStay(o)
         /\ \/ todo = {} /\ ops'[o] = Idle
            \/ todo # {} /\ SameBut(ops[o], ops'[o], pc) /\ ops'[o].todo = todo
<1> DEFINE x == [ops[o] EXCEPT !.pc = pc, !.todo = todo]
<1>1. x \in Op /\ SameBut(ops[o], x, pc) /\ x.todo = todo
  BY DEF TypeOK, Op, OfPlan, SameBut
<1>2. ops' = [ops EXCEPT ![o] = IF todo = {} THEN Idle ELSE x]
  BY DEF WorkThrough
<1> HIDE DEF x
<1> QED
  BY <1>1, <1>2, IdleTyped DEF TypeOK, OthersStay

\* The requests as they begin.
LEMMA NewReviseOp ==
  ASSUME NEW p \in Plans, NEW q \in Plans
  PROVE  [Idle EXCEPT !.pc = "revise", !.plan = p, !.to = q] \in Op
  BY DEF Idle, Op

LEMMA NewApproveOp ==
  ASSUME NEW p \in Plans, NEW source \in Sources
  PROVE  [Idle EXCEPT !.pc = "approvePlan", !.plan = p, !.source = source] \in Op
  BY DEF Idle, Op

LEMMA NewRejectOp ==
  ASSUME NEW p \in Plans
  PROVE  [Idle EXCEPT !.pc = "rejectPlan", !.plan = p] \in Op
  BY DEF Idle, Op

LEMMA NewDecideOp ==
  ASSUME NEW a \in Actions, NEW source \in Sources \union {None}, NEW to \in {"approved", "rejected"}
  PROVE  [Idle EXCEPT !.pc = "decideAction", !.action = a, !.source = source, !.to = to] \in Op
  BY DEF Idle, Op, ActionStatus

LEMMA NewActionOp ==
  ASSUME NEW a \in Actions, NEW pc \in {"guard", "undo"}
  PROVE  [Idle EXCEPT !.pc = pc, !.action = a] \in Op
  BY DEF Idle, Op

\* What a new request carries is what its first check has read.
LEMMA RequestCarries ==
  ASSUME TypeOK, ApprovedIsSigned, OutcomeIsLogged, NEW o \in Ops, Request(o)
  PROVE  /\ ops' \in [Ops -> Op] /\ OthersStay(o) /\ requests' \in 0..MaxRequests /\ Carries(ops'[o]) /\ ops[o] = Idle
         /\ UNCHANGED <<plans, actions, log, charged, history>>
         /\ ops'[o].pc \in {"rejectPlan", "approvePlan", "revise", "guard", "undo", "decideAction"}
<1> DEFINE Goal == /\ ops' \in [Ops -> Op] /\ OthersStay(o) /\ requests' \in 0..MaxRequests /\ Carries(ops'[o]) /\ ops[o] = Idle
                   /\ UNCHANGED <<plans, actions, log, charged, history>>
                   /\ ops'[o].pc \in {"rejectPlan", "approvePlan", "revise", "guard", "undo", "decideAction"}
<1>g. ASSUME NEW x \in Op, Begin(o, x), Carries(x), UNCHANGED <<plans, actions, log, charged, history>>,
             x.pc \in {"rejectPlan", "approvePlan", "revise", "guard", "undo", "decideAction"}
      PROVE  Goal
  BY <1>g, Begun
<1> HIDE DEF Goal
<1>1. ASSUME NEW p \in Plans, RejectPlan(o, p) PROVE Goal
  <2> DEFINE x == [Idle EXCEPT !.pc = "rejectPlan", !.plan = p]
  <2>1. x \in Op
    BY NewRejectOp
  <2>2. x.pc = "rejectPlan" /\ x.plan = p
    BY DEF Idle
  <2>3. Carries(x)
    BY <2>2 DEF Carries, OfPlan, OfAction
  <2> QED
    BY <1>1, <1>g, <2>1, <2>2, <2>3 DEF RejectPlan
<1>2. ASSUME NEW p \in Plans, NEW source \in Sources, ApprovePlan(o, p, source) PROVE Goal
  <2> DEFINE x == [Idle EXCEPT !.pc = "approvePlan", !.plan = p, !.source = source]
  <2>1. x \in Op
    BY NewApproveOp
  <2>2. x.pc = "approvePlan" /\ x.plan = p /\ x.source = source
    BY DEF Idle
  <2>3. Carries(x)
    BY <2>2 DEF Carries, OfPlan, OfAction
  <2> QED
    BY <1>2, <1>g, <2>1, <2>2, <2>3 DEF ApprovePlan
<1>3. ASSUME NEW p \in Plans, NEW q \in Plans, Regenerate(o, p, q) PROVE Goal
  <2> DEFINE x == [Idle EXCEPT !.pc = "revise", !.plan = p, !.to = q]
  <2>1. x \in Op
    BY NewReviseOp
  <2>2. x.pc = "revise" /\ x.plan = p
    BY DEF Idle
  <2>3. Carries(x)
    BY <2>2 DEF Carries, OfPlan, OfAction
  <2> QED
    BY <1>3, <1>g, <2>1, <2>2, <2>3 DEF Regenerate
<1>4. ASSUME NEW a \in Actions, ExecuteAction(o, a) PROVE Goal
  <2> DEFINE x == [Idle EXCEPT !.pc = "guard", !.action = a]
  <2>1. x \in Op
    BY NewActionOp
  <2>2. x.pc = "guard" /\ x.action = a
    BY DEF Idle
  <2>3. Carries(x)
    BY <1>4, <2>2 DEF ExecuteAction, ApprovedIsSigned, Carries, OfPlan, OfAction
  <2> QED
    BY <1>4, <1>g, <2>1, <2>2, <2>3 DEF ExecuteAction
<1>5. ASSUME NEW a \in Actions, RollbackAction(o, a) PROVE Goal
  <2> DEFINE x == [Idle EXCEPT !.pc = "undo", !.action = a]
  <2>1. x \in Op
    BY NewActionOp
  <2>2. x.pc = "undo" /\ x.action = a
    BY DEF Idle
  <2>3. Carries(x)
    BY <1>5, <2>2 DEF RollbackAction, OutcomeIsLogged, Carries, OfPlan, OfAction
  <2> QED
    BY <1>5, <1>g, <2>1, <2>2, <2>3 DEF RollbackAction
<1>6. ASSUME NEW a \in Actions, NEW source \in Sources \union {None}, NEW to \in {"approved", "rejected"},
             to = "approved" => source \in Sources, DecideAction(o, a, source, to)
      PROVE  Goal
  <2> DEFINE x == [Idle EXCEPT !.pc = "decideAction", !.action = a, !.source = source, !.to = to]
  <2>1. x \in Op
    BY NewDecideOp
  <2>2. x.pc = "decideAction" /\ x.action = a /\ x.source = source /\ x.to = to
    BY DEF Idle
  <2>3. Carries(x)
    BY <1>6, <2>2 DEF Carries, OfPlan, OfAction
  <2> QED
    BY <1>6, <1>g, <2>1, <2>2, <2>3 DEF DecideAction
<1>7. Goal
  BY <1>1, <1>2, <1>3, <1>4, <1>5, <1>6 DEF Request
<1> QED
  BY <1>7 DEF Goal

\* What is approved or logged stays so.
LEMMA HistoryGrows == ASSUME [Next]_vars PROVE signed \subseteq signed' /\ log \subseteq log'
<1>1. ASSUME NEW o \in Ops, Request(o) PROVE UNCHANGED <<signed, log>>
  BY <1>1 DEF Request, RejectPlan, ApprovePlan, Regenerate, ExecuteAction, RollbackAction, DecideAction, history
<1>2. ASSUME NEW o \in Ops, OpStep(o) PROVE signed \subseteq signed' /\ log \subseteq log'
  BY <1>2 DEF OpStep, Revise, InsertRevision, PlanApproved, ApproveEach, PlanRejected, ListPending, CancelEach, ActionDecided,
     GuardCancels, GuardPasses, UnknownType, CallHandler, HandlerSucceeds, LogSuccess, Complete, Charge, Throws, LogFailure,
     Fail, RolledBack, Rejects, history
<1> QED
  BY <1>1, <1>2 DEF Next, vars, history, GeneratePlan, Halt

LEMMA IdleCarries == ASSUME NEW o \in Ops, ops'[o] = Idle PROVE Carries(ops[o])'
<1>1. ops'[o].pc = "idle"
  BY IdleTyped
<1> QED
  BY <1>1 DEF Carries, OfPlan, OfAction

LEMMA StillCarries ==
  ASSUME [Next]_vars, NEW o \in Ops, Carries(ops[o]), ops'[o] = ops[o]
  PROVE  Carries(ops[o])'
  BY HistoryGrows DEF Carries, Approved, ApprovedBy

\* A step of a request carries on what the next one rests on.
LEMMA StepCarries ==
  ASSUME TypeOK, RequestsCarry, [Next]_vars, NEW o \in Ops, OpStep(o)
  PROVE  ops' \in [Ops -> Op] /\ OthersStay(o) /\ Carries(ops[o])'
<1> DEFINE Goal == ops' \in [Ops -> Op] /\ OthersStay(o) /\ Carries(ops[o])'
           x == ops[o]
           \* The pcs that nothing but plan or action is carried for.
           Plain == {"rejectPlan", "listPending", "cancelEach", "revise", "insert",
                     "handler", "logSuccess", "charge", "logFailure"}
<1>0. Carries(x) /\ x \in Op
  BY DEF RequestsCarry, TypeOK
<1>e. ASSUME End(o) PROVE Goal
  BY <1>e, Ended, IdleCarries
<1>c. ASSUME NEW pc \in Plain, Continue(o, pc),
             pc \in OfPlan => x.plan \in Plans, pc \in OfAction => x.action \in Actions
      PROVE  Goal
  <2>1. pc \in OfPlan \union OfAction
    BY DEF OfPlan, OfAction
  <2>2. ops' \in [Ops -> Op] /\ SameBut(x, ops'[o], pc) /\ OthersStay(o)
    BY <1>c, <2>1, Continued
  <2> QED
    BY <1>c, <2>2 DEF Carries, SameBut
<1>1. CASE InsertRevision(o) \/ ActionDecided(o) \/ GuardCancels(o) \/ UnknownType(o) \/ Charge(o) \/ Fail(o) \/ RolledBack(o) \/ Rejects(o)
  BY <1>e, <1>1 DEF InsertRevision, ActionDecided, GuardCancels, UnknownType, Charge, Fail, RolledBack, Rejects
<1>2. CASE Revise(o) \/ PlanRejected(o) \/ CallHandler(o) \/ HandlerSucceeds(o) \/ Complete(o) \/ Throws(o)
  <2>1. PICK pc \in Plain : Continue(o, pc) /\ (pc \in OfPlan => x.pc \in OfPlan) /\ (pc \in OfAction => x.pc \in OfAction)
    BY <1>2 DEF Revise, PlanRejected, CallHandler, HandlerSucceeds, Complete, Throws, At, OfPlan, OfAction
  <2> QED
    BY <1>0, <1>c, <2>1 DEF Carries
<1>3. CASE PlanApproved(o)
  <2>1. At(o, "approvePlan") /\ x.plan \in Plans /\ x.source \in Sources
    BY <1>0, <1>3 DEF PlanApproved, At, Carries, OfPlan
  <2>2. WorkThrough(o, "approveEach", ApprovedWith(x.plan, x.source)) /\ <<x.plan, x.source>> \in signed'
    BY <1>3 DEF PlanApproved
  <2>3. \A a \in ApprovedWith(x.plan, x.source) : a \in Actions /\ Approved(a)'
    BY <2>1, <2>2 DEF ApprovedWith, ActionsOf, Approved, ApprovedBy
  <2>4. ops' \in [Ops -> Op] /\ OthersStay(o)
        /\ \/ ops'[o] = Idle
           \/ SameBut(x, ops'[o], "approveEach") /\ ops'[o].todo = ApprovedWith(x.plan, x.source)
    BY <2>2, <2>3, WorkedThrough DEF OfPlan
  <2> QED
    BY <2>1, <2>3, <2>4, IdleCarries DEF Carries, SameBut, OfPlan, OfAction
<1>4. CASE ApproveEach(o)
  <2>1. PICK a \in x.todo : WorkThrough(o, "approveEach", x.todo \ {a})
    BY <1>4 DEF ApproveEach
  <2>2. x.plan \in Plans /\ x.todo \subseteq Actions /\ \A b \in x.todo : Approved(b)
    BY <1>0, <1>4, OpFields DEF ApproveEach, At, Carries, OfPlan
  <2>3. \A b \in x.todo : Approved(b)'
    BY <2>2, HistoryGrows DEF Approved, ApprovedBy
  <2>4. ops' \in [Ops -> Op] /\ OthersStay(o)
        /\ \/ ops'[o] = Idle
           \/ SameBut(x, ops'[o], "approveEach") /\ ops'[o].todo = x.todo \ {a}
    BY <2>1, <2>2, WorkedThrough DEF OfPlan
  <2> QED
    BY <2>2, <2>3, <2>4, IdleCarries DEF Carries, SameBut, OfPlan, OfAction
<1>5. CASE ListPending(o) \/ CancelEach(o)
  <2>1. x.plan \in Plans /\ x.todo \subseteq Actions
    BY <1>0, <1>5, OpFields DEF ListPending, CancelEach, At, Carries, OfPlan
  <2>2. PICK todo \in SUBSET Actions : WorkThrough(o, "cancelEach", todo)
    <3>1. CASE ListPending(o)
      BY <3>1 DEF ListPending, ActionsOf
    <3>2. CASE CancelEach(o)
      BY <2>1, <3>2 DEF CancelEach
    <3> QED
      BY <1>5, <3>1, <3>2
  <2>3. ops' \in [Ops -> Op] /\ OthersStay(o) /\ (ops'[o] = Idle \/ SameBut(x, ops'[o], "cancelEach"))
    BY <2>2, WorkedThrough DEF OfPlan
  <2> QED
    BY <2>1, <2>3, IdleCarries DEF Carries, SameBut, OfPlan, OfAction
<1>6. CASE GuardPasses(o)
  <2>1. x.action \in Actions /\ Approved(x.action)
    BY <1>0, <1>6 DEF GuardPasses, At, Carries, OfAction
  <2>2. ops' \in [Ops -> Op] /\ OthersStay(o) /\ SameBut(x, ops'[o], "dispatch")
    BY <1>6, Continued DEF GuardPasses, OfAction
  <2>3. Approved(ops[o].action)'
    BY <2>1, <2>2, HistoryGrows DEF Approved, ApprovedBy, SameBut
  <2> QED
    BY <2>1, <2>2, <2>3 DEF Carries, SameBut, OfPlan, OfAction
<1>7. CASE LogSuccess(o) \/ LogFailure(o)
  <2>1. x.action \in Actions
    BY <1>0, <1>7 DEF LogSuccess, LogFailure, At, Carries, OfAction
  <2>2. CASE LogSuccess(o)
    <3>1. ops' \in [Ops -> Op] /\ OthersStay(o) /\ SameBut(x, ops'[o], "complete")
      BY <2>2, Continued DEF LogSuccess, OfAction
    <3>2. <<x.action, "success">> \in log'
      BY <2>2 DEF LogSuccess
    <3> QED
      BY <2>1, <3>1, <3>2 DEF Carries, SameBut, OfPlan, OfAction
  <2>3. CASE LogFailure(o)
    <3>1. ops' \in [Ops -> Op] /\ OthersStay(o) /\ SameBut(x, ops'[o], "fail")
      BY <2>3, Continued DEF LogFailure, OfAction
    <3>2. <<x.action, "failure">> \in log'
      BY <2>3 DEF LogFailure
    <3> QED
      BY <2>1, <3>1, <3>2 DEF Carries, SameBut, OfPlan, OfAction
  <2> QED
    BY <1>7, <2>2, <2>3
<1> QED
  BY <1>1, <1>2, <1>3, <1>4, <1>5, <1>6, <1>7 DEF OpStep

LEMMA RequestsStep ==
  TypeOK /\ RequestsCarry /\ ApprovedIsSigned /\ OutcomeIsLogged /\ [Next]_vars => RequestsCarry' /\ ops' \in [Ops -> Op]
<1> SUFFICES ASSUME TypeOK, RequestsCarry, ApprovedIsSigned, OutcomeIsLogged, [Next]_vars
             PROVE  RequestsCarry' /\ ops' \in [Ops -> Op]
  OBVIOUS
<1>1. CASE ops' = ops
  BY <1>1, StillCarries DEF RequestsCarry, TypeOK
<1>2. ASSUME NEW o \in Ops, ops' \in [Ops -> Op], OthersStay(o), Carries(ops[o])'
      PROVE  RequestsCarry' /\ ops' \in [Ops -> Op]
  <2>1. ASSUME NEW u \in Ops PROVE Carries(ops[u])'
    BY <1>2, StillCarries DEF RequestsCarry, OthersStay
  <2> QED
    BY <1>2, <2>1 DEF RequestsCarry
<1>3. ASSUME NEW o \in Ops, Request(o) PROVE RequestsCarry' /\ ops' \in [Ops -> Op]
  <2>1. /\ ops' \in [Ops -> Op] /\ OthersStay(o) /\ Carries(ops'[o])
        /\ UNCHANGED <<plans, actions, log, charged, history>>
    BY <1>3, RequestCarries
  <2>2. Carries(ops[o])'
    BY <2>1 DEF Carries, Approved, ApprovedBy, history
  <2> QED
    BY <1>2, <2>1, <2>2
<1>4. ASSUME NEW o \in Ops, OpStep(o) PROVE RequestsCarry' /\ ops' \in [Ops -> Op]
  BY <1>2, <1>4, StepCarries
<1> QED
  BY <1>1, <1>3, <1>4 DEF Next, vars, GeneratePlan, Halt

\* How the status of an action changes.
Changed(b) ==
  \/ actions'[b] \in {"cancelled", "rejected", "executing"}
  \/ actions'[b] = "pending_approval" /\ plans'[PlanOf[b]] = "pending_approval"
  \/ actions'[b] = "approved" /\ Approved(b)'
  \/ actions'[b] = "completed" /\ \E o \in Ops : Complete(o) /\ ops[o].action = b
  \/ actions'[b] = "rolled_back" /\ <<b, "success">> \in log
  \/ actions'[b] = "failed" /\ (b \notin Handled \/ <<b, "failure">> \in log)

LEMMA SetActionTyped ==
  ASSUME TypeOK, NEW a, NEW status \in ActionStatus, SetAction(a, status)
  PROVE  /\ actions' \in [Actions -> ActionStatus \union {"absent"}]
         /\ \A b \in Actions : (b = a /\ actions'[b] = status) \/ actions'[b] = actions[b]
  BY DEF TypeOK, SetAction

LEMMA PersistTyped ==
  ASSUME TypeOK, NEW p, Persist(p)
  PROVE  /\ actions' \in [Actions -> ActionStatus \union {"absent"}]
         /\ plans' \in [Plans -> PlanStatus \union {"absent"}]
         /\ \A b \in Actions : actions'[b] = actions[b] \/ (actions'[b] = "pending_approval" /\ PlanOf[b] = p /\ plans'[PlanOf[b]] = "pending_approval")
         /\ \A q \in Plans : plans'[q] = plans[q] \/ plans'[q] = "pending_approval"
  BY AgentActionsAssumption DEF TypeOK, Persist, ActionsOf, ActionStatus, PlanStatus

LEMMA ActionsStep ==
  ASSUME TypeOK, RequestsCarry, [Next]_vars
  PROVE  /\ actions' \in [Actions -> ActionStatus \union {"absent"}]
         /\ \A b \in Actions : actions'[b] = actions[b] \/ Changed(b)
<1> DEFINE Goal == /\ actions' \in [Actions -> ActionStatus \union {"absent"}]
                   /\ \A b \in Actions : actions'[b] = actions[b] \/ Changed(b)
<1>s. ASSUME NEW a \in Actions, NEW status \in ActionStatus, SetAction(a, status), actions'[a] = status => Changed(a)
      PROVE  Goal
  BY <1>s, SetActionTyped
<1>p. ASSUME NEW p, Persist(p) PROVE Goal
  BY <1>p, PersistTyped DEF Changed
<1>u. ASSUME actions' = actions PROVE Goal
  BY <1>u DEF TypeOK
<1> HIDE DEF Goal
<1>1. ASSUME NEW p \in Plans, GeneratePlan(p) PROVE Goal
  BY <1>1, <1>p DEF GeneratePlan
<1>2. ASSUME NEW a \in Actions, Halt(a) PROVE Goal
  BY <1>2, <1>s DEF Halt, Changed, ActionStatus
<1>3. ASSUME NEW o \in Ops, Request(o) PROVE Goal
  BY <1>3, <1>u DEF Request, RejectPlan, ApprovePlan, Regenerate, ExecuteAction, RollbackAction, DecideAction
<1>4. ASSUME NEW o \in Ops, OpStep(o) PROVE Goal
  <2> DEFINE x == ops[o]
  <2>0. Carries(x) /\ x \in Op
    BY DEF RequestsCarry, TypeOK
  <2>1. CASE InsertRevision(o)
    BY <1>p, <2>1 DEF InsertRevision
  <2>2. CASE ApproveEach(o)
    <3>1. PICK a \in x.todo : SetAction(a, "approved")
      BY <2>2 DEF ApproveEach
    <3>2. a \in Actions /\ Approved(a)
      BY <2>0, <2>2, OpFields DEF ApproveEach, At, Carries
    <3>3. Approved(a)'
      BY <3>2, HistoryGrows DEF Approved, ApprovedBy
    <3> QED
      BY <1>s, <3>1, <3>2, <3>3 DEF Changed, ActionStatus
  <2>3. CASE CancelEach(o)
    <3>1. PICK a \in x.todo : SetAction(a, "cancelled")
      BY <2>3 DEF CancelEach
    <3> QED
      BY <1>s, <2>0, <3>1, OpFields DEF Changed, ActionStatus
  <2>4. CASE ActionDecided(o)
    <3>1. x.action \in Actions /\ (x.to = "rejected" \/ (x.to = "approved" /\ x.source \in Sources)) /\ SetAction(x.action, x.to)
      BY <2>0, <2>4 DEF ActionDecided, At, Carries, OfAction
    <3>2. x.to = "approved" => <<x.action, x.source>> \in signed'
      BY <2>4 DEF ActionDecided
    <3> QED
      BY <1>s, <3>1, <3>2 DEF Changed, ActionStatus, Approved, ApprovedBy
  <2>5. CASE GuardCancels(o) \/ GuardPasses(o) \/ UnknownType(o) \/ Complete(o) \/ Fail(o) \/ RolledBack(o)
    <3>1. x.action \in Actions
      BY <2>0, <2>5 DEF GuardCancels, GuardPasses, UnknownType, Complete, Fail, RolledBack, At, Carries, OfAction
    <3>2. CASE GuardCancels(o) \/ GuardPasses(o)
      BY <1>s, <3>1, <3>2 DEF GuardCancels, GuardPasses, Changed, ActionStatus
    <3>3. CASE UnknownType(o)
      BY <1>s, <3>1, <3>3 DEF UnknownType, Changed, ActionStatus
    <3>4. CASE Complete(o)
      BY <1>s, <3>1, <3>4 DEF Complete, Changed, ActionStatus
    <3>5. CASE Fail(o)
      BY <1>s, <2>0, <3>1, <3>5 DEF Fail, At, Carries, Changed, ActionStatus
    <3>6. CASE RolledBack(o)
      BY <1>s, <2>0, <3>1, <3>6 DEF RolledBack, At, Carries, Changed, ActionStatus
    <3> QED
      BY <2>5, <3>2, <3>3, <3>4, <3>5, <3>6
  <2>6. CASE \/ Revise(o) \/ PlanApproved(o) \/ PlanRejected(o) \/ ListPending(o) \/ CallHandler(o) \/ HandlerSucceeds(o)
             \/ LogSuccess(o) \/ Charge(o) \/ Throws(o) \/ LogFailure(o) \/ Rejects(o)
    BY <1>u, <2>6 DEF Revise, PlanApproved, PlanRejected, ListPending, CallHandler, HandlerSucceeds,
       LogSuccess, Charge, Throws, LogFailure, Rejects
  <2> QED
    BY <1>4, <2>1, <2>2, <2>3, <2>4, <2>5, <2>6 DEF OpStep
<1>5. ASSUME UNCHANGED vars PROVE Goal
  BY <1>5, <1>u DEF vars
<1>6. Goal
  BY <1>1, <1>2, <1>3, <1>4, <1>5 DEF Next
<1> QED
  BY <1>6 DEF Goal

\* How the status of a plan changes.
LEMMA PlansStep ==
  ASSUME TypeOK, RequestsCarry, [Next]_vars
  PROVE  /\ plans' \in [Plans -> PlanStatus \union {"absent"}]
         /\ \A p \in Plans : \/ plans'[p] = plans[p] \/ plans'[p] \in {"pending_approval", "revised"}
                             \/ \E o \in Ops : /\ ops[o].plan = p
                                               /\ \/ PlanRejected(o) /\ plans'[p] = "rejected"
                                                  \/ PlanApproved(o) /\ plans'[p] = "approved"
<1>1. ASSUME NEW p, Persist(p)
      PROVE  /\ plans' \in [Plans -> PlanStatus \union {"absent"}]
             /\ \A q \in Plans : plans'[q] = plans[q] \/ plans'[q] = "pending_approval"
  BY <1>1, PersistTyped
<1>2. ASSUME NEW o \in Ops, Revise(o)
      PROVE  /\ plans' \in [Plans -> PlanStatus \union {"absent"}]
             /\ \A q \in Plans : plans'[q] = plans[q] \/ plans'[q] = "revised"
  BY <1>2 DEF Revise, TypeOK, PlanStatus
<1>3. ASSUME NEW o \in Ops, PlanRejected(o)
      PROVE  /\ plans' \in [Plans -> PlanStatus \union {"absent"}]
             /\ \A q \in Plans : plans'[q] = plans[q] \/ (ops[o].plan = q /\ plans'[q] = "rejected")
  BY <1>3 DEF PlanRejected, TypeOK, PlanStatus
<1>4. ASSUME NEW o \in Ops, PlanApproved(o)
      PROVE  /\ plans' \in [Plans -> PlanStatus \union {"absent"}]
             /\ \A q \in Plans : plans'[q] = plans[q] \/ (ops[o].plan = q /\ plans'[q] = "approved")
  BY <1>4 DEF PlanApproved, TypeOK, PlanStatus
<1>5. \/ plans' = plans
      \/ \E p : Persist(p)
      \/ \E o \in Ops : Revise(o) \/ PlanRejected(o) \/ PlanApproved(o)
  <2>1. ASSUME NEW o \in Ops, Request(o) PROVE plans' = plans
    BY <2>1 DEF Request, RejectPlan, ApprovePlan, Regenerate, ExecuteAction, RollbackAction, DecideAction
  <2>2. ASSUME NEW o \in Ops, OpStep(o)
        PROVE  plans' = plans \/ (\E p : Persist(p)) \/ Revise(o) \/ PlanRejected(o) \/ PlanApproved(o)
    BY <2>2 DEF OpStep, InsertRevision, ApproveEach, ListPending, CancelEach, ActionDecided,
       GuardCancels, GuardPasses, UnknownType, CallHandler, HandlerSucceeds, LogSuccess, Complete, Charge, Throws, LogFailure,
       Fail, RolledBack, Rejects
  <2> QED
    BY <2>1, <2>2 DEF Next, vars, GeneratePlan, Halt
<1> QED
  BY <1>1, <1>2, <1>3, <1>4, <1>5 DEF TypeOK

-----------------------------------------------------------------------------
\* The invariants: one lemma each.
LEMMA TypeStep ==
  TypeOK /\ RequestsCarry /\ ApprovedIsSigned /\ OutcomeIsLogged /\ [Next]_vars => TypeOK'
<1> SUFFICES ASSUME TypeOK, RequestsCarry, ApprovedIsSigned, OutcomeIsLogged, [Next]_vars PROVE TypeOK'
  OBVIOUS
<1>1. ops' \in [Ops -> Op] /\ actions' \in [Actions -> ActionStatus \union {"absent"}]
      /\ plans' \in [Plans -> PlanStatus \union {"absent"}]
  BY RequestsStep, ActionsStep, PlansStep
<1>2. /\ log' \subseteq Actions \X {"success", "failure"} /\ charged' \subseteq Actions
      /\ requests' \in 0..MaxRequests /\ signed' \subseteq (Plans \union Actions) \X Sources
      /\ ran' \subseteq Actions /\ faulted' \subseteq Plans \union Actions
  <2> DEFINE Goal == /\ log' \subseteq Actions \X {"success", "failure"} /\ charged' \subseteq Actions
                     /\ requests' \in 0..MaxRequests /\ signed' \subseteq (Plans \union Actions) \X Sources
                     /\ ran' \subseteq Actions /\ faulted' \subseteq Plans \union Actions
  <2>1. CASE UNCHANGED <<log, charged, requests, history>>
    BY <2>1 DEF TypeOK, history
  <2>2. ASSUME NEW o \in Ops, Request(o) PROVE Goal
    BY <2>2, RequestCarries DEF TypeOK, history
  <2>3. ASSUME NEW o \in Ops, OpStep(o), ~UNCHANGED <<log, charged, requests, history>> PROVE Goal
    <3>0. Carries(ops[o]) /\ ops[o] \in Op
      BY DEF RequestsCarry, TypeOK
    <3>1. CASE PlanApproved(o) \/ ActionDecided(o)
      <4>1. \/ signed' = signed
            \/ \E y \in Plans \union Actions, source \in Sources : signed' = signed \union {<<y, source>>}
        BY <3>0, <3>1 DEF PlanApproved, ActionDecided, At, Carries, OfPlan, OfAction
      <4>2. UNCHANGED <<log, charged, requests, ran, faulted>>
        BY <3>1 DEF PlanApproved, ActionDecided
      <4> QED
        BY <4>1, <4>2 DEF TypeOK
    <3>2. CASE CallHandler(o) \/ LogSuccess(o) \/ LogFailure(o) \/ Charge(o)
      <4>1. ops[o].action \in Actions
        BY <3>0, <3>2 DEF CallHandler, LogSuccess, LogFailure, Charge, At, Carries, OfAction
      <4> QED
        BY <3>2, <4>1 DEF CallHandler, LogSuccess, LogFailure, Charge, TypeOK, history
    <3>3. CASE Rejects(o)
      <4>1. {ops[o].plan, ops[o].action} \ {None} \subseteq Plans \union Actions
        BY <3>0, OpFields
      <4>2. UNCHANGED <<log, charged, requests, signed, ran>>
        BY <3>3, <2>3 DEF Rejects, TypeOK, End
      <4> QED
        BY <3>3, <4>1, <4>2 DEF Rejects, TypeOK
    <3> QED
      BY <2>3, <3>1, <3>2, <3>3 DEF OpStep, Revise, InsertRevision, ApproveEach, PlanRejected, ListPending, CancelEach,
         GuardCancels, GuardPasses, UnknownType, HandlerSucceeds, Complete, Throws, Fail, RolledBack
  <2> QED
    BY <2>1, <2>2, <2>3 DEF Next, vars, history, GeneratePlan, Halt
<1> QED
  BY <1>1, <1>2 DEF TypeOK

LEMMA SignedStep ==
  TypeOK /\ RequestsCarry /\ ApprovedIsSigned /\ [Next]_vars => ApprovedIsSigned'
<1> SUFFICES ASSUME TypeOK, RequestsCarry, ApprovedIsSigned, [Next]_vars, NEW a \in Actions, actions'[a] = "approved"
             PROVE  Approved(a)'
  BY DEF ApprovedIsSigned
<1>1. CASE actions[a] = "approved"
  BY <1>1, HistoryGrows DEF ApprovedIsSigned, Approved, ApprovedBy
<1>2. CASE actions'[a] # actions[a]
  BY <1>2, ActionsStep DEF Changed
<1> QED
  BY <1>1, <1>2

LEMMA ExecutedStep ==
  TypeOK /\ RequestsCarry /\ ExecutedHasApproval /\ [Next]_vars => ExecutedHasApproval'
<1> SUFFICES ASSUME TypeOK, RequestsCarry, ExecutedHasApproval, [Next]_vars, NEW a \in ran'
             PROVE  Approved(a)'
  BY DEF ExecutedHasApproval, Approved, ApprovedBy
<1>1. Approved(a)
  <2>1. CASE a \in ran
    BY <2>1 DEF ExecutedHasApproval, Approved, ApprovedBy
  <2>2. CASE a \notin ran
    <3>1. PICK o \in Ops : CallHandler(o) /\ a = ops[o].action
      <4>1. ASSUME NEW o \in Ops, Request(o) PROVE FALSE
        BY <2>2, <4>1 DEF Request, RejectPlan, ApprovePlan, Regenerate, ExecuteAction, RollbackAction, DecideAction, history
      <4>2. ASSUME NEW o \in Ops, OpStep(o) PROVE CallHandler(o) /\ a = ops[o].action
        BY <2>2, <4>2 DEF OpStep, Revise, InsertRevision, PlanApproved, ApproveEach, PlanRejected, ListPending, CancelEach,
           ActionDecided, GuardCancels, GuardPasses, UnknownType, CallHandler, HandlerSucceeds, LogSuccess, Complete, Charge,
           Throws, LogFailure, Fail, RolledBack, Rejects, history
      <4> QED
        BY <2>2, <4>1, <4>2 DEF Next, vars, history, GeneratePlan, Halt
    <3> QED
      BY <3>1 DEF CallHandler, At, RequestsCarry, Carries
  <2> QED
    BY <2>1, <2>2
<1> QED
  BY <1>1, HistoryGrows DEF Approved, ApprovedBy

LEMMA LoggedStep ==
  TypeOK /\ RequestsCarry /\ OutcomeIsLogged /\ [Next]_vars => OutcomeIsLogged'
<1> SUFFICES ASSUME TypeOK, RequestsCarry, OutcomeIsLogged, [Next]_vars, NEW a \in Actions
             PROVE  /\ actions'[a] \in {"completed", "rolled_back"} => <<a, "success">> \in log'
                    /\ actions'[a] = "failed" => a \notin Handled \/ <<a, "failure">> \in log'
  BY DEF OutcomeIsLogged
<1>1. log \subseteq log'
  BY HistoryGrows
<1>2. CASE actions'[a] = actions[a]
  BY <1>1, <1>2 DEF OutcomeIsLogged
<1>3. CASE actions'[a] # actions[a]
  <2>1. ASSUME NEW o \in Ops, Complete(o), ops[o].action = a PROVE <<a, "success">> \in log
    BY <2>1 DEF Complete, At, RequestsCarry, Carries
  <2> QED
    BY <1>1, <1>3, <2>1, ActionsStep DEF Changed
<1> QED
  BY <1>2, <1>3

LEMMA FaultsGrow == ASSUME [Next]_vars PROVE faulted \subseteq faulted' /\ charged \subseteq charged'
<1>1. ASSUME NEW o \in Ops, Request(o) PROVE UNCHANGED <<faulted, charged>>
  BY <1>1 DEF Request, RejectPlan, ApprovePlan, Regenerate, ExecuteAction, RollbackAction, DecideAction, history
<1>2. ASSUME NEW o \in Ops, OpStep(o) PROVE faulted \subseteq faulted' /\ charged \subseteq charged'
  BY <1>2 DEF OpStep, Revise, InsertRevision, PlanApproved, ApproveEach, PlanRejected, ListPending, CancelEach, ActionDecided,
     GuardCancels, GuardPasses, UnknownType, CallHandler, HandlerSucceeds, LogSuccess, Complete, Charge, Throws, LogFailure,
     Fail, RolledBack, Rejects, history
<1> QED
  BY <1>1, <1>2 DEF Next, vars, history, GeneratePlan, Halt

\* A request that moves is the one of this step.
LEMMA OneMoves ==
  ASSUME TypeOK, RequestsCarry, ApprovedIsSigned, OutcomeIsLogged, [Next]_vars, NEW o \in Ops, ops'[o] # ops[o], ops[o].pc # "idle"
  PROVE  OpStep(o)
<1>1. ASSUME NEW u \in Ops, Request(u) PROVE FALSE
  BY <1>1, RequestCarries, IdleTyped DEF OthersStay
<1>2. ASSUME NEW u \in Ops, OpStep(u) PROVE OpStep(o)
  BY <1>2, StepCarries DEF OthersStay
<1> QED
  BY <1>1, <1>2 DEF Next, vars, GeneratePlan, Halt

LEMMA PaidStep ==
  TypeOK /\ RequestsCarry /\ ApprovedIsSigned /\ OutcomeIsLogged /\ CompletedIsPaid /\ [Next]_vars => CompletedIsPaid'
<1> SUFFICES ASSUME TypeOK, RequestsCarry, ApprovedIsSigned, OutcomeIsLogged, CompletedIsPaid, [Next]_vars,
                    NEW a \in Actions, actions'[a] = "completed", a \notin charged' \union faulted'
             PROVE  \E o \in Ops : Pays(o, a)'
  BY DEF CompletedIsPaid
<1>1. CASE actions'[a] # actions[a]
  <2>1. PICK o \in Ops : Complete(o) /\ ops[o].action = a
    BY <1>1, ActionsStep DEF Changed
  <2>2. SameBut(ops[o], ops'[o], "charge")
    BY <2>1, Continued DEF Complete, OfAction
  <2> QED
    BY <2>1, <2>2 DEF Pays, SameBut
<1>2. CASE actions'[a] = actions[a]
  <2>1. PICK o \in Ops : Pays(o, a)
    BY <1>2, FaultsGrow DEF CompletedIsPaid
  <2>2. CASE ops'[o] = ops[o]
    BY <2>1, <2>2 DEF Pays
  <2>3. CASE ops'[o] # ops[o]
    <3>1. OpStep(o)
      BY <2>1, <2>3, OneMoves DEF Pays
    \* What ends it charges the action, fails it or is a rejection.
    <3>2. ~Charge(o) /\ ~Fail(o) /\ ~Rejects(o)
      <4>1. ~Charge(o)
        BY <2>1 DEF Charge, Pays
      <4>2. ~Fail(o)
        BY <1>2, <2>1, SetActionTyped DEF Fail, Pays, TypeOK, ActionStatus, SetAction
      <4>3. ~Rejects(o)
        BY <2>1, AgentActionsAssumption DEF Rejects, Pays
      <4> QED
        BY <4>1, <4>2, <4>3
    <3>3. Throws(o) \/ LogFailure(o)
      BY <2>1, <3>1, <3>2 DEF Pays, OpStep, Revise, InsertRevision, PlanApproved, ApproveEach, PlanRejected, ListPending,
         CancelEach, ActionDecided, GuardCancels, GuardPasses, UnknownType, CallHandler, HandlerSucceeds, LogSuccess,
         Complete, RolledBack, At
    <3>4. \E pc \in {"logFailure", "fail"} : SameBut(ops[o], ops'[o], pc)
      BY <3>3, Continued DEF Throws, LogFailure, OfAction
    <3> QED
      BY <2>1, <3>4 DEF Pays, SameBut
  <2> QED
    BY <2>2, <2>3
<1> QED
  BY <1>1, <1>2

LEMMA SettledStep ==
  TypeOK /\ RequestsCarry /\ ApprovedIsSigned /\ OutcomeIsLogged /\ DecidedIsWorkedOff /\ [Next]_vars
    => DecidedIsWorkedOff'
<1> SUFFICES ASSUME TypeOK, RequestsCarry, ApprovedIsSigned, OutcomeIsLogged, DecidedIsWorkedOff, [Next]_vars,
                    NEW p \in Plans, NEW a \in ActionsOf(p), Unsettled(p, a)', p \notin faulted'
             PROVE  \E o \in Ops : Settles(o, p, a)'
  BY DEF DecidedIsWorkedOff
<1>0. a \in Actions /\ PlanOf[a] = p
  BY DEF ActionsOf
<1>1. actions[a] = "pending_approval"
  BY <1>0, ActionsStep DEF Unsettled, Changed
<1>2. CASE plans'[p] # plans[p]
  <2>1. PICK o \in Ops : /\ ops[o].plan = p
                         /\ \/ PlanRejected(o) /\ plans'[p] = "rejected"
                            \/ PlanApproved(o) /\ plans'[p] = "approved"
    BY <1>2, PlansStep DEF Unsettled
  <2>2. CASE PlanRejected(o) /\ plans'[p] = "rejected"
    <3>1. SameBut(ops[o], ops'[o], "listPending")
      BY <2>2, Continued DEF PlanRejected, OfPlan
    <3> QED
      BY <2>1, <2>2, <3>1 DEF Settles, SameBut, At
  <2>3. CASE PlanApproved(o) /\ plans'[p] = "approved"
    <3> DEFINE todo == ApprovedWith(p, ops[o].source)
    <3>1. todo \subseteq Actions /\ a \in todo
      BY <1>0, <2>3 DEF ApprovedWith, ActionsOf, Unsettled
    <3>2. WorkThrough(o, "approveEach", todo)
      BY <2>1, <2>3 DEF PlanApproved
    <3> HIDE DEF todo
    <3>3. SameBut(ops[o], ops'[o], "approveEach") /\ ops'[o].todo = todo
      BY <3>1, <3>2, WorkedThrough DEF OfPlan
    <3> QED
      BY <2>1, <2>3, <3>1, <3>3 DEF Settles, SameBut, At
  <2> QED
    BY <2>1, <2>2, <2>3
<1>3. CASE plans'[p] = plans[p]
  <2>1. Unsettled(p, a) /\ p \notin faulted
    BY <1>1, <1>3, FaultsGrow DEF Unsettled
  <2>2. PICK o \in Ops : Settles(o, p, a)
    BY <2>1 DEF DecidedIsWorkedOff
  <2> DEFINE x == ops[o]
  <2>3. CASE ops'[o] = x
    BY <1>3, <2>2, <2>3 DEF Settles, At
  <2>4. CASE ops'[o] # x
    <3>1. OpStep(o) /\ x.plan = p /\ x.pc \in {"listPending", "cancelEach", "approveEach"}
      BY <2>2, <2>4, OneMoves DEF Settles, At
    <3>2. ~Rejects(o)
      BY <3>1, AgentActionsAssumption DEF Rejects
    <3>3. ListPending(o) \/ CancelEach(o) \/ ApproveEach(o)
      BY <3>1, <3>2 DEF OpStep, Revise, InsertRevision, PlanApproved, PlanRejected, ActionDecided, GuardCancels, GuardPasses,
         UnknownType, CallHandler, HandlerSucceeds, LogSuccess, Complete, Charge, Throws, LogFailure, Fail, RolledBack, At
    <3>4. x.todo \subseteq Actions
      BY OpFields DEF TypeOK
    <3>5. CASE ListPending(o)
      <4> DEFINE todo == {b \in ActionsOf(p) : actions[b] = "pending_approval"}
      <4>1. todo \subseteq Actions /\ a \in todo /\ WorkThrough(o, "cancelEach", todo)
        BY <1>1, <3>1, <3>5 DEF ListPending, ActionsOf
      <4> HIDE DEF todo
      <4>2. SameBut(x, ops'[o], "cancelEach") /\ ops'[o].todo = todo
        BY <4>1, WorkedThrough DEF OfPlan
      <4>3. plans[p] = "rejected"
        BY <2>2, <3>5 DEF Settles, ListPending, At
      <4> QED
        BY <1>3, <3>1, <4>1, <4>2, <4>3 DEF Settles, SameBut, At
    <3>6. ASSUME NEW pc \in {"cancelEach", "approveEach"}, At(o, pc),
                 NEW b \in x.todo, actions'[b] # "pending_approval", WorkThrough(o, pc, x.todo \ {b})
          PROVE  \E u \in Ops : Settles(u, p, a)'
      <4> DEFINE todo == x.todo \ {b}
      <4>1. todo \subseteq Actions /\ a \in todo
        BY <2>2, <3>4, <3>6 DEF Settles, At, Unsettled
      <4>2. WorkThrough(o, pc, todo)
        BY <3>6
      <4> HIDE DEF todo
      <4>3. SameBut(x, ops'[o], pc) /\ ops'[o].todo = todo
        BY <3>6, <4>1, <4>2, WorkedThrough DEF OfPlan
      <4> QED
        BY <1>3, <2>2, <3>6, <4>1, <4>3 DEF Settles, SameBut, At
    <3>7. CASE CancelEach(o)
      <4>1. PICK b \in x.todo : SetAction(b, "cancelled") /\ WorkThrough(o, "cancelEach", x.todo \ {b})
        BY <3>7 DEF CancelEach
      <4>2. actions'[b] # "pending_approval"
        BY <3>4, <4>1 DEF SetAction, TypeOK
      <4> QED
        BY <3>6, <3>7, <4>1, <4>2 DEF CancelEach
    <3>8. CASE ApproveEach(o)
      <4>1. PICK b \in x.todo : SetAction(b, "approved") /\ WorkThrough(o, "approveEach", x.todo \ {b})
        BY <3>8 DEF ApproveEach
      <4>2. actions'[b] # "pending_approval"
        BY <3>4, <4>1 DEF SetAction, TypeOK
      <4> QED
        BY <3>6, <3>8, <4>1, <4>2 DEF ApproveEach
    <3> QED
      BY <3>3, <3>5, <3>7, <3>8
  <2> QED
    BY <2>3, <2>4
<1> QED
  BY <1>2, <1>3

-----------------------------------------------------------------------------
LEMMA InitIInv == Init => IInv
<1> SUFFICES ASSUME Init PROVE IInv
  OBVIOUS
<1>1. TypeOK
  BY IdleTyped, AgentActionsAssumption DEF Init, TypeOK
<1>2. RequestsCarry
  BY IdleTyped DEF Init, RequestsCarry, Carries, OfPlan, OfAction
<1>3. \A a \in Actions : actions[a] = "absent"
  BY DEF Init
<1> QED
  BY <1>1, <1>2, <1>3
  DEF Init, IInv, ApprovedIsSigned, ExecutedHasApproval, OutcomeIsLogged, CompletedIsPaid, DecidedIsWorkedOff, Unsettled, ActionsOf

LEMMA Inductive == IInv /\ [Next]_vars => IInv'
  BY TypeStep, RequestsStep, SignedStep, ExecutedStep, LoggedStep, PaidStep, SettledStep DEF IInv

LEMMA Invariant == Spec => []IInv
  BY InitIInv, Inductive, PTL DEF Spec

\* Rows, requests, log and usage keep their types: in particular no request
\* writes a status that the store does not know.
THEOREM TypeCorrect == Spec => []TypeOK
<1>1. IInv => TypeOK
  BY DEF IInv
<1> QED
  BY Invariant, <1>1, PTL

\* executeAction: a handler is called only for an action that was approved, by
\* itself or with its plan from the source it requires, however stale the status
\* is that executeAction has read.
THEOREM ExecutionIsApproved == Spec => []ExecutedHasApproval
<1>1. IInv => ExecutedHasApproval
  BY DEF IInv
<1> QED
  BY Invariant, <1>1, PTL

\* executeAction and rollbackAction: no outcome is stored before the execution
\* log has it, whatever the writes of other requests are in between.
THEOREM OutcomesAreLogged == Spec => []OutcomeIsLogged
<1>1. IInv => OutcomeIsLogged
  BY DEF IInv
<1> QED
  BY Invariant, <1>1, PTL

\* executeAction: when nothing is under way about a completed action, its cost
\* was added to the usage or a rejection has ended a request about it.
THEOREM CompletionIsPaid == Spec => []CompletedIsCharged
<1>1. ASSUME NEW o \in Ops, NEW a \in Actions, Pays(o, a) PROVE Busy(a)
  BY <1>1 DEF Pays, Busy
<1>2. IInv => CompletedIsCharged
  BY <1>1 DEF IInv, CompletedIsPaid, CompletedIsCharged
<1> QED
  BY Invariant, <1>2, PTL

\* approvePlan and rejectPlan: however they overlap, once no request is under
\* way about a plan, what its status decides is not left pending.
THEOREM DecisionsSettle == Spec => []DecidedPlanIsSettled
<1>1. ASSUME NEW o \in Ops, NEW p \in Plans, NEW a \in ActionsOf(p), Settles(o, p, a) PROVE Busy(p)
  BY <1>1 DEF Settles, Busy
<1>2. IInv => DecidedPlanIsSettled
  BY <1>1 DEF IInv, DecidedIsWorkedOff, DecidedPlanIsSettled, Unsettled
<1> QED
  BY Invariant, <1>2, PTL
=============================================================================
