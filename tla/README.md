# A TLA+ model of saas-parts

saas-parts is a monorepo of 112 TypeScript packages, the plumbing that SaaS products
share: jobs, approvals, audit, billing, webhooks, agents that act on a customer's
behalf.  The packages do not import each other.  Each takes its database, clock, LLM,
logger and notifier as injected interfaces, and keeps what little state it has in a
closure, a class or an injected store.

There are no threads and no locks in this code.  What makes it hard is `await`: a
handler reads a row, waits for something slow, and then writes on the strength of what
it read.  Another request, timer or callback can run in every such gap.  All modules
here are built around that one fact.  An action is exactly what runs between two
awaits, and a request in flight is a record that holds exactly what the code keeps in
local variables across its next await.

## Inventory

The list of all packages, with the reason for each one that is left out, is in
`PROJECT.json` under `components`.  The parts with a protocol of their own are these.

| part | state | operations | what makes it hard | what correct means |
|---|---|---|---|---|
| job-scheduler, the lock | Map of job states: status, enabled, next run | register, trigger, start, stop, tick, run | a tick awaits the store for each job, ticks overlap, a handler is not awaited | a job runs once at a time, is never locked out, is served |
| job-scheduler, the flag | `enabled` in the process and in a row | setJobEnabled, persist, loadEnabled, restart | fire-and-forget writes of snapshots, two sources of truth | a switch arrives, a disable holds |
| kit-approval-workflow | submissions, exception requests, audit entries | submit, decide, reapply, recordApprove/Reject, exceptions | decisions race evaluations, the audit logger can reject after the update | checks fit texts, decisions are audited, the deploy gate sees audited approvals only |
| kit-approval-workflow, escalation | `metadata.escalated`, approver | runEscalationJob | a snapshot list is worked off over many awaits | once and in the end |
| kit-ai-agent, plans and actions | plans, actions, execution log, usage | plan, approve, reject, revise, execute, roll back, halt | every writer overwrites the status it has not looked at again | what runs was approved, outcomes are logged and paid, halts hold |
| kit-ai-agent, auto-rollback | Map of violations with first-seen time | checkAndRollback | await between test and mark, kill switch, episodes that return | once per episode, in the end |
| autonomous-deploy, kit-devops-metrics | deploy log, channels | walk the targets, roll back in reverse, save, audit | an adapter throws after its effect, a rollback throws, overlapping deployments save whole logs | what a failed deployment leaves behind is on its steps |
| consent | grants in a store, cached verdicts | grant, revoke, check, purge tables | a verdict read before a revocation is cached after it | a revocation takes effect within the TTL |
| kit-integration-manager, sync engine | ingested records | syncConnection | the gate is asked, then the sink, then the record is inserted | nothing comes in long after a revocation, nothing twice |
| stripe-billing | processed event ids | process a delivery | at-least-once delivery, mark after the handler, crashes | every event is handled, once unless deliveries crossed |
| gdpr | deletion requests, rows, timers | hourly check, delete table by table | overlapping checks, a failing table, rows written meanwhile | a completed request leaves nothing older behind; due ones complete |
| kit-chief-of-staff, task review | task, external issue | confirm, reject, sync | status read before another system is called | no issue without a confirmation |
| kit-decision-memory | candidate, decisions, embeddings | stage, confirm, reject, create, update, delete | two tables in two steps, texts embedded before they are written | candidate, decision and embedding agree |
| custom-domains | domain states, mappings | two crons | lists worked off over awaits, crons overlap | a domain follows its state machine and settles |
| resilience | breaker state, failure count | execute, reset | late results, half-open probes in parallel | one failed probe reopens; a service that is up is served |
| audit-log | hash chain per tenant | persist, verify | last entry read, then the new one inserted | the chain verifies |
| oauth-manager | one-time states | generate, consume | read, then deleted | a state is good for one login |
| live-state | what the view shows | fetch, event, debounce | answers in any order, lost events | late answers do not take the view behind an earlier request, and it catches up |
| tenant-resolver | default tenant, its cache | getTenantId | two lookups and a creation by several processes, lookups that reject | one default tenant, no member on the wrong one |
| feature-flags | overrides, their cache | get, set, remove | reads overtaken by writes, errors cached as "no override" | a cached flag is true, a switched-off flag comes off |
| cache, sliding window | sorted set in Redis, list in memory | slidingWindowRateLimit | pipeline after the clock was read, undo, fallback | at most max per window and place |
| usage-quota | usage events per day | enforce, record | check-then-record, midnight, store errors | the limit, but for what was not seen |
| kit-ai-workforce, feedback | CV entries, skill levels | recordTaskFeedback | levels set from a stale list, cut off half way | levels are earned |

The rest are stateless helpers, wrappers around one I/O call, text and number
crunching, browser code and templates.  Components do not call each other across
packages; an application connects them (`examples/reference-saas`).  The two
compositions inside a package are modelled as compositions: the escalation job works on
the submission store of the approval workflow, and planner, approval service, executor,
rollback manager and monitor share one plan store.

## Modules

**`JobScheduler`** - `packages/job-scheduler/src/job-scheduler.ts`.  A job state is a pair
of a job and the call of `registerJob` that made it, because registering a name again
replaces the object in the Map while ticks and runs may still hold the old one.  `jobs`
is the Map's order, `lastStatus` the lock, `handlers` counts handler invocations in
flight.  A tick record is a `tick()` that awaits `loadEnabled` for the state it claimed.
`WalkFrom` is the loop from one claim to the next: it is one step, since no await lies
between.  Time is reduced to `due`, "nextRunAt has passed", and `seen`, what was due at
the tick's own `now`.  The store is any store: `LoadSaysRun`, `LoadSaysDisabled` and
`LoadRejects` are its three answers.  `Start` arms an interval and an initial timeout,
whose callback persists every job (`initLoops`) and then ticks, also after `stop()`.

**`JobSchedulerProofs`** - the theorems about it.

**`JobEnabledSync`** - the same scheduler seen from one job's `enabled` flag, which lives in
the process (`local`) and in the row of the store (`row`).  Every persist is a request
with the flag of the moment it was built, an update and, if no row was there, an insert;
requests are in flight in `writes` and served in any order.  A restart forgets what was
not served and registers the job again.  `disturbed`, `off` and `claimedOff` are history:
what was reordered or rejected, what an operator did, and what a run's claim saw of it.

**`JobEnabledSyncProofs`** - the theorems about it.

**`ApprovalWorkflow`** - `packages/kit-approval-workflow/src/workflow.ts` over the in-memory
stores of `stores.ts`.  One op is one request: `pc` names what it awaits.  `Submit`,
`Reapply`, `Decide`, `RecordApprove`, `RecordReject`, `SubmitException` and
`DecideException` begin requests; `SubmitEvaluated`, `ReapplyEvaluated`, `Audit`,
`AuditFails`, `OnApproved`, `MarkOverridden`, `AuditException` and `Cascade` are what
follows their awaits.  A text is a model value with a verdict; `check` is the text a
row's `checkId` is about.

**`ApprovalEscalation`** - `escalation.ts` beside all of the above, on the same rows.  A job
run lists the overdue rows with their metadata once (`ListPending`) and works through
that snapshot (`SkipListed`, `Escalate`, `Report`).

**`ApprovalWorkflowProofs`** - the theorems about both: the workflow alone, and the workflow
beside the job.

**`AgentActions`**, **`MCAgentActions`** - `planner.ts`, `approval.ts`, `executor.ts`,
`monitor.ts` and `rollbackAction` of `rollback.ts`, over one plan store.  `ops` is as
above; `signed`, `ran` and `faulted` are history (who approved what, whose handler was
called, what ended in a rejection).  `Throws` is the entry to the catch block of
`executeAction`, which also catches rejections of what follows the handler; `Rejects` is a
rejection anywhere else.  The MC module gives two plans of one action each: one that needs
a second source and has a handler, one that needs none and has no handler.

**`AgentActionsProofs`** - the theorems about it.

**`AutoRollback`** - `auto-rollback.ts`.  `entries` is `violationState`, its `age` the time
since `firstSeenAt` up to the threshold; `violated` is what monitoring would report now.
An episode is one stretch of a violation.  `Check` is `checkAndRollback` up to its first
await, `Launch` marks and starts the rollback, `NoRevision` and `CallEnds` are the two
ways out.  `contended` and `succeeded` remember which episodes were awaited by two calls at
once, and which were first seen while a call about the one before was waiting.

**`AutoRollbackProofs`** - the theorems about it.

**`DeploySaga`**, **`MCDeploySaga`** - `runAutonomousDeploy` of `autonomous-deploy` and its
twin in `kit-devops-metrics`; `package` says which one runs.  `Skips`, `Succeeds` and
`Throws` are the channel under the loop, `RollsBack` and `RollbackThrows` the reverse walk,
`PersistDeployLog`, `Audit` and `Notify` what follows.  `changed` is what the channels
really carry, which an adapter that throws may have changed or not; `base` is the log a
deployment read before it began, `saves` the history of who saved when.

**`DeployOutcome`** - what a deployment promises, as a specification: changes go live, after
the first failure they are taken up again from the latest down, and a verdict is
pronounced when none is left.  `DeploySaga` instantiates it once per deployment
(`Outcome(r)`), with the set `live`, `stuck` and `phase` read off the deployment's steps, and
`KeepsOutcome` says that every deployment implements it.

**`DeploySagaProofs`** - the theorems about it, that refinement among them.

**`ConsentGuard`** - `guard.ts` and the in-memory store of `consent`.  An ask is a
`hasConsent` call (`CacheHit`, `CacheMiss`, `StoreAnswers`, `CacheVerdict`, `StoreRejects`),
a change a `grantConsent` or `revokeConsent` with its invalidation and its cascade over
the tables, which a `deleteRows` that answers "not ok" does not stop (`PurgeTable`) and one
that rejects does (`PurgeRejects`).  Time is kept as ages that stop at the TTL.

**`IngestSync`**, **`MCIngestSync`** - `sync-engine.ts` over `ConsentGuard`: a sync asks the gate
(`GateAnswers`), looks for the record (`Exists`) and inserts it (`Insert`), beside the
revocations that purge what was inserted.

**`IngestSyncProofs`** - the theorems about it and, through it, about `ConsentGuard`.

The following fifteen are services with one await or two between reading and writing.
Each module is a specification of its own; `Services` composes them.

| module | source | an actor is | what interleaves |
|---|---|---|---|
| `BillingWebhook` | `stripe-billing/src/webhook.ts` | a delivery | `HasProcessed`, the handler, `MarkProcessed`; retries, crashes, lost answers |
| `DeletionChecker` | `gdpr/src/executor.ts` | a check | `ListPendingRequests`, `DeleteRows` table by table, `MarkDeletionCompleted`; timers, restarts, users who write |
| `TaskReview` | `kit-chief-of-staff/src/task-review.ts` | a request | `ReadsPending` or `ReadsConfirmed`, `TargetSyncs`, `UpdateStatus` |
| `DecisionMemory` | `kit-decision-memory/src/decision-service.ts` | a request | embedding, `Insert`, `Link`; `Create`; `Update` (what is embedded) and `ApplyPatch` (what is stored); `Delete` |
| `CustomDomains` | `cname-verifier.ts`, `ssl-provisioner.ts`, `gcloud-provisioner.ts` | a run of a cron | lists, the provider, `Update` |
| `CircuitBreaker` | `resilience/src/index.ts` | a call | `Execute`, `ExecuteProbe`, `ExecuteRefused`; late `OnSuccess` and `OnFailure`; `Reset` |
| `AuditChain` | `audit-log/src/audit.ts`, `verify.ts` | a writer | `LogAudit` stamps, `GetLastEntry` links, `Insert`; `VerifyHashChain` is an operator |
| `OAuthState` | `oauth-manager/src/oauth-state.ts` | a callback | `Get`, `Del`; `FallsBack` for a callback that opted in to it |
| `LiveState` | `live-state/src/useLiveState.ts` | a fetch | `ServerAnswers`, `Apply`, `Drop`; interval, debounce, events |
| `AgentBudget` | `kit-ai-agent/src/executor.ts` | an execution | `ReadRemaining`, the run, whose cost is whatever the handler reports, `AddUsage` |
| `TenantResolver` | `tenant-resolver/src/tenant-resolver.ts` | a `getTenantId` call | member, owner and slug lookups, `Create`, the second look; `Restart`, `LinkUser` |
| `FlagOverrides` | `feature-flags/src/feature-flag-client.ts` | a read or a write | `ListOverrides` then `CacheAnswer`; `Upsert` then `ClearCache` |
| `SlidingWindow` | `cache/src/cache.ts` | a request | `Begin` reads the clock, `Pipeline`, `PipelineErrs` (no count in the answer), `Undo`, `FallBack` |
| `UsageQuota` | `usage-quota/src/usage-quota.ts` | a request | `CountSince`, the work, `Record`; `Midnight` |
| `TaskFeedback` | `kit-ai-workforce/src/tasks.ts` | a feedback | `Insert` into the CV, `ListByCharacter`, `SetProficiency` one by one |

**`Services`** - the composition.  The services share nothing, so every behaviour is the
behaviour of one of them: `service` is chosen in `Init` and says which; the state spaces
add up instead of multiplying.  Its properties are conjunctions of the modules' own, one
for each kind of promise: `ReportedIsDone` (what counts as done was done),
`TwiceOnlyIfCrossed` (what is meant to happen once), `RecordsAgree` (rows about each other),
`OneFailureReopens`, `NeverGoesBack` (the live view is not older than what was current at a
request it has shown the answer of; it may still be older than a moment before),
`FollowsStateMachine`.  A property of a module is stated, with its reasons, in that module.
`Services` has constants for all sets and numbers;
`ServicesAssumption` says which of them are numbers, `DataAssumption` how data belong
together.  Its last two conjuncts are about the environment: users write to tables that the
deletion knows, and a deployment that is configured by neither address nor slug of an
administrator is left out.

**`MCServices`** - gives the constants values.  `OneVaries` leaves all but one service in one
initial state; everything else is `Services`.  It adds the fairness and `EverythingSettles`:
`Settled` is the state each service is meant to reach and keep, `Undisturbed` what that
presupposes.

**`ServiceProofs`** - the theorems about `Services`, without fairness (`SafeSpec`).

Definitions whose comment begins with "Mutant of" are wrong on purpose: each is a
plausible mistake in the definition it names, and the properties must detect it.  No
specification uses them.

## Runs

Each `.cfg` belongs to the module of its name; `tlc -config X.cfg M` runs it.

| run | expected | what it shows |
|---|---|---|
| `JobScheduler.cfg` | passes | `AtMostOneRun`, `LockIsExact`, `ClaimedIsDue`: the lock is taken before the await and every path gives it back, except when `loadEnabled` rejects. `DueJobIsServed`: a slow or rejecting store for one job starves no other |
| `JobEnabledSync.cfg` | passes | `EnabledReachesStore`: no older snapshot wins if the store is well behaved. `QuietDisableHolds`: a disable of the row works when no persist is on its way, whatever the store does |
| `JobEnabledSyncLost.cfg` | `DisableInStoreHolds` fails | without "no persist is on its way" it does not work: the persist at the end of a run, or of a restart, writes the process's flag over the operator's |
| `ApprovalWorkflow.cfg` | passes | `CheckMatchesContent`, `RejectedHasReason`, `HandedWasAudited`, `ExceptionIsAboutIt`, `DecisionsAreAudited`, with an audit logger that may reject |
| `ApprovalEscalation.cfg` | passes | `EscalatedOnce` for runs that do not overlap; `OverdueIsEscalated` although another submission's policy is missing |
| `MCAgentActions.cfg` | passes | `ExecutedHasApproval`, `OutcomeIsLogged`, `CompletedIsCharged`, `DecidedPlanIsSettled`, `ExecutingEnds` |
| `MCAgentActionsHalt.cfg` | `HaltStops` fails | a halt between approval check and dispatch is overwritten by "executing" |
| `AutoRollback.cfg` | passes | `OncePerEpisodeUnlessContended`, `MarkedWasRolledBack`, `LastingViolationIsMarked` |
| `AutoRollbackOverlap.cfg` | `OncePerEpisode` fails | two calls that await the previous revision together both roll back |
| `MCDeploySaga.cfg` | passes | `NothingLeftUnreported`, `LogLosesOnlyOverlapped`, `LogAndAuditAgree`; `KeepsOutcome`: each deployment implements `DeployOutcome`; `BrokenOffIsSettled`: a rollback that was begun ends, whatever throws |
| `MCIngestSync.cfg` | passes | `StaleGrantExpires`, `IngestedWithinTTL`: a stale grant is harmless after the TTL; `StoredTwiceOnlyByRivals`; `RevocationIsFinal` |
| `MCServices.cfg` | passes | the fifteen services: `ReportedIsDone`, `TwiceOnlyIfCrossed`, `RecordsAgree`, `OneFailureReopens`, `NeverGoesBack`, `FollowsStateMachine`, `EverythingSettles`, and their types |

The three failing runs are disagreements between the code and a sentence of its
documentation, quoted under `findings`.  Wherever one fails, the passing run beside it
states the weaker property that does hold, so that the exact condition is on record.

### Bounds

* JobScheduler: two jobs, two ticks and two registrations.  Two ticks are the least that
  can collide; two registrations give both two jobs and one name registered twice.  The
  walk of a tick over the Map needs two entries to be able to skip one.
* JobEnabledSync: three upserts in flight and one restart.  The losing interleavings need
  an initial persist and one more request around a restart.
* ApprovalWorkflow: one submission (rows are independent but for exception requests), two
  exception requests, five requests of which two overlap, two texts of which one fails
  its check.  Five are enough for submit, exception, its decision and two conflicting
  requests.  The escalation run has two submissions instead, one request at a time and
  three in all, because the job's own steps supply the overlap.
* AgentActions: three requests, two at a time, besides generation and halts that are not
  counted.  Approve, execute and one intruder (roll back, reject, revise, execute again)
  fit into three.  The halt run uses four.
* AutoRollback: two tenants with one rule each, two episodes, a threshold of two ticks and
  two overlapping calls.  A second episode is what can be confused with the first under
  the same key; a second tenant is what `Cleared` and `Marked` must leave alone.
* DeploySaga: two overlapping deployments of three channels.  Three are two to succeed, whose
  rollback has an order, and one to fail.
* IngestSync: one user, one record, one table, two syncs and two administrators, a TTL of two
  ticks, two changes of the consent.  A revocation and a grant again, and two of everything
  that can cross; the users are independent.
* MCServices: two of every actor, which is what it takes to cross, over the least data that
  tells right from wrong.  BillingWebhook: two events of which one has a handler.
  DeletionChecker: two users, one whose deletions always fail, two tables of which one may be
  missing and one is still written to.  TaskReview: three issues.  DecisionMemory: two decisions, two patches: a new context, and
  an empty subject with a new reason.
  CustomDomains: one domain (the runs go through their list domain by domain), two runs of
  the one cron and one of the other.  CircuitBreaker: threshold and timeout of two.
  AuditChain: two tenants, three rows, two stamps.  OAuthState: one nonce, two types, callbacks with
  and without the fallback.
  LiveState: three versions, two fetches.  AgentBudget: estimates of one and two
  against a limit of two, and costs from zero, below every estimate, to three, above them.  TenantResolver: four deployments (with and without adminEmail, with and
  without unique slugs), two calls in one process, two default tenants; a call of a second
  process differs only in its cache, which a restart empties.  FlagOverrides: one scope,
  two reads, one write, a TTL of one.  SlidingWindow: four requests, a limit and a window
  of two; it takes a fourth request to be let through because of one that came late.
  UsageQuota: two days, a limit of one.  TaskFeedback: three skills of which two are
  promoted, three levels, three entries.

Deadlock checking is off for the approval, agent, deployment and service runs, where a
system whose bounded number of requests is used up rightly stops.

### Fairness

* JobScheduler: an armed interval fires again, a store promise settles (any answer), a job
  handler settles.  Nothing is assumed about operators, triggers or the initial timeout.
* ApprovalEscalation: the job is run again and again and what it awaits settles.  Requests
  of users are not assumed to come.
* AgentActions: what a request awaits settles, by success or by rejection.
* AutoRollback: monitoring calls for every tenant again and again, also while the kill
  switch flips (strong fairness); time passes; promises settle; and a call that keeps
  asking for the previous revision finds one some of the times.  The last is about the
  deployment, not about the code: a service that never had a second revision is never
  rolled back.
* DeploySaga: what a deployment awaits (adapters, store, audit, notification) settles.
* IngestSync: time passes, and what syncs, asks and changes await settles.
* MCServices: one service runs in a behaviour, so one fairness condition speaks for the
  actions of the same kind of several services.  What a call awaits settles; what was down
  (a table, the domain store, the service behind the breaker) recovers; time passes;
  intervals fire, crons are started and calls come.  Strong fairness is for two services:
  Stripe delivers again what it has no 200 for, and a crash, a failing handler or a lost
  answer does not come in between every single time; and of the live view's fetches, which
  supersede each other, one is answered and applied again and again.

## Proofs

Every invariant and every action property that a passing run checks is a theorem as well,
`TypeOK` and the refinement `KeepsOutcome` included: for any sets of actors and data and
any bounds, from the named assumptions on the constants alone (`EscalatedOnce` under the
condition that its run meets as well).

`JobSchedulerProofs` proves four of the checked properties for any sets of jobs and ticks
and any bounds, from `JobSchedulerAssumption` alone:

* `TypeCorrect`: `Spec => []TypeOK`.
* `MutualExclusion`: `Spec => []AtMostOneRun`.
* `LockExactness`: `Spec => []LockIsExact`.
* `NoStaleClaim`: `Spec => []ClaimedIsDue`.

All rest on one inductive invariant, `IInv`.  `AtMostOneRun` is not inductive: that a new
claim meets no holder needs the lock to be set whenever somebody holds it (`LockIsExact`).
That releasing a claim does not fake a lock needs the remembered status never to be
"running"; that it does not clear a lost lock needs `LostIsFree`.  That a claim is still
due needs every tick's `seen` to contain only what is due now, which holds because a run
that ends removes its job from every `seen`: its new `nextRunAt` is later than any tick's
`now`.  `WalkFromEffect` reduces the walk over the Map to "the tick ended, or claimed one
job that is not running and was seen", and `WalkKeepsLock` proves the invariant for that
step once, for the four actions that walk.  `InvStep` then has one step per action.

`ApprovalWorkflowProofs` proves every invariant `ApprovalWorkflow.cfg` checks, for any
sets of submissions, exception requests, approvers and texts and any number of
overlapping requests, from `ApprovalWorkflowAssumption` and `NoRowAssumption` (the value
that stands for "no such row" is no row):

* `TypeCorrect`: `Spec => []TypeOK`.
* `CheckAlwaysMatches`: `Spec => []CheckMatchesContent`.
* `RejectionsHaveReasons`: `Spec => []RejectedHasReason`.
* `ExceptionsAreAboutTheirRows`: `Spec => []ExceptionIsAboutIt`.
* `HandedAfterAudit`: `Spec => []HandedWasAudited`.
* `AuditIsComplete`: `Spec => []DecisionsAreAudited`.

Not even `TypeOK` is inductive: a request writes to the row in its local variables after
an await, so what it may rely on then (`OpOK`: the row is there, the audit entry that
precedes a hook or a cascade was written) must be carried across the await.  It can be,
because of `Stable`: rows, exception requests and audit entries never go away.
`DecisionsAreAudited` speaks of submissions without a request in flight only; its
inductive form, `DecisionsExplained`, adds the requests that are about to write their
entry (`ToBeAudited`).  `StepEffect` reduces the fifteen actions to the four things that can
happen to a row (`Evaluated`, `Decided`, `Marked`, `Cascaded`), and each invariant is
proved once per effect; `AuditEffect` says that a pending entry is written or refused.

Beside the escalation job (`SpecE`) the same module proves

* `RequestsAreSafeBesideTheJob`: the five safety invariants above and the job's types, with any number of runs of the
  job that may overlap each other.  `InvE` adds to the workflow's invariant that the job's
  snapshots are of rows that exist and that a row is not marked before it is there; the
  job's update changes an approver and a mark, which none of them speaks of.
* `EscalatesOnce`: `SpecE /\ []AtMostOneRun => []EscalatedOnce`.  The hypothesis is the
  condition the run meets by having one job; the code itself does not see to it.
  The invariant, `OnceInv`, is that a listed row whose mark was set since it was listed is
  no longer to be worked on (`ListsAreCurrent`) and that what was escalated is marked
  (`EscalatedIsMarked`); it is inductive only while one run is under way, and only because
  no request takes a mark away (`MarksStay`).

`JobEnabledSyncProofs` proves `TypeCorrect`, `EnablingArrives` (`EnabledReachesStore`) and
`DisablingHolds` (`QuietDisableHolds`) for any number of requests in flight.  That the last
enabled snapshot reaches the row is, in the middle of it, `EnabledIsOnItsWay`: of a job that is
enabled, the youngest request in the queue, or the row if there is none, says so.  An
update that finds no row goes on as an insert behind younger requests, so the invariant
also has to know the queues that cannot be served in order any more (`Doomed`).  That a
quiet disable holds rests on `QuietStays`: since the claim the row and every request that
was sent say "false", so the answer can say nothing else.

`AgentActionsProofs` proves `TypeCorrect`, `ExecutionIsApproved` (`ExecutedHasApproval`),
`OutcomesAreLogged` (`OutcomeIsLogged`), `CompletionIsPaid` (`CompletedIsCharged`) and
`DecisionsSettle` (`DecidedPlanIsSettled`), for any plans, actions and requests.  Every
writer overwrites a status that it has not looked at again, so nothing about a status is
inductive by itself.  `RequestsCarry` says what each request has in hand at each await: that
who signed has signed, that an outcome to be stored is logged.  `ApprovedIsSigned` carries
it to the rows.  `CompletedIsPaid` and `DecidedIsWorkedOff` say what holds while requests
are still under way: some one of them is going to pay, or to work off the decision.

`AutoRollbackProofs` proves `TypeCorrect`, `RolledBackOnce` (`OncePerEpisodeUnlessContended`)
and `MarkIsEarned` (`MarkedWasRolledBack`), for any tenants, rules, episodes and overlapping
calls.  A key of the Map is used again by the next episode while a call about the one before
still waits.  So the invariant has to say which episodes an entry and a waiting call may
belong to: `EpisodeHasOneKey`, `EpisodesHaveBegun`, `SeenOnce` order the episodes of a key,
`WaitingIsContended` and `OtherEntrySucceeds` say that two calls that wait about one episode,
and an entry that took over a key somebody waits about, are on record, and
`RolledBackIsMarked` that what was rolled back cannot be found unmarked by a later call.

`DeploySagaProofs` proves, for any order of any channels and any number of overlapping
deployments, `TypeCorrect`, `FailureIsReported` (`NothingLeftUnreported`), `LogKeepsItsSteps`
(`LogLosesOnlyOverlapped`), `LogsAgree` (`LogAndAuditAgree`) and

* `Refinement`: `Spec => KeepsOutcome`.  Every deployment, among all the others, implements
  `DeployOutcome`: its initial states map to `DeployOutcome`'s, and every action of every
  deployment maps to one of its steps or a stutter.

`WalkIsClean` is the loop invariant of the walk and of the walk back: which steps are on
record while `next` is where it is.  `ChangedIsAStep`: the channels carry nothing that no step
tells of.  `LogsAreSettled`: who is in a log, or in the copy of one that some deployment has
read, will not touch its steps again.  `AuditedIsVerdict` and `LogsLose` say of the audit and
of every such copy what the properties say of the log.

`IngestSyncProofs` proves `TypeCorrect`, `StaleGrantsExpire` (`StaleGrantExpires`),
`IngestionIsTimely` (`IngestedWithinTTL`) and `DuplicatesAreRivals`
(`StoredTwiceOnlyByRivals`), for any users, records, tables and any TTL.  An answer may be
cached long after it was read.  `ReadIsOld` bounds what is on its way to the cache: who has
read "granted" has asked before the revocation, and the entry's life counts from the asking.
`GateIsTimely` and `PassedIsTimely` carry the gate's answer over the two awaits to the insert.

`ServiceProofs` proves about the fifteen services, for any numbers of their actors and any
data, from `ServicesAssumption` and `DataAssumption`:

* `BreakerReopens`: `SafeSpec => []OneFailureReopens`.
* `ViewNeverGoesBack`: `SafeSpec => []NeverGoesBack`.
* `RecordsAlwaysAgree`: `SafeSpec => []RecordsAgree`.
* `OnceUnlessCrossed`: `SafeSpec => []TwiceOnlyIfCrossed`.
* `ReportedHasBeenDone`: `SafeSpec => []ReportedIsDone`.
* `DomainsFollowStateMachine`: `SafeSpec => FollowsStateMachine`.
* `TypeCorrect`: `SafeSpec => []TypeOK`.

`Spec` of `MCServices` implies `SafeSpec`, so what TLC runs is an instance.  Each service has an
inductive invariant of its own; that a step of another service leaves it alone is one lemma
per service (`BreakerMoves` and its like), and a theorem puts together the services that its
property speaks of.  What the invariants add to the property is what a call in flight may
still rely on:

| service | invariant | what it adds |
|---|---|---|
| CircuitBreaker | `BreakerInv` | nothing: types and property are inductive |
| LiveState | `LiveInv` | the answers in flight are in the order of their requests, or count as late |
| TaskReview | `TaskInv` | who signed; where nothing crossed, no confirmation is under way beside a rejection |
| DecisionMemory | `MemInv` | while the candidate is pending, somebody is about to link what was made; who updates alone has embedded what the patch will make of the row, but for the parts it has empty |
| AuditChain | `AuditInv` | the entry to be inserted points to the latest row, where a tenant's writers did not overlap |
| FlagOverrides | `FlagInv` | an answer is still true, failed or crossed; a fresh entry is, or a write is about to clear it |
| TaskFeedback | `GrowthInv` | `LevelsHaveRoom`: the first skill's level plus the number of feedbacks that may still raise it is within the entries; where lists did not cross, what is listed is so |
| BillingWebhook | `BillInv` | what is to be marked was handled; what was handled is marked or about to be |
| OAuthState | `OAuthInv` | what was found valid in the store is gone from it |
| AgentBudget | `BudgetInv` | where no two executions crossed, what the only one has read still holds, and what was spent is what was charged or lost |
| TenantResolver | `TenantInv` | whoever is past a lookup has missed no tenant, unless it failed or was overtaken; whoever is due their own tenant is still to look where it is |
| SlidingWindow | `LimiterInv` | `Keeps`: Redis and memory each still hold what passed there within the window of every clock they were trimmed by, so counting what is held counts what passed |
| UsageQuota | `QuotaInv` | who was let through has room on whatever day the work is done; one record at most is owed |
| DeletionChecker | `GdprInv` | a check has left no row in the tables it is past, but for those written since |
| CustomDomains | `DomInv` | a domain in hand is in the state it was listed in, and with one run only |

Liveness under fairness is out of the prover's reach and stays with TLC: `DueJobIsServed`,
`OverdueIsEscalated`, `ExecutingEnds`, `LastingViolationIsMarked`, `BrokenOffIsSettled`,
`RevocationIsFinal` and `EverythingSettles`.  No recursive operator is used in a module that is proved
about.  Where a run does not list `TypeOK`, the theorem shows it.

## What is left out

Within the modelled packages: run and error counters, event payloads, wording, the texts
themselves, list queries, the events of one monitoring cycle as a list, tenants where a
store matches by tenant, and `persistPlan` as two inserts (its plan and its actions appear
in one step).  Stores are the in-memory ones, whose effect is at the call, except where
the code must expect others: JobEnabledSync has one that reorders, TaskFeedback one whose
lists are copies, and a store that rejects may have carried the request out in OAuthState,
TenantResolver, FlagOverrides, SlidingWindow and TaskFeedback.

Things the code does that no document rules out, and that no property forbids: a decision
in any status; the escalation of a submission decided after the listing; two executions
or two rollbacks of one action at once; a stale `loadEnabled` answer that undoes
`setJobEnabled(true)` in the process; the overlap of two registrations of one job name; a
record that is inserted after the purge of its table (it is bounded by `IngestedWithinTTL`);
a quota exceeded by requests that overlap; tables that a cascade does not come to because
`deleteRows` rejected before; a request that a Redis answer without a count lets through.

Where a property has an exception of its own for what the code does, this is what it is for:

* `EmbeddingFitsText` (in `RecordsAgree`) keeps in `unread` the parts of a text that its embedding
  has as empty.  `confirmPending` embeds subject and reason only (decision-service.ts:231), while
  the row gets the raw text as its context (line 238): until an update, such a decision is not
  found by its context.  `update` embeds `input.subject ?? existing.subject` (149, 151) but patches a
  subject or a reason only if it is not empty (157, 159): an update with an empty subject and a
  new reason embeds no subject, while the row keeps the one it had.  Everything else is excluded:
  no embedding is of a text that the row never had or no longer has, unless updates crossed.
* `OverspentOnlyCrossed` (in `TwiceOnlyIfCrossed`): an estimate binds no handler (executor.ts:29,
  139-141), so one run can overspend by what it costs beyond its estimate.  Such excesses do not
  add up: `excess` is the greatest one, not their sum.
* `UsedOnceUnlessCrossed` (in `TwiceOnlyIfCrossed`): a callback that passes `allowStoreMissFallback`
  accepts a state the store does not have, and so a used one (`FallsBack`, `trusted`).  The code has
  this off by default (oauth-state.ts:86-95, 120-125), a test says so (oauth-state.test.ts:175), and
  `OAuthManager` does not turn it on (oauth-manager.ts:177).  The package's README (line 59) and
  comments in its test (lines 147-151 and 189) still describe the fallback as what a store miss
  does; there the model follows the code, and the documentation is out of date.
* `RateIsLimited` (in `TwiceOnlyIfCrossed`) does not count a request as passed that was let through by
  an answer without a count (cache.ts:255).

## Not modelled

The map covers a small share of the implementation's lines, and will: most of the
repository is code that no state machine describes.

* The largest package by far, kit-dashboard, is browser code: charts and tables that render
  what they are given.  So are the widget store, hooks and palettes.
* Numerical packages (kit-causal-inference, forecast-engines, attribution-algos, ab-significance,
  stats-sim and the like) compute on floating point numbers, which neither TLC nor the
  provers have.
* Text packages (content-generation, compliance-jp, transcript-parser, sql-generator, the Slack
  and mail builders) are properties of strings.
* Adapters (persistence, supabase-dal, bigquery-admin, storage-upload, the LLM clients) turn a call
  into one request.  Their effect appears in the modules as the store that answers, rejects
  or has carried out what it rejects.
* Registries and CRUD services write one row per operation: nothing lies between their read
  and their write that another operation could fall into.
* rate-limiter has a protocol (allow and block lists, violations, back-off in Redis and in
  memory at once), but four counters per key in two places outgrow a useful instance; the
  window at its core is the one of `SlidingWindow`.
* Cryptography (auth-session, saml-sp, tenant-secrets, the hash of audit-log) is taken to be
  sound where a module needs it and is left alone elsewhere.

`PROJECT.json` says it for each package.

## Plan

The models of the plan are written, and every safety property of theirs is proved.
What may come next are larger instances for the liveness that TLC alone shows: two domains
for CustomDomains, two resolvers for TenantResolver, two scopes for FlagOverrides.
