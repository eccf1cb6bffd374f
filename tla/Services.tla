------------------------------ MODULE Services ------------------------------
(* Services that read, do something elsewhere, and write: each on its own.   *)
(* service says whose turn it is for a whole behaviour, so that the state    *)
(* spaces add up and do not multiply.                                        *)
EXTENDS Naturals, Sequences

CONSTANTS Event, Subscribed, Delivery,                       \* BillingWebhook
          User, Cascade, Optional, Check, Written, Stubborn, \* DeletionChecker
          TaskOp, Issue, NoIssue,                            \* TaskReview
          MemOp, Decision, NoDecision, Edited, Patch,        \* DecisionMemory
          Domain, CnameRun, SslRun,                          \* CustomDomains
          BreakerCall, FailureThreshold, ResetTimeout,       \* CircuitBreaker
          Tenant, Writer, MaxRows, MaxTime,                  \* AuditChain
          Nonce, Type, Callback,                             \* OAuthState
          MaxVersion, MaxFetches,                            \* LiveState
          Action, Estimate, Cost, BudgetLimit, Exec,         \* AgentBudget
          Deployment, Resolver, TenantCall, MaxTenants,      \* TenantResolver
          Scope, Read, Write, TTL,                           \* FlagOverrides
          Requests, RateLimit, Window, MaxClock,             \* SlidingWindow
          Metered, QuotaLimit, MaxDay, MaxActs,              \* UsageQuota
          Skills, MaxPromotions, Top, Feedback, MaxEntries   \* TaskFeedback

\* Bounds and thresholds are numbers; a breaker takes a failure before it opens, and there
\* is a table to delete from.
ASSUME ServicesAssumption ==
  /\ FailureThreshold \in Nat \ {0} /\ ResetTimeout \in Nat
  /\ MaxVersion \in Nat \ {0} /\ MaxFetches \in Nat /\ MaxRows \in Nat /\ MaxTime \in Nat
  /\ BudgetLimit \in Nat /\ TTL \in Nat /\ Skills \in Nat \ {0} /\ MaxPromotions \in Nat
  /\ Requests \in Nat /\ RateLimit \in Nat /\ Window \in Nat /\ MaxClock \in Nat
  /\ QuotaLimit \in Nat /\ MaxDay \in Nat /\ MaxActs \in Nat
  /\ Top \in Nat /\ MaxEntries \in Nat /\ Len(Cascade) \in Nat \ {0}

\* A state of a login is one of the types it was created for, not an absence; a run is of
\* one cron; and the slug is "admin" where no address of an administrator is set.
ASSUME DataAssumption ==
  /\ Edited \subseteq Decision
  /\ Patch \subseteq UNION {[parts -> 0 .. 2] : parts \in SUBSET {"subject", "context", "reason"}}
  /\ Type \cap {"new", "gone"} = {}
  /\ Estimate \in [Action -> Nat] /\ Cost \subseteq Nat
  /\ CnameRun \cap SslRun = {}
  /\ \A w \in Written : w[2] \in User /\ \E i \in 1 .. Len(Cascade) : w[1] = Cascade[i]
  /\ \A d \in Deployment : d.email \/ d.slugIsAdmin

VARIABLES service,
          \* BillingWebhook
          processed, delivery, acked, done, again, billContended,
          \* DeletionChecker
          request, rows, missing, check, timer, gdprHealthy, excused,
          \* TaskReview
          status, externalId, issues, taskOp, approved, raced, taskContended,
          \* DecisionMemory
          candidate, linked, decision, memOp, made, memContended, mixed, unread,
          \* CustomDomains
          state, mapping, run, domHealthy, faulted, domContended,
          \* CircuitBreaker
          breaker, consecutiveFailures, sinceFailure, running, down, late,
          \* AuditChain
          auditRows, writer, clock, overlapped,
          \* OAuthState
          stored, callback, valid, twice, crossed, trusted,
          \* LiveState
          server, shown, fetches, debounce, event, floor,
          \* AgentBudget
          actionsApproved, usage, exec, spent, unrecorded, excess, execCrossed,
          \* TenantResolver
          deployment, tenants, own, cached, tenantCall, answer,
          \* FlagOverrides
          flagOff, flagCache, flagRead, flagWrite, storeUp,
          \* SlidingWindow
          now, zset, memList, limited, newest, behind,
          \* UsageQuota
          day, usageEvents, metered, acts, unseen, quotaCrossed,
          \* TaskFeedback
          level, entries, feedback, raised, listCrossed

Billing == INSTANCE BillingWebhook WITH contended <- billContended
Gdpr == INSTANCE DeletionChecker WITH healthy <- gdprHealthy
Task == INSTANCE TaskReview WITH Op <- TaskOp, op <- taskOp, contended <- taskContended
Memory == INSTANCE DecisionMemory WITH Op <- MemOp, op <- memOp, contended <- memContended
Domains == INSTANCE CustomDomains WITH healthy <- domHealthy, contended <- domContended
Breaker == INSTANCE CircuitBreaker WITH Call <- BreakerCall, state <- breaker
Audit == INSTANCE AuditChain WITH MaxClock <- MaxTime, rows <- auditRows
OAuth == INSTANCE OAuthState WITH State <- Nonce
Live == INSTANCE LiveState
Budget == INSTANCE AgentBudget WITH
  Limit <- BudgetLimit, approved <- actionsApproved, crossed <- execCrossed
Tenants == INSTANCE TenantResolver WITH Call <- TenantCall, call <- tenantCall
Flags == INSTANCE FlagOverrides WITH off <- flagOff, cache <- flagCache, read <- flagRead, write <- flagWrite
Limiter == INSTANCE SlidingWindow WITH Limit <- RateLimit, memory <- memList, request <- limited, late <- behind
Quota == INSTANCE UsageQuota WITH
  Request <- Metered, Limit <- QuotaLimit, events <- usageEvents, request <- metered, crossed <- quotaCrossed
Growth == INSTANCE TaskFeedback WITH crossed <- listCrossed

billing == <<processed, delivery, acked, done, again, billContended>>
gdpr == <<request, rows, missing, check, timer, gdprHealthy, excused>>
task == <<status, externalId, issues, taskOp, approved, raced, taskContended>>
memory == <<candidate, linked, decision, memOp, made, memContended, mixed, unread>>
domains == <<state, mapping, run, domHealthy, faulted, domContended>>
breakers == <<breaker, consecutiveFailures, sinceFailure, running, down, late>>
audit == <<auditRows, writer, clock, overlapped>>
oauth == <<stored, callback, valid, twice, crossed, trusted>>
live == <<server, shown, fetches, debounce, event, floor>>
budget == <<actionsApproved, usage, exec, spent, unrecorded, excess, execCrossed>>
tenancy == <<deployment, tenants, own, cached, tenantCall, answer>>
flags == <<flagOff, flagCache, flagRead, flagWrite, storeUp>>
limiter == <<now, zset, memList, limited, newest, behind>>
quota == <<day, usageEvents, metered, acts, unseen, quotaCrossed>>
growth == <<level, entries, feedback, raised, listCrossed>>
vars == <<service, billing, gdpr, task, memory, domains, breakers, audit, oauth, live, budget,
          tenancy, flags, limiter, quota, growth>>

Init ==
  /\ service \in {"billing", "gdpr", "task", "memory", "domains", "breakers", "audit", "oauth", "live", "budget",
                 "tenancy", "flags", "limiter", "quota", "growth"}
  /\ Billing!Init /\ Gdpr!Init /\ Task!Init /\ Memory!Init /\ Domains!Init
  /\ Breaker!Init /\ Audit!Init /\ OAuth!Init /\ Live!Init /\ Budget!Init
  /\ Tenants!Init /\ Flags!Init /\ Limiter!Init /\ Quota!Init /\ Growth!Init

Unless(s, name, v) == IF s = name THEN TRUE ELSE UNCHANGED v

\* A step of one service leaves the others alone.
At(s, A) ==
  /\ service = s /\ A /\ UNCHANGED service
  /\ Unless(s, "billing", billing) /\ Unless(s, "gdpr", gdpr) /\ Unless(s, "task", task)
  /\ Unless(s, "memory", memory) /\ Unless(s, "domains", domains) /\ Unless(s, "breakers", breakers)
  /\ Unless(s, "audit", audit) /\ Unless(s, "oauth", oauth) /\ Unless(s, "live", live)
  /\ Unless(s, "budget", budget) /\ Unless(s, "tenancy", tenancy) /\ Unless(s, "flags", flags)
  /\ Unless(s, "limiter", limiter) /\ Unless(s, "quota", quota) /\ Unless(s, "growth", growth)

Next ==
  \/ At("billing", Billing!Next) \/ At("gdpr", Gdpr!Next) \/ At("task", Task!Next)
  \/ At("memory", Memory!Next) \/ At("domains", Domains!Next) \/ At("breakers", Breaker!Next)
  \/ At("audit", Audit!Next) \/ At("oauth", OAuth!Next) \/ At("live", Live!Next)
  \/ At("budget", Budget!Next) \/ At("tenancy", Tenants!Next) \/ At("flags", Flags!Next)
  \/ At("limiter", Limiter!Next) \/ At("quota", Quota!Next) \/ At("growth", Growth!Next)

SafeSpec == Init /\ [][Next]_vars

-----------------------------------------------------------------------------
\* The types of all of them.
TypeOK ==
  /\ Billing!TypeOK /\ Gdpr!TypeOK /\ Task!TypeOK /\ Memory!TypeOK /\ Domains!TypeOK
  /\ Breaker!TypeOK /\ Audit!TypeOK /\ OAuth!TypeOK /\ Live!TypeOK /\ Budget!TypeOK
  /\ Tenants!TypeOK /\ Flags!TypeOK /\ Limiter!TypeOK /\ Quota!TypeOK /\ Growth!TypeOK

\* What a service reports as done has been done: a Stripe event that counts as
\* received was handled, a deletion request that is completed left nothing older
\* behind, a domain is active or in error for a reason, and a request has no tenant, or
\* not the member's own, only if a lookup of it had failed.
ReportedIsDone ==
  /\ Billing!AcceptedWasHandled
  /\ Gdpr!CompletedLeavesNothingOlder
  /\ Domains!EndsForAReason
  /\ Tenants!MembersGetTheirTenant /\ Tenants!UnresolvedOnlyOnFailure

\* What is meant to happen once happens again only where two calls had crossed, a mark
\* was lost, or the caller had asked for less: an event is handled, an OAuth state is
\* good for a login, an amount of the agents' budget is spent (but for what one run
\* costs beyond its estimate), the default tenant is created, a place in a rate limit or
\* a daily quota is taken.
TwiceOnlyIfCrossed ==
  /\ Billing!HandledAgainOnlyContended
  /\ OAuth!UsedOnceUnlessCrossed
  /\ Budget!OverspentOnlyCrossed
  /\ Tenants!SecondDefaultOnlyCrossed
  /\ Limiter!RateIsLimited /\ Quota!ExceededOnlyUnseen

\* Rows that speak of each other agree, where no two requests of a kind had
\* crossed: a task and its issue and the human who confirmed it, a candidate and the
\* decision made from it, a decision and its embedding (but for the parts that it was
\* embedded without), an audit entry and the one before it, a cached flag and its row, a
\* skill and the entries of the CV.
RecordsAgree ==
  /\ Task!IssueNeedsConfirmation /\ Task!SyncedToItsIssue
  /\ Memory!CandidateFitsDecision /\ Memory!EmbeddingFitsText
  /\ Audit!ChainVerifies
  /\ Flags!CacheIsTrue /\ Growth!LevelsAreEarned

\* One failed probe opens the breaker again, unless a late success came between.
OneFailureReopens == Breaker!OneFailureReopens

\* The live view shows nothing older than what was current at a request that it has
\* shown the answer of, however late the answers are.
NeverGoesBack == Live!NeverGoesBack

\* A domain follows its state machine unless runs of a cron overlapped on it.
FollowsStateMachine == Domains!FollowsStateMachine
=============================================================================
