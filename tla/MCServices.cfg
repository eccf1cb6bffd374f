SPECIFICATION Spec
CONSTANTS
  Event = {"e1", "e2"}
  Subscribed = {"e1"}
  Delivery = {"d1", "d2"}
  User = {"u1", "u2"}
  Cascade <- MCCascade
  Optional = {"t2"}
  Check = {"k1", "k2"}
  Written <- MCWritten
  Stubborn = {"u2"}
  TaskOp = {"o1", "o2"}
  Issue = {"i1", "i2", "i3"}
  NoIssue = "none"
  MemOp = {"o1", "o2"}
  Decision = {"x1", "x2"}
  NoDecision = "none"
  Edited = {"x1"}
  Patch <- MCPatch
  Domain = {"d"}
  CnameRun = {"c1", "c2"}
  SslRun = {"s1"}
  BreakerCall = {"b1", "b2"}
  FailureThreshold = 2
  ResetTimeout = 2
  Tenant = {"t1", "t2"}
  Writer = {"w1", "w2"}
  MaxRows = 3
  MaxTime = 1
  Nonce = {"n1"}
  Type = {"p", "q"}
  Callback = {"c1", "c2"}
  MaxVersion = 3
  MaxFetches = 2
  Action = {"a1", "a2"}
  Estimate <- MCEstimate
  Cost = {0, 1, 2, 3}
  BudgetLimit = 2
  Exec = {"x1", "x2"}
  Deployment <- MCDeployment
  Resolver = {"r"}
  TenantCall = {"c1", "c2"}
  MaxTenants = 2
  Scope = {"global"}
  Read = {"g1", "g2"}
  Write = {"w"}
  TTL = 1
  Requests = 4
  RateLimit = 2
  Window = 2
  MaxClock = 2
  Metered = {"q1", "q2"}
  QuotaLimit = 1
  MaxDay = 1
  MaxActs = 2
  Skills = 3
  MaxPromotions = 2
  Top = 2
  Feedback = {"f1", "f2"}
  MaxEntries = 3
INVARIANTS
  TypeOK
  ReportedIsDone
  TwiceOnlyIfCrossed
  RecordsAgree
  OneFailureReopens
  NeverGoesBack
PROPERTIES
  FollowsStateMachine
  EverythingSettles
CHECK_DEADLOCK FALSE
