SPECIFICATION Spec
CONSTANTS
  Run = {"r1", "r2"}
  seo = seo
  cms = cms
  sns = sns
  Order <- MCOrder
  Registered = {seo, cms, sns}
INVARIANTS
  NothingLeftUnreported
  LogLosesOnlyOverlapped
  LogAndAuditAgree
PROPERTIES
  KeepsOutcome
  BrokenOffIsSettled
CHECK_DEADLOCK FALSE
