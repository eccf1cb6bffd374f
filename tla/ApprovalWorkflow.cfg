SPECIFICATION Spec
CONSTANTS
    Submissions = {s1}
    Approvers = {a1}
    Contents = {c1, c2}
    Risky = {c1}
    None = None
    Exceptions = {e1, e2}
    Ops = {o1, o2}
    MaxRequests = 5
    AuditMayFail = TRUE
INVARIANTS
    TypeOK
    CheckMatchesContent
    RejectedHasReason
    HandedWasAudited
    ExceptionIsAboutIt
    DecisionsAreAudited
CHECK_DEADLOCK FALSE
