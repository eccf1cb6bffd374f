SPECIFICATION FairSpecE
CONSTANTS
    Approvers = {a1, a2}
    Risky = {c1}
    None = None
    NextApprover = a2
    MaxEscalations = 2
    AuditMayFail = TRUE
    Ops = {o1}
    Submissions = {s1, s2}
    Exceptions = {e1}
    Contents = {c1, c2}
    MaxRequests = 3
    Jobs = {j1}
    NoPolicy = {s2}
INVARIANTS
    EscalatedOnce
PROPERTIES
    OverdueIsEscalated
CHECK_DEADLOCK FALSE
