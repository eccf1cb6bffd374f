SPECIFICATION FairSpec
CONSTANTS
    Jobs = {j1, j2}
    Ticks = {t1, t2}
    MaxRegistrations = 2
    MaxInitLoops = 1
    StoreRejects = TRUE
    NoJob = NoJob
INVARIANTS
    TypeOK
    AtMostOneRun
    LockIsExact
    ClaimedIsDue
PROPERTIES
    DueJobIsServed
