SPECIFICATION FairSpec
CONSTANTS
    Tenants = {t1, t2}
    Rules = {r1}
    Threshold = 2
    MaxEpisodes = 2
    Calls = {c1, c2}
    None = None
INVARIANTS
    OncePerEpisodeUnlessContended
    MarkedWasRolledBack
PROPERTIES
    LastingViolationIsMarked
