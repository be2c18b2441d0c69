CONSTANTS
    IPs = {i1}
    Points = 2
    Duration = 2
    None = None
    Checks = {c1, c2}
    PoolMax = 1
    Timeout = 1
    MaxQueries = 2
SPECIFICATION FairSpec
CHECK_DEADLOCK FALSE
INVARIANT TypeOK
INVARIANT AdmissionsAreBounded
INVARIANT RefusalIsEarned
INVARIANT ServingIsTruthful
INVARIANT OutageIsExplained
PROPERTY EveryCheckIsReported
