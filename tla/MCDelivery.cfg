SPECIFICATION FairSpec
CONSTANTS
    Rids = {"r1", "r2"}
    Workers = {"w1", "w2"}
    Tokens = 2
    MaxConcurrentSeqs = 2
    MaxRows = 2
    MaxStepFailures = 1
    MaxDeliver = 2
    MaxAckPending = 2
    MaxQueued = 1
    Instances <- MCInstances
INVARIANTS
    CacheOwn
    AnswersWhole
    InflightAccounted
    NoSilentHang
PROPERTY
    EverythingEnds
CHECK_DEADLOCK FALSE
