SPECIFICATION FairSpec
CONSTANTS
    NumBlocks = 4
    Watermark = 0
    BlockSize = 2
    TrackEvictions = FALSE
    NoHash = NoHash
    NoBlock = NoBlock
    Vocab = {"b", "e"}
    EosTokens = {"e"}
    Jobs <- PlainJobs
    MaxConcurrentSeqs = 2
    MaxBatchedTokens = 3
    PrefillChunkTokens = 2
    MaxContext = 7
    PrefixCache = TRUE
    StopStrings = TRUE
    FaultyBackend = TRUE
    MaxSeqs = 3
CHECK_DEADLOCK FALSE
INVARIANTS
    OneQueue
    NoLeak
    KvCorrect
    CachedAreOwn
    NoOvertaking
    GenerationBounded
PROPERTIES
    EveryoneServed
