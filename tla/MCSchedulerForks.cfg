SPECIFICATION Spec
CONSTANTS
    NumBlocks = 4
    Watermark = 0
    BlockSize = 2
    TrackEvictions = FALSE
    NoHash = NoHash
    NoBlock = NoBlock
    Vocab = {"a", "b"}
    EosTokens = {"e"}
    Jobs <- ForkJobs
    MaxConcurrentSeqs = 3
    MaxBatchedTokens = 3
    PrefillChunkTokens = 2
    MaxContext = 6
    PrefixCache = TRUE
    StopStrings = FALSE
    FaultyBackend = TRUE
    MaxSeqs = 4
CHECK_DEADLOCK FALSE
INVARIANTS
    IndexCorrect
    WritesPrivate
    ForksSound
