SPECIFICATION SpillSpec
CONSTANTS
    NumBlocks = 4
    Watermark = 0
    BlockSize = 2
    TrackEvictions = TRUE
    NoHash = NoHash
    NoBlock = NoBlock
    Vocab = {"a"}
    EosTokens = {"e"}
    Jobs <- DefaultJobs
    MaxConcurrentSeqs = 2
    MaxBatchedTokens = 4
    PrefillChunkTokens = 4
    MaxContext = 8
    PrefixCache = TRUE
    StopStrings = FALSE
    FaultyBackend = TRUE
    MaxSeqs = 5
    RamMax = 1
    DiskMax = 2
    NoBytes = NoBytes
    DefaultNs = "t1"
CHECK_DEADLOCK FALSE
INVARIANTS
    SpillFaithful
PROPERTIES
    RestoresPrompt
