SPECIFICATION Spec
CONSTANTS
    BLOCK_SIZE = 2
    SCATTER_ABOVE_RUNS = 2
    Seqs <- MCSeqs
    Prompts <- MCPrompts
    Archs <- MCArchs
    NumBlocks = 6
    MAX_BUCKET = 4
    RESERVED_BLOCKS = 2
    TABLE_BUCKET = 1
    MaxLen = 5
    MaxTokens = 2
    MaxStarts = 3
INVARIANTS
    LogitsExact
    NothingRefused
PROPERTIES
    OthersUntouched
CHECK_DEADLOCK FALSE
