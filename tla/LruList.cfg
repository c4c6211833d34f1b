SPECIFICATION Spec
CONSTANTS
    NumBlocks = 5
    Watermark = 0
    BlockSize = 1
    TrackEvictions = FALSE
    NoHash = NoHash
    NoBlock = NoBlock
PROPERTY ImplementsList
