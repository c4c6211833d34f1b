SPECIFICATION Spec
CONSTANTS
    NumBlocks = 3
    Watermark = 1
    BlockSize = 2
    TrackEvictions = TRUE
    NoHash = NoHash
    NoBlock = NoBlock
    Hashes = {h1, h2, h3}
    Handles = {r1, r2, r3, r4}
    MaxEvicted = 1
SYMMETRY Symmetry
INVARIANTS
    PoolConsistent
    RefcountExact
    IndexFaithful
PROPERTIES
    EvictOnlyUnderPressure
