SPECIFICATION Spec
CONSTANTS
    Hashes = {h1, h2, h3, h4}
    BlockBytes = 2
    RamMax = 4
    DiskMax = 4
    NoBytes = NoBytes
    TornWrites = TRUE
SYMMETRY Symmetry
INVARIANTS
    Accounting
    ReturnsOwn
