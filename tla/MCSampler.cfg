SPECIFICATION Spec
CONSTANTS
    Vocab <- MCVocab
    Logits <- MCLogits
    Params <- MCParams
    WINDOW = 3
    CAP = 3
    MaxTokens = 3
INVARIANTS
    CandidatesExact
    BatchBlind
CHECK_DEADLOCK FALSE
