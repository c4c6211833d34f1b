SPECIFICATION Spec
CONSTANTS
    Requests <- MCRequests
    Eos <- MCEos
    CLOSING_BUDGET = 2
    MAX_DEPTH = 2
    MAX_WS_RUN = 1
    MAX_NUMBER_CHARS = 4
    MAX_STRING_CHARS = 4
INVARIANTS
    CompleteMeansValid
    NoDeadEnd
    ThinkingEnds
CHECK_DEADLOCK FALSE
