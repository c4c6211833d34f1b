SPECIFICATION Spec
CONSTANTS
    Requests <- MCAllRequests
    Eos <- MCEos
INVARIANTS
    DetokenizerExact
    StopStringsRespected
    CutsDoNotShow
    CallsDelivered
CHECK_DEADLOCK FALSE
