CONSTANTS
    Raw <- MCRaw
    Asks <- MCAsks
    Requests = {r1, r2, r3}
    OPTION_TOKEN_CAP = 3
    MIN_OPTION_BUDGET = 3
    MIN_HEAD_TOKENS = 2
    MIN_TOKENS_PER_OPTION = 2
    truncate_left = FALSE
    num_hidden_layers = 3
    global_attn_every_n_layers = 2
    local_attention = 4
    max_position_embeddings = 20
    head_layers = 2
    max_requests = 3
    max_rows = 3
    max_batched_tokens = 30
    MaxFaults = 1
SYMMETRY Symmetry
SPECIFICATION Spec
INVARIANTS
    AnswersOwn
    MarkersExact
    OptionsKept
    InArrivalOrder
