------------------------------ MODULE Encoder -------------------------------
(***************************************************************************)
(* A batch of questions through the decision model in one pass: the batch  *)
(* and its checks (crates/vapi-engine/src/encoder.rs), the flat layout     *)
(* (crates/vapi-backend-candle/src/encoder.rs), the bidirectional encoder  *)
(* (models/modernbert.rs) and the decision head (models/laya.rs).          *)
(*                                                                         *)
(* The network is a small one over the integers modulo a prime: its        *)
(* "weights" are fixed and mean nothing, but what each number is computed  *)
(* from (which tokens, at which distance, through which layers, of which   *)
(* row) is the code's, and two results computed from different things      *)
(* differ except by chance.                                                *)
(*                                                                         *)
(* Positions and rows of the flat batch count from zero, as in the code;   *)
(* position p is entry p + 1 of a TLA+ sequence.                           *)
(***************************************************************************)
EXTENDS Integers, Sequences, SequencesExt, FiniteSetsExt

CONSTANTS
    num_hidden_layers,
    global_attn_every_n_layers,
    local_attention,          \* the window's full width
    max_position_embeddings,
    head_layers

P == 4093

Sum(f, S) == FoldSet(LAMBDA x, n : (n + f[x]) % P, 0, S)

-----------------------------------------------------------------------------
(* EncoderBatch.                                                           *)

\* What a backend would otherwise trust.
validate(rows, max_context) ==
    \A i \in DOMAIN rows :
        /\ Len(rows[i].tokens) \in 1..max_context
        /\ Len(rows[i].markers) >= 2
        /\ \A j \in DOMAIN rows[i].markers :
              /\ rows[i].markers[j] < Len(rows[i].tokens)
              /\ j > 1 => rows[i].markers[j] > rows[i].markers[j - 1]

max_len_of(rows) == Max({Len(rows[i].tokens) : i \in DOMAIN rows} \cup {0})

-----------------------------------------------------------------------------
(* Layout: where each row sits in the flat batch.                          *)

cu_seqlens(lengths) ==
    FoldLeft(LAMBDA cu, n : Append(cu, Last(cu) + n), <<0>>, lengths)

spans(cu) == [r \in 1..(Len(cu) - 1) |-> [start |-> cu[r], len |-> cu[r + 1] - cu[r]]]

total(cu) == Last(cu)

\* Position of every token within its own row.
positions(cu) ==
    FlattenSeq([r \in DOMAIN spans(cu) |-> [i \in 1..spans(cu)[r].len |-> i - 1]])

-----------------------------------------------------------------------------
(* ModernBert.                                                             *)

is_global(layer) ==
    global_attn_every_n_layers = 0 \/ layer % global_attn_every_n_layers = 0

window == local_attention \div 2

GLOBAL_THETA == 160
LOCAL_THETA == 10

\* Mutant: the window's full width taken as its reach on each side.
window_mask_full(len) ==
    [i \in 0..(len - 1) |-> {j \in 0..(len - 1) : i - j <= local_attention /\ j - i <= local_attention}]

\* The positions of its row that a position sees through the window.
window_mask(len) ==
    [i \in 0..(len - 1) |-> {j \in 0..(len - 1) : i - j <= window /\ j - i <= window}]

\* Masks are built for the reference path only; the kernel is handed the
\* window and the cumulative lengths.
prepare(cu, flash) ==
    [cu     |-> cu,
     pos    |-> positions(cu),
     flash  |-> flash,
     masks  |-> IF flash THEN <<>> ELSE [r \in DOMAIN spans(cu) |-> window_mask(spans(cu)[r].len)]]

\* The rotary embedding turns an absolute position into an angle; a score
\* depends on the difference of two of them.  theta 0 is no rotation.
AttentionTerm(layer, theta, xi, pi, xj, pj) ==
    LET s == xi + 7 * xj + theta * (pj - pi) + layer IN (s * s) % P

\* One row at a time over its own slice, with its window's mask if the layer
\* has a window.
attend_reference(x, layer, theta, ctx, windowed) ==
    FlattenSeq([r \in DOMAIN spans(ctx.cu) |->
        LET at  == spans(ctx.cu)[r].start
            len == spans(ctx.cu)[r].len
        IN  [i \in 1..len |->
               LET seen == IF windowed THEN ctx.masks[r][i - 1] ELSE 0..(len - 1)
               IN  Sum([j \in seen |-> AttentionTerm(layer, theta, x[at + i], ctx.pos[at + i],
                                                     x[at + j + 1], ctx.pos[at + j + 1])], seen)]])

\* The varlen kernel: the tokens between the same two cumulative lengths,
\* within the window on both sides.
flash_attn_varlen_windowed(x, layer, theta, ctx, windowed) ==
    [t \in 1..total(ctx.cu) |->
       LET r    == CHOOSE r \in DOMAIN spans(ctx.cu) :
                     t \in (ctx.cu[r] + 1)..ctx.cu[r + 1]
           seen == {u \in (ctx.cu[r] + 1)..ctx.cu[r + 1] :
                      windowed => u - t <= window /\ t - u <= window}
       IN  Sum([u \in seen |-> AttentionTerm(layer, theta, x[t], ctx.pos[t], x[u], ctx.pos[u])], seen)]

attend(x, layer, theta, ctx, windowed) ==
    (IF ctx.flash THEN flash_attn_varlen_windowed(x, layer, theta, ctx, windowed)
     ELSE attend_reference(x, layer, theta, ctx, windowed)) \o <<>>

\* Per-token maps: a norm, a feed-forward.
Norm(layer, v) == (3 * v + 11 * layer + 5) % P
Mlp(layer, v) == (v * v + 17 * layer + 2) % P

\* Layer 0 has no attention norm.
Layer_forward(x, layer, ctx) ==
    LET normed == IF layer = 0 THEN x ELSE [t \in DOMAIN x |-> Norm(layer, x[t])] \o <<>>
        att    == attend(normed, layer, IF is_global(layer) THEN GLOBAL_THETA ELSE LOCAL_THETA,
                         ctx, ~is_global(layer))
    IN  [t \in DOMAIN x |-> LET y == (x[t] + att[t]) % P IN (y + Mlp(layer, Norm(layer + 50, y))) % P] \o <<>>

Embed(token) == (29 * token + 1) % P

ModernBert_forward(ids, ctx) ==
    LET x == FoldLeft(LAMBDA h, layer : Layer_forward(h, layer - 1, ctx),
                      [t \in DOMAIN ids |-> Norm(99, Embed(ids[t]))] \o <<>>,
                      [l \in 1..num_hidden_layers |-> l])
    IN  [t \in DOMAIN x |-> Norm(98, x[t])] \o <<>>

-----------------------------------------------------------------------------
(* Laya: the decision head.                                                *)

\* Full attention within each row, no rotation.
HeadLayer_forward(x, layer, ctx) ==
    LET normed == [t \in DOMAIN x |-> Norm(70 + layer, x[t])] \o <<>>
        att    == attend(normed, 70 + layer, 0, ctx, FALSE)
    IN  [t \in DOMAIN x |-> LET y == (x[t] + att[t]) % P IN (y + Mlp(80 + layer, Norm(90 + layer, y))) % P]
          \o <<>>

TypeEmb(qtype) == 401 * (qtype + 1)

\* The type of every token's own row.
per_token(cu, qtypes) ==
    FlattenSeq([r \in DOMAIN spans(cu) |-> [i \in 1..spans(cu)[r].len |-> qtypes[r]]])

Scorer(v) == (v * v + 13 * v + 6) % P

ABSENT_MARKER == -10000

\* The act head reads the row's first token and four features of the answer
\* distribution: the best, its lead, the entropy, the number of options.  An
\* absent marker has probability zero.
act(pooled, logits, count, width) ==
    LET masked == [i \in 1..width |-> IF i <= count THEN logits[i] ELSE ABSENT_MARKER]
        sorted == SortSeq(masked \o <<>>, LAMBDA a, b : a > b)
        mass   == [i \in 1..width |-> IF masked[i] = ABSENT_MARKER THEN 0 ELSE masked[i]]
        k      == Max({count, 2})
    IN  (pooled * 3 + sorted[1] * 5 + (sorted[1] - sorted[2]) * 7 + Sum(mass, 1..width) * 11 + k) % P

\* Markers are relative to their row; the flat tensor wants them absolute.
MarkerIndex(start, at) == start + at

\* One entry per row, in the batch's order.
Laya_forward(tokens, lengths, markers, qtypes, flash) ==
    LET cu     == cu_seqlens(lengths)
        ctx    == prepare(cu, flash)
        enc    == ModernBert_forward(tokens, ctx)
        types  == per_token(cu, qtypes)
        h      == FoldLeft(LAMBDA x, layer : HeadLayer_forward(x, layer, ctx),
                           [t \in DOMAIN enc |-> (enc[t] + TypeEmb(types[t])) % P] \o <<>>,
                           [l \in 1..head_layers |-> l])
        width  == Max({Len(markers[r]) : r \in DOMAIN markers} \cup {0})
        \* An absent marker points at its row's first token.
        picked == [r \in DOMAIN lengths |-> [m \in 1..width |->
                     h[MarkerIndex(cu[r], IF m <= Len(markers[r]) THEN markers[r][m] ELSE 0) + 1]] \o <<>>]
        logits == [r \in DOMAIN lengths |-> [m \in 1..width |-> Scorer(picked[r][m])] \o <<>>] \o <<>>
    IN  [r \in DOMAIN lengths |->
           [logits |-> SubSeq(logits[r], 1, Len(markers[r])),
            act    |-> act(h[cu[r] + 1], logits[r], Len(markers[r]), width)]] \o <<>>

\* Flat and unpadded: rows end to end with their lengths alongside.
CandleEncoder_forward(rows, flash) ==
    IF rows = <<>> THEN <<>>
    ELSE Laya_forward(FlattenSeq([r \in DOMAIN rows |-> rows[r].tokens]),
                      [r \in DOMAIN rows |-> Len(rows[r].tokens)] \o <<>>,
                      [r \in DOMAIN rows |-> rows[r].markers] \o <<>>,
                      [r \in DOMAIN rows |-> rows[r].qtype] \o <<>>,
                      flash)
=============================================================================
