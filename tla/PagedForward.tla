---------------------------- MODULE PagedForward ----------------------------
(***************************************************************************)
(* One continuous batch through a paged model: ForwardBatch and its checks *)
(* (crates/vapi-engine/src/backend.rs), the paged cache and its writes and *)
(* gathers (crates/vapi-backend-candle/src/cache.rs, rows.rs), attention   *)
(* over a block table (attention.rs), the short convolution (fused.rs,     *)
(* models/lfm2.rs) and the layer loop the four architectures share         *)
(* (models/llama.rs, qwen.rs, lfm2.rs, laguna.rs).                         *)
(*                                                                         *)
(* Numbers are symbolic: a hidden state is the term of everything it was   *)
(* computed from, so two results are equal exactly when the model was fed  *)
(* the same tokens, positions and cached rows.  Projections, norms, the    *)
(* feed-forward and the rotation are functions of one token's row and      *)
(* appear as its tag and layer; what attention may see, where rows are     *)
(* written and from where they are read is kept as the code has it.        *)
(*                                                                         *)
(* Block ids, slots and positions count from zero, as in the code.         *)
(***************************************************************************)
EXTENDS Integers, Sequences, FiniteSets, SequencesExt, FiniteSetsExt

CONSTANTS
    BLOCK_SIZE,          \* tokens per block
    SCATTER_ABOVE_RUNS   \* above this many runs a write is one scatter

ASSUME BlockSizeAssumption == BLOCK_SIZE \in Nat \ {0}

-----------------------------------------------------------------------------
(* ForwardBatch: the work of one step, sequences concatenated.             *)

EmptyBatch ==
    [tokens |-> <<>>, positions |-> <<>>, cu_seqlens_q |-> <<0>>, cu_seqlens_k |-> <<0>>,
     slot_mapping |-> <<>>, block_tables |-> <<>>, logits_indices |-> <<>>]

batch_size(b) == Len(b.cu_seqlens_q) - 1

\* The flat slot of position i of a sequence with this block table.
SlotOf(table, i) == table[(i \div BLOCK_SIZE) + 1] * BLOCK_SIZE + (i % BLOCK_SIZE)

\* Append q tokens of sequence s, from the first one not computed yet; a row
\* of logits is asked for when they complete it.
push_seq_into_batch(b, s, q) ==
    [tokens         |-> b.tokens \o SubSeq(s.tokens, s.computed + 1, s.computed + q),
     positions      |-> b.positions \o [i \in 1..q |-> s.computed + i - 1],
     slot_mapping   |-> b.slot_mapping \o [i \in 1..q |-> SlotOf(s.blocks, s.computed + i - 1)],
     cu_seqlens_q   |-> Append(b.cu_seqlens_q, Last(b.cu_seqlens_q) + q),
     cu_seqlens_k   |-> Append(b.cu_seqlens_k, Last(b.cu_seqlens_k) + s.computed + q),
     block_tables   |-> Append(b.block_tables, s.blocks),
     logits_indices |-> IF s.computed + q >= Len(s.tokens)
                        THEN Append(b.logits_indices, Len(b.tokens) + q - 1)
                        ELSE b.logits_indices]

LenQ(b, i) == b.cu_seqlens_q[i + 1] - b.cu_seqlens_q[i]
LenK(b, i) == b.cu_seqlens_k[i + 1] - b.cu_seqlens_k[i]

\* The rows of sequence i: one-based indices into the batch's tokens.
RowsOf(b, i) == (b.cu_seqlens_q[i] + 1) .. b.cu_seqlens_q[i + 1]

\* The sequence a row belongs to.
SeqAt(b, t) == CHOOSE i \in 1..batch_size(b) : t \in RowsOf(b, i)

\* Every structural fact the paged kernels rely on.
validate(b, num_blocks) ==
    /\ Len(b.tokens) = Len(b.positions) /\ Len(b.tokens) = Len(b.slot_mapping)
    /\ Len(b.cu_seqlens_q) = Len(b.cu_seqlens_k)
    /\ b.cu_seqlens_q[1] = 0
    /\ Len(b.block_tables) = batch_size(b)
    /\ \A i \in 1..batch_size(b) : LenQ(b, i) >= 0 /\ LenK(b, i) >= 0
    /\ Last(b.cu_seqlens_q) = Len(b.tokens)
    /\ \A i \in 1..batch_size(b) :
          /\ LenQ(b, i) <= LenK(b, i)
          /\ Len(b.block_tables[i]) * BLOCK_SIZE >= LenK(b, i)
          /\ \A j \in DOMAIN b.block_tables[i] : b.block_tables[i][j] < num_blocks
          /\ \A t \in RowsOf(b, i) : t - 1 \in RowsOf(b, i) => b.positions[t] = b.positions[t - 1] + 1
    /\ IsInjective(b.slot_mapping)
    /\ \A t \in DOMAIN b.slot_mapping : b.slot_mapping[t] < num_blocks * BLOCK_SIZE
    /\ \A j \in DOMAIN b.logits_indices : b.logits_indices[j] < Len(b.tokens)

-----------------------------------------------------------------------------
(* The cache: per layer a K buffer and, for an attention layer, a V        *)
(* buffer, each a row per slot (with_layouts).  A convolution layer keeps  *)
(* its one row in the K buffer and has no V.                               *)

Zero == <<"zero">>

Buffers(arch) ==
    {<<"k", l>> : l \in DOMAIN arch.layers}
      \cup {<<"v", l>> : l \in {l \in DOMAIN arch.layers : arch.layers[l] # "conv"}}

with_layouts(arch, num_blocks) ==
    [buf \in Buffers(arch) |-> [s \in 0..(num_blocks * BLOCK_SIZE - 1) |-> Zero]]

slice_set(buf, rows, at) ==
    [s \in DOMAIN buf |-> IF s \in at..(at + Len(rows) - 1) THEN rows[s - at + 1] ELSE buf[s]]

\* candle's scatter_set: each row to the slot of the same index.
scatter_set(buf, slots, rows) ==
    [s \in DOMAIN buf |-> IF \E i \in DOMAIN slots : slots[i] = s
                          THEN rows[CHOOSE i \in DOMAIN slots : slots[i] = s]
                          ELSE buf[s]]

\* The same by the row kernel, and by an index prepared once per step.
scatter(buf, slots, rows) == scatter_set(buf, slots, rows)
scatter_rows(buf, idx, rows) == scatter_set(buf, idx, rows)

gather(buf, slots) == [i \in DOMAIN slots |-> buf[slots[i]]]

\* The indices at which a run of consecutive slots begins.
RunStarts(slots) == {i \in DOMAIN slots : i = 1 \/ slots[i] # slots[i - 1] + 1}

RunEnd(slots, i) == Min({j \in RunStarts(slots) : j > i} \cup {Len(slots) + 1}) - 1

\* The host path: few runs are written one slice each, many as one scatter.
write_rows(buf, slots, rows) ==
    IF Cardinality(RunStarts(slots)) <= SCATTER_ABOVE_RUNS
    THEN FoldLeft(LAMBDA c, i : IF i \in RunStarts(slots)
                                THEN slice_set(c, SubSeq(rows, i, RunEnd(slots, i)), slots[i])
                                ELSE c,
                  buf, [i \in DOMAIN slots |-> i])
    ELSE scatter_set(buf, slots, rows)

gather_kv(buf, table, len_k) == [i \in 1..len_k |-> buf[SlotOf(table, i - 1)]]

-----------------------------------------------------------------------------
(* What a step needs on the device, built once per step (prepare): the     *)
(* batch with its tables padded to a rectangle, and for each convolution   *)
(* tap the slot to read, or none before the sequence's start.              *)

CONV_PAD == -1

\* Rows are padded with their own last block, which is in range.
pack_block_tables(tables) ==
    LET width == Max({Len(tables[i]) : i \in DOMAIN tables} \cup {1})
    IN  [i \in DOMAIN tables |->
           tables[i] \o [j \in 1..(width - Len(tables[i])) |-> IF tables[i] = <<>> THEN 0 ELSE Last(tables[i])]]

conv_taps(b, back) ==
    [t \in DOMAIN b.tokens |->
       IF b.positions[t] >= back
       THEN SlotOf(b.block_tables[SeqAt(b, t)], b.positions[t] - back)
       ELSE CONV_PAD]

\* llama and laguna build it from the batch, qwen's QwenInputs hold the same.
StepContext(b) ==
    [tokens |-> b.tokens, positions |-> b.positions, slots |-> b.slot_mapping,
     seqlens_q |-> b.cu_seqlens_q, seqlens_k |-> b.cu_seqlens_k,
     block_table |-> pack_block_tables(b.block_tables),
     conv_idx |-> <<>>, logits_indices |-> b.logits_indices]

Lfm2Inputs(arch, b) ==
    [StepContext(b) EXCEPT !.conv_idx = [k \in 1..arch.conv_kernel |-> conv_taps(b, arch.conv_kernel - k)]]

prepare(arch, b) == IF arch.model = "lfm2" THEN Lfm2Inputs(arch, b) ELSE StepContext(b)

\* The inputs seen as a batch again, for the accessors above.
AsBatch(in) == [cu_seqlens_q |-> in.seqlens_q, cu_seqlens_k |-> in.seqlens_k]

-----------------------------------------------------------------------------
(* One layer.  x is the batch's hidden rows; a layer first writes its rows *)
(* at the step's slots and then reads the cache.  (A row sequence ends in  *)
(* "\o <<>>" so that TLC evaluates it once and not at every use.)          *)

\* A key carries its rotation: the table of its layer type and its position.
KRow(l, rope, h, p) == <<"k", l, rope, p, h>>
VRow(l, h) == <<"v", l, h>>
ConvRow(l, h) == <<"h", l, h>>

\* The keys a query at position p sees: none after it, and under a sliding
\* window none w or more before it (no window is 0).
Visible(p, window) == {k \in 0..p : window = 0 \/ p - k < window}

\* Query j of a sequence sits at position len_k - len_q + j, whatever the
\* batch's positions say: the causal mask is aligned bottom right.
paged_attention(in, k_cache, v_cache, window, t) ==
    LET b == AsBatch(in)
        i == SeqAt(b, t)
        p == LenK(b, i) - LenQ(b, i) + (t - b.cu_seqlens_q[i] - 1)
        ks == gather_kv(k_cache, in.block_table[i], LenK(b, i))
        vs == gather_kv(v_cache, in.block_table[i], LenK(b, i))
    IN  [k \in Visible(p, window) |-> <<ks[k + 1], vs[k + 1]>>]

\* The two rows of every token of layer l.
KRows(l, rope, in, x) == [t \in DOMAIN x |-> KRow(l, rope, x[t], in.positions[t])]
VRows(l, x) == [t \in DOMAIN x |-> VRow(l, x[t])]

write_kv_to_cache(l, rope, in, x, cache) ==
    [cache EXCEPT ![<<"k", l>>] = write_rows(@, in.slots, KRows(l, rope, in, x)),
                  ![<<"v", l>>] = write_rows(@, in.slots, VRows(l, x))]

\* On CUDA the rows go through the scatter kernel, which a graph can capture.
KernelWrite(l, in, x, cache) ==
    [cache EXCEPT ![<<"k", l>>] = scatter(@, in.slots, KRows(l, "full", in, x)),
                  ![<<"v", l>>] = scatter(@, in.slots, VRows(l, x))]

\* Elsewhere lfm2 writes by the index prepared once per step.
IndexedWrite(l, in, x, cache) ==
    [cache EXCEPT ![<<"k", l>>] = scatter_rows(@, in.slots, KRows(l, "full", in, x)),
                  ![<<"v", l>>] = scatter_rows(@, in.slots, VRows(l, x))]

\* Attention of every row over the cache a layer has just written.
Attend(l, rope, window, in, x, cache) ==
    [x |-> [t \in DOMAIN x |-> <<"attn", l, x[t], in.positions[t], rope,
                                 paged_attention(in, cache[<<"k", l>>], cache[<<"v", l>>], window, t)>>] \o <<>>,
     cache |-> cache]

llama_attention(l, in, x, cache) ==
    Attend(l, "full", 0, in, x, write_kv_to_cache(l, "full", in, x, cache))

qwen_attention(arch, l, in, x, cache) ==
    LET wrote == IF arch.cuda THEN KernelWrite(l, in, x, cache)
                              ELSE write_kv_to_cache(l, "full", in, x, cache)
    IN  Attend(l, "full", 0, in, x, wrote)

lfm2_attention(arch, l, in, x, cache) ==
    LET wrote == IF arch.cuda THEN KernelWrite(l, in, x, cache)
                              ELSE IndexedWrite(l, in, x, cache)
    IN  Attend(l, "full", 0, in, x, wrote)

\* A sliding layer has its own window and its own rotation table.
laguna_attention(arch, l, in, x, cache) ==
    LET kind == arch.layers[l]
        window == IF kind = "sliding" THEN arch.sliding_window ELSE 0
    IN  Attend(l, kind, window, in, x, write_kv_to_cache(l, kind, in, x, cache))

\* The short convolution: the row of every token is stored, and then every
\* token reads its own and the rows before it, each by its slot.
conv_write(l, in, x, cache) ==
    [cache EXCEPT ![<<"k", l>>] = scatter(@, in.slots, [t \in DOMAIN x |-> ConvRow(l, x[t])])]

Tap(buf, slot) == IF slot = CONV_PAD THEN Zero ELSE gather(buf, <<slot>>)[1]

conv_apply(l, in, x, cache) ==
    [t \in DOMAIN x |-> <<"conv", l, x[t], [k \in DOMAIN in.conv_idx |->
                            Tap(cache[<<"k", l>>], in.conv_idx[k][t])]>>] \o <<>>

ShortConv(l, in, x, cache) ==
    LET c == conv_write(l, in, x, cache) IN [x |-> conv_apply(l, in, x, c), cache |-> c]

\* The experts the router picks for a row.  Which ones is a matter of the
\* weights; here neighbouring positions get overlapping pairs.
TopK(arch, h) == {(h[4] + j) % arch.experts : j \in 0..(arch.top_k - 1)}

\* The sparse feed-forward works expert by expert: the rows that chose it are
\* picked out, computed together and added back where they came from.
MoeBlock(arch, x) ==
    LET per_expert(e) == SelectSeq([t \in DOMAIN x |-> t], LAMBDA t : e \in TopK(arch, x[t]))
        index_add(out, idx, y) == [t \in DOMAIN out |-> out[t] \cup {y[i] : i \in {i \in DOMAIN idx : idx[i] = t}}]
        Expert(out, e) == LET idx == per_expert(e)
                          IN  index_add(out, idx, [i \in DOMAIN idx |-> <<e, x[idx[i]][3]>>])
        routed == FoldLeft(Expert, [t \in DOMAIN x |-> {}], [e \in 1..arch.experts |-> e - 1])
    IN  [t \in DOMAIN x |-> <<"moe", x[t], routed[t]>>] \o <<>>

-----------------------------------------------------------------------------
(* A block of each architecture: its operator, then the feed-forward,      *)
(* which is row by row unless it is sparse.                                *)

lfm2_block(arch, l, in, x, cache) ==
    IF arch.layers[l] = "conv" THEN ShortConv(l, in, x, cache) ELSE lfm2_attention(arch, l, in, x, cache)

laguna_block(arch, l, in, x, cache) ==
    LET h == laguna_attention(arch, l, in, x, cache)
    IN  [h EXCEPT !.x = IF l \in arch.sparse THEN MoeBlock(arch, @) ELSE @]

\* Model::forward: the architecture is fixed when the model is loaded.
Block(arch, l, in, x, cache) ==
    CASE arch.model = "llama"  -> llama_attention(l, in, x, cache)
      [] arch.model = "qwen"   -> qwen_attention(arch, l, in, x, cache)
      [] arch.model = "lfm2"   -> lfm2_block(arch, l, in, x, cache)
      [] arch.model = "laguna" -> laguna_block(arch, l, in, x, cache)

\* The layer loop up to layer n: the hidden rows and the cache it leaves.
Layers(arch, in, cache, n) ==
    FoldLeft(LAMBDA s, l : Block(arch, l, in, s.x, s.cache),
             [x |-> [t \in DOMAIN in.tokens |-> <<"token", in.tokens[t]>>] \o <<>>, cache |-> cache],
             [l \in 1..n |-> l])

\* forward_prepared: the rows the sampler asked for, and the cache with every
\* token written whether or not a row was asked for.
forward_prepared(arch, in, cache) ==
    LET s == Layers(arch, in, cache, Len(arch.layers))
    IN  [logits |-> [j \in DOMAIN in.logits_indices |-> s.x[in.logits_indices[j] + 1]],
         cache  |-> s.cache]

-----------------------------------------------------------------------------
(* The reference: the same model run over one whole sequence with no cache *)
(* at all.                                                                 *)

RECURSIVE Reference(_, _, _, _)
Reference(arch, tokens, l, p) ==
    LET h(q) == Reference(arch, tokens, l - 1, q)
        kind == arch.layers[l]
        seen == {q \in 0..p : kind = "full" \/ q > p - arch.sliding_window}
        attended == <<"attn", l, h(p), p, kind, [q \in seen |-> <<KRow(l, kind, h(q), q), VRow(l, h(q))>>]>>
        chosen == {p % arch.experts, (p + 1) % arch.experts}
    IN  CASE l = 0 -> <<"token", tokens[p + 1]>>
          [] l > 0 /\ kind = "conv" ->
                <<"conv", l, h(p), [k \in 1..arch.conv_kernel |->
                     LET back == arch.conv_kernel - k IN IF back > p THEN Zero ELSE ConvRow(l, h(p - back))]>>
          [] l > 0 /\ kind # "conv" /\ l \notin arch.sparse -> attended
          [] l > 0 /\ kind # "conv" /\ l \in arch.sparse ->
                <<"moe", attended, {<<e, h(p)>> : e \in chosen}>>
=============================================================================
