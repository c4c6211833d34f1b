--------------------------- MODULE CandleBackend ----------------------------
(***************************************************************************)
(* The backend between the engine and the device                           *)
(* (crates/vapi-backend-candle/src/backend.rs): sizing and warm-up at      *)
(* load, a step run eagerly or through a captured CUDA graph, a block      *)
(* exported to host memory and imported into another block, and the copy   *)
(* of a block when a sequence forks.  The model itself is PagedForward.    *)
(*                                                                         *)
(* The caller is the engine: it hands out blocks below num_blocks() only,  *)
(* writes a position once, and reuses a block as soon as nobody holds it,  *)
(* so what an earlier sequence left in a block is always there to be read  *)
(* by mistake.                                                             *)
(***************************************************************************)
EXTENDS PagedForward

CONSTANTS
    Seqs,             \* slots for running sequences, 1..n
    Prompts,          \* the token sequences requests start with
    Archs,            \* the architectures a backend may be loaded with
    NumBlocks,        \* opts.num_blocks, the reserved ones included
    MAX_BUCKET,       \* most sequences a captured decode step takes
    RESERVED_BLOCKS,  \* blocks kept for padding rows when graphs are on
    TABLE_BUCKET,     \* block-table widths are rounded up to this
    MaxLen,           \* max_context: a sequence this long is finished
    MaxTokens,        \* max_tokens: so is one that has sampled as many
    MaxStarts         \* bound: sequences ever started

VARIABLES
    arch,      \* the loaded model and its device
    cache,     \* PagedKvCache: buffer -> slot -> row
    graphs,    \* GraphRunner.graphs: (bucket, blocks) -> captured inputs
    disabled,  \* GraphRunner.disabled
    seqs,      \* engine: running sequences
    index,     \* engine: block -> the prefix its full content stands for
    host,      \* engine: one spilled block
    reply,     \* the logits the last step returned, by sequence
    fault,     \* the last step failed on a check of its own
    starts

vars == <<arch, cache, graphs, disabled, seqs, index, host, reply, fault, starts>>

Idle == [tokens |-> <<>>, computed |-> 0, blocks |-> <<>>, sampled |-> 0]
Live == {s \in Seqs : seqs[s] # Idle}
NoBlock == [prefix |-> <<>>, bytes |-> <<>>]

-----------------------------------------------------------------------------
(* Loading.                                                                *)

\* A runner is built only for an architecture that can be captured.
GraphsOn(a) == a.cuda_graphs /\ a.cuda /\ a.model \in {"lfm2", "qwen"}

reserved_blocks(a) == IF GraphsOn(a) THEN RESERVED_BLOCKS ELSE 1

num_blocks == NumBlocks - reserved_blocks(arch)

WarmUpBatch ==
    [tokens |-> <<0>>, positions |-> <<0>>, cu_seqlens_q |-> <<0, 1>>, cu_seqlens_k |-> <<0, 1>>,
     slot_mapping |-> <<(NumBlocks - 1) * BLOCK_SIZE>>, block_tables |-> << <<NumBlocks - 1>> >>,
     logits_indices |-> <<0>>]

-----------------------------------------------------------------------------
(* The graph runner.                                                       *)

is_pure_decode(b) ==
    /\ batch_size(b) \in 1..MAX_BUCKET
    /\ Len(b.tokens) = batch_size(b)
    /\ b.logits_indices = [i \in 1..batch_size(b) |-> i - 1]

RECURSIVE next_power_of_two(_)
next_power_of_two(n) == IF n <= 1 THEN 1 ELSE 2 * next_power_of_two((n + 1) \div 2)

bucket_of(b) == next_power_of_two(batch_size(b))
widest(b) == Max({Len(b.block_tables[i]) : i \in DOMAIN b.block_tables})
blocks_of(b) == ((widest(b) + TABLE_BUCKET - 1) \div TABLE_BUCKET) * TABLE_BUCKET

\* The block padding row j goes to: the reserved ones, at the cache's end.
PaddingBlockTooLow(j) == NumBlocks - RESERVED_BLOCKS - 1 + (j \div BLOCK_SIZE)
PaddingBlock(j) == NumBlocks - RESERVED_BLOCKS + (j \div BLOCK_SIZE)

\* Padding rows are token 0 at position 0, one key each, in reserved blocks.
padded(b) ==
    LET n == bucket_of(b) - batch_size(b)
        Table(t) == t \o [j \in 1..(blocks_of(b) - Len(t)) |-> Last(t)]
        Pad(F(_)) == [j \in 1..n |-> F(j - 1)]
    IN  [tokens         |-> b.tokens \o Pad(LAMBDA j : 0),
         positions      |-> b.positions \o Pad(LAMBDA j : 0),
         slot_mapping   |-> b.slot_mapping \o Pad(LAMBDA j : PaddingBlock(j) * BLOCK_SIZE + (j % BLOCK_SIZE)),
         cu_seqlens_q   |-> b.cu_seqlens_q \o Pad(LAMBDA j : Last(b.cu_seqlens_q) + j + 1),
         cu_seqlens_k   |-> b.cu_seqlens_k \o Pad(LAMBDA j : Last(b.cu_seqlens_k) + j + 1),
         block_tables   |-> [i \in DOMAIN b.block_tables |-> Table(b.block_tables[i])]
                              \o Pad(LAMBDA j : [k \in 1..blocks_of(b) |-> PaddingBlock(j)]),
         logits_indices |-> b.logits_indices \o Pad(LAMBDA j : batch_size(b) + j)]

\* Every device tensor is overwritten in place; a tensor of another shape is
\* refused.
SameShape(dst, src) ==
    /\ Len(dst.tokens) = Len(src.tokens)
    /\ Len(dst.seqlens_q) = Len(src.seqlens_q) /\ Len(dst.seqlens_k) = Len(src.seqlens_k)
    /\ Len(dst.block_table) = Len(src.block_table)
    /\ \A i \in DOMAIN dst.block_table : Len(dst.block_table[i]) = Len(src.block_table[i])
    /\ DOMAIN dst.conv_idx = DOMAIN src.conv_idx
    /\ Len(dst.logits_indices) = Len(src.logits_indices)

\* The conv taps left as the captured step had them.
copy_from_no_taps(dst, src) == [src EXCEPT !.conv_idx = dst.conv_idx]

copy_from(dst, src) ==
    [tokens |-> src.tokens, positions |-> src.positions, slots |-> src.slots,
     seqlens_q |-> src.seqlens_q, seqlens_k |-> src.seqlens_k, block_table |-> src.block_table,
     conv_idx |-> src.conv_idx, logits_indices |-> src.logits_indices]

\* A graph found by its bucket alone serves tables of another width.
BucketOnly(b) == <<bucket_of(b), 0>>
graph_key(b) == <<bucket_of(b), blocks_of(b)>>

\* What a step does to the device and to the runner: graphs' and disabled',
\* the inputs the device runs, and whether they are replayed or refused.
Eager(b, off) ==
    [graphs |-> graphs, disabled |-> off, in |-> prepare(arch, b), fault |-> FALSE]

\* The outcomes of try_decode followed by the eager run when it declines.
\* Capturing records the step without running it; it may fail, and then this
\* step and every later one run eagerly.
try_decode(b) ==
    IF disabled \/ ~is_pure_decode(b) THEN {Eager(b, disabled)}
    ELSE IF ~arch.graph_safe THEN {Eager(b, TRUE)}
    ELSE LET key == graph_key(b)
             fresh == prepare(arch, padded(b))
             Replay(in, bad) == [graphs |-> [k \in DOMAIN graphs \cup {key} |->
                                               IF k = key THEN in ELSE graphs[k]],
                                 disabled |-> FALSE, in |-> in, fault |-> bad]
         IN  IF key \in DOMAIN graphs
             THEN {Replay(copy_from(graphs[key], fresh), ~SameShape(graphs[key], fresh))}
             ELSE {Replay(fresh, FALSE), Eager(b, TRUE)}

\* The ways a batch may reach the device: only the greedy entry point tries a
\* captured graph.
Runs(b, greedy) == IF greedy /\ GraphsOn(arch) THEN try_decode(b) ELSE {Eager(b, disabled)}

-----------------------------------------------------------------------------
(* The engine's side of a step.                                            *)

Held == UNION {ToSet(seqs[s].blocks) : s \in Seqs}

\* Blocks nobody holds, those with no indexed content first.
FreeBlocks(used) ==
    LET free == SetToSortSeq((0..(num_blocks - 1)) \ used, <)
    IN  SelectSeq(free, LAMBDA k : index[k] = <<>>) \o SelectSeq(free, LAMBDA k : index[k] # <<>>)

BlocksFor(n) == (n + BLOCK_SIZE - 1) \div BLOCK_SIZE

\* The sequences of a step with blocks for q[s] more tokens each, taken in
\* order from the free ones.
Extended(q) ==
    LET Take(acc, s) ==
          IF q[s] = 0 THEN acc
          ELSE LET more == BlocksFor(seqs[s].computed + q[s]) - Len(seqs[s].blocks)
                   n == Min({Max({more, 0}), Len(acc.left)})
               IN  [left |-> SubSeq(acc.left, n + 1, Len(acc.left)),
                    seqs |-> [acc.seqs EXCEPT ![s].blocks = @ \o SubSeq(acc.left, 1, n)]]
    IN  FoldLeft(Take, [left |-> FreeBlocks(Held), seqs |-> seqs], SetToSortSeq(Seqs, <)).seqs

Covered(ext, q) == \A s \in Seqs : q[s] > 0 => Len(ext[s].blocks) >= BlocksFor(ext[s].computed + q[s])

\* Blocks that changed hands no longer stand for what they held.
Unindexed(ext) ==
    LET taken == UNION {ToSet(ext[s].blocks) : s \in Seqs} \ Held
    IN  [k \in DOMAIN index |-> IF k \in taken THEN <<>> ELSE index[k]]

\* The running sequences in batch order, and the batch they make.
Scheduled(q) == SetToSortSeq({s \in Live : q[s] > 0}, <)
BatchOf(ext, q) == FoldLeft(LAMBDA b, s : push_seq_into_batch(b, ext[s], q[s]), EmptyBatch, Scheduled(q))

\* A chunk of every sequence: one token of a decoding one, all that is left
\* of a prompt, or its first token alone.
Chunks ==
    {q \in [Seqs -> 0..MaxLen] :
       /\ Live # {}
       /\ \A s \in Live : \/ q[s] = Len(seqs[s].tokens) - seqs[s].computed
                          \/ q[s] = 1 /\ seqs[s].computed = 0
       /\ \A s \in Seqs \ Live : q[s] = 0}

Completes(ext, q) == SelectSeq(Scheduled(q), LAMBDA s : ext[s].computed + q[s] = Len(ext[s].tokens))

\* The engine commits a finished step: positions are computed, full blocks
\* are indexed by the prefix they end, and a sampled token is appended, which
\* may finish its sequence.
Committed(ext, q, token) ==
    LET done == ToSet(Completes(ext, q))
        Grown(s) == [ext[s] EXCEPT !.computed = @ + q[s], !.tokens = Append(@, token), !.sampled = @ + 1]
        Finished(s) == Grown(s).sampled = MaxTokens \/ Len(Grown(s).tokens) = MaxLen
    IN  [s \in Seqs |-> CASE s \in done /\ ~Finished(s) -> Grown(s)
                          [] s \in done /\ Finished(s) -> Idle
                          [] s \notin done -> [ext[s] EXCEPT !.computed = @ + q[s]]]

Indexed(ix, ext, q) ==
    [k \in DOMAIN ix |->
       LET full == {<<s, i>> \in Live \X (1..MaxLen) :
                      /\ q[s] > 0 /\ i * BLOCK_SIZE <= ext[s].computed + q[s]
                      /\ ext[s].blocks[i] = k}
       IN  IF full = {} THEN ix[k]
           ELSE LET f == CHOOSE f \in full : TRUE IN SubSeq(ext[f[1]].tokens, 1, f[2] * BLOCK_SIZE)]

\* Bound: when nothing can start any more, what a failure, a release or a
\* spill leaves behind is read by nobody.
MoreToCome == starts < MaxStarts

-----------------------------------------------------------------------------
Init ==
    /\ arch \in Archs
    /\ cache = with_layouts(arch, NumBlocks)
    /\ graphs = <<>> /\ disabled = FALSE
    /\ seqs = [s \in Seqs |-> Idle]
    /\ index = [k \in 0..(NumBlocks - 1) |-> <<>>]
    /\ host = NoBlock /\ reply = <<>> /\ fault = FALSE /\ starts = -1

\* finish_load ends with one greedy token in the last block.
WarmUp ==
    /\ starts = -1 /\ starts' = 0
    /\ \E r \in Runs(WarmUpBatch, TRUE) :
          /\ cache' = forward_prepared(arch, r.in, cache).cache
          /\ graphs' = r.graphs /\ disabled' = r.disabled
    /\ UNCHANGED <<arch, seqs, index, host, reply, fault>>

\* The longest run of indexed blocks that covers a proper prefix.
HitBlocks(prompt) ==
    LET Has(i) == \E k \in DOMAIN index : index[k] = SubSeq(prompt, 1, i * BLOCK_SIZE)
        n == Max({0} \cup {i \in 1..Len(prompt) : i * BLOCK_SIZE < Len(prompt) /\ \A j \in 1..i : Has(j)})
    IN  [i \in 1..n |-> CHOOSE k \in DOMAIN index : index[k] = SubSeq(prompt, 1, i * BLOCK_SIZE)]

\* K of every layer and then V of those that have one, in layer order.
BufferOrder ==
    LET layers == [l \in 1..Len(arch.layers) |-> l]
    IN  [l \in DOMAIN layers |-> <<"k", l>>]
          \o SelectSeq([l \in DOMAIN layers |-> <<"v", l>>], LAMBDA buf : buf \in Buffers(arch))

SlotsOfBlock(k) == (k * BLOCK_SIZE)..((k + 1) * BLOCK_SIZE - 1)

export_block(k) ==
    [i \in DOMAIN BufferOrder |-> [o \in 0..(BLOCK_SIZE - 1) |-> cache[BufferOrder[i]][k * BLOCK_SIZE + o]]]

\* Bytes of another length are refused; parts are taken off the front in the
\* order they were written.
import_block(c, k, bytes) ==
    [buf \in DOMAIN c |-> [s \in DOMAIN c[buf] |->
       IF s \in SlotsOfBlock(k)
       THEN LET i == CHOOSE i \in DOMAIN BufferOrder : BufferOrder[i] = buf
            IN  bytes[i][s - k * BLOCK_SIZE]
       ELSE c[buf][s]]]

copy_blocks(c, src, dst) ==
    [buf \in DOMAIN c |-> [s \in DOMAIN c[buf] |->
       IF s \in SlotsOfBlock(dst) THEN c[buf][(s - dst * BLOCK_SIZE) + src * BLOCK_SIZE] ELSE c[buf][s]]]

\* A request starts on the blocks of its cached prefix, and on one restored
\* from host memory when that is what comes next.
Start(s, prompt) ==
    /\ starts >= 0 /\ MoreToCome /\ seqs[s] = Idle
    /\ \A r \in Seqs : r < s => seqs[r] # Idle
    /\ LET hit == HitBlocks(prompt)
           end == (Len(hit) + 1) * BLOCK_SIZE
           free == FreeBlocks(Held \cup ToSet(hit))
           restore == /\ end < Len(prompt) /\ host.prefix = SubSeq(prompt, 1, end)
                      /\ free # <<>>
                      /\ Len(host.bytes) = Len(BufferOrder)
       IN  IF restore
           THEN /\ cache' = import_block(cache, Head(free), host.bytes)
                /\ index' = [index EXCEPT ![Head(free)] = host.prefix]
                /\ seqs' = [seqs EXCEPT ![s] = [tokens |-> prompt, computed |-> end, blocks |-> Append(hit, Head(free)),
                                                    sampled |-> 0]]
           ELSE /\ seqs' = [seqs EXCEPT ![s] = [tokens |-> prompt, computed |-> Len(hit) * BLOCK_SIZE, blocks |-> hit,
                                                    sampled |-> 0]]
                /\ UNCHANGED <<cache, index>>
    /\ starts' = starts + 1 /\ reply' = <<>>
    /\ UNCHANGED <<arch, graphs, disabled, host, fault>>

\* One step through forward or forward_greedy, token being what is sampled.
\* A result has a row per batch member asked for; padding rows are cut off.
Step(q, greedy, token) ==
    \E ext \in {Extended(q)} :
      /\ Covered(ext, q)
      /\ \E b \in {BatchOf(ext, q)} : \E r \in Runs(b, greedy) : \E out \in {forward_prepared(arch, r.in, cache)} :
            LET done == Completes(ext, q)
            IN  /\ cache' = IF r.fault THEN cache ELSE out.cache
                /\ graphs' = r.graphs /\ disabled' = r.disabled
                /\ fault' = (r.fault \/ ~validate(b, NumBlocks))
                /\ reply' = [i \in DOMAIN done |-> [tokens |-> ext[done[i]].tokens, row |-> out.logits[i]]]
                /\ seqs' = Committed(ext, q, token)
                /\ index' = Indexed(Unindexed(ext), ext, q)
      /\ UNCHANGED <<arch, host, starts>>

\* The device fails between two layers, with the first n written; the
\* engine gives up every running sequence.
StepFails(q, n) ==
    /\ MoreToCome
    /\ \E ext \in {Extended(q)} :
      /\ Covered(ext, q)
      /\ \E r \in Runs(BatchOf(ext, q), TRUE) :
            /\ ~r.fault
            /\ cache' = Layers(arch, r.in, cache, n).cache
            /\ graphs' = r.graphs /\ disabled' = r.disabled
      /\ index' = Unindexed(ext)
      /\ seqs' = [s \in Seqs |-> Idle] /\ reply' = <<>>
      /\ UNCHANGED <<arch, host, fault, starts>>

\* A sequence that has sampled is duplicated: full blocks are shared, the
\* block it is writing is copied.
Fork(s, t) ==
    /\ s \in Live /\ seqs[t] = Idle
    /\ seqs[s].sampled > 0
    /\ MoreToCome /\ starts' = starts + 1
    /\ \A r \in Seqs : r < t => seqs[r] # Idle
    /\ LET open == (seqs[s].computed % BLOCK_SIZE) # 0
           free == FreeBlocks(Held)
       IN  /\ open => free # <<>>
           /\ cache' = IF open THEN copy_blocks(cache, Last(seqs[s].blocks), Head(free)) ELSE cache
           /\ index' = IF open THEN [index EXCEPT ![Head(free)] = <<>>] ELSE index
           /\ seqs' = [seqs EXCEPT ![t] =
                         [seqs[s] EXCEPT !.blocks = IF open THEN Append(Front(@), Head(free)) ELSE @]]
    /\ reply' = <<>>
    /\ UNCHANGED <<arch, graphs, disabled, host, fault>>

\* A stop string or a cancellation ends a sequence between steps.
Release(s) ==
    /\ MoreToCome /\ s \in Live /\ seqs[s].sampled > 0
    /\ seqs' = [seqs EXCEPT ![s] = Idle] /\ reply' = <<>>
    /\ UNCHANGED <<arch, cache, graphs, disabled, index, host, fault, starts>>

\* An indexed block nobody holds is spilled.
Export(k) ==
    /\ MoreToCome /\ host = NoBlock /\ index[k] # <<>> /\ k \notin Held
    /\ host' = [prefix |-> index[k], bytes |-> export_block(k)]
    /\ index' = [index EXCEPT ![k] = <<>>] /\ reply' = <<>>
    /\ UNCHANGED <<arch, cache, graphs, disabled, seqs, fault, starts>>

Next ==
    \/ WarmUp
    \/ \E s \in Seqs, p \in Prompts : Start(s, p)
    \/ \E q \in Chunks, greedy \in BOOLEAN, token \in {1} : Step(q, greedy, token)
    \/ \E q \in Chunks, n \in 1..(Len(arch.layers) - 1) : StepFails(q, n)
    \/ \E s, t \in Seqs : Fork(s, t)
    \/ \E s \in Seqs : Release(s)
    \/ \E k \in DOMAIN index : Export(k)

Spec == Init /\ [][Next]_vars
-----------------------------------------------------------------------------
(* What a step must be.                                                    *)

\* Every row of logits is the one the model gives for that sequence's tokens
\* alone, computed from nothing: whatever batch it shared, whatever blocks it
\* reused, shared, restored or copied, eagerly or replayed from a graph.
LogitsExact ==
    \A i \in DOMAIN reply :
        reply[i].row = Reference(arch, reply[i].tokens, Len(arch.layers), Len(reply[i].tokens) - 1)

\* No batch breaks what the kernels rely on and no captured graph is given
\* inputs of another shape than it was captured with.
NothingRefused == ~fault

\* A step writes no row but those of the positions it computes and those of
\* the blocks the backend keeps to itself: in particular a padded row, a
\* failed step and a restored block leave every computed position alone.
OthersUntouched ==
    [][\A s \in Seqs, p \in 0..(MaxLen - 1) :
          (seqs[s] # Idle /\ p < seqs[s].computed) =>
             \A buf \in DOMAIN cache :
                cache'[buf][SlotOf(seqs[s].blocks, p)] = cache[buf][SlotOf(seqs[s].blocks, p)]]_vars
=============================================================================
