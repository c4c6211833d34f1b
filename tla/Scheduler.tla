----------------------------- MODULE Scheduler -----------------------------
(***************************************************************************)
(* The continuous-batching scheduler of crates/vapi-engine/src/scheduler.rs*)
(* and sequence.rs, driven in the order of Engine::step                    *)
(* (crates/vapi-worker/src/engine.rs): schedule, forward, finish_with for  *)
(* stop strings, commit, fork, drain_finished.                             *)
(*                                                                         *)
(* One thread owns all of this state.  Each loop of the code is a phase,   *)
(* each iteration of it one step, so every intermediate state a later      *)
(* iteration sees is a state of the model; admit and cancel run only       *)
(* between steps (phase "idle"), as the runner calls them.                 *)
(*                                                                         *)
(* Data.  A token is a member of Vocab.  The KV of a token at position p   *)
(* depends on every token up to p, so a KV slot holds the token prefix it  *)
(* was computed for, and <<>> when it holds nothing meaningful.  The hash  *)
(* of a block is the namespace and the token prefix that ends with it      *)
(* (hash_block_chain chains over the tenant's seed).                       *)
(***************************************************************************)
EXTENDS BlockPool

CONSTANTS
    Vocab,             \* tokens the model may sample
    EosTokens,         \* eos_token_ids
    Jobs,              \* requests: [rid, prompt, max_tokens, stop, choices, ns]
    MaxConcurrentSeqs,
    MaxBatchedTokens,
    PrefillChunkTokens,
    MaxContext,
    PrefixCache,       \* cfg.cache.prefix_cache
    StopStrings,       \* whether a request may end on a stop string
    FaultyBackend,     \* whether the backend may return an error
    MaxSeqs            \* bound on the sequences ever created

ASSUME SchedulerAssumption ==
    /\ MaxConcurrentSeqs \in Nat \ {0}
    /\ MaxBatchedTokens \in Nat \ {0}
    /\ PrefillChunkTokens \in Nat \ {0}
    /\ MaxContext \in Nat \ {0}
    /\ MaxSeqs \in Nat
    /\ PrefixCache \in BOOLEAN
    /\ StopStrings \in BOOLEAN
    /\ FaultyBackend \in BOOLEAN
    /\ \A j \in Jobs : /\ j.choices \in Nat \ {0}
                       /\ j.max_tokens \in Nat \ {0}  \* SamplingParams::validate
                       /\ j.prompt \in Seq(ToSet(j.prompt))

\* Who asks, and the tokens there are.
Tenants == {j.ns : j \in Jobs}
Tokens == Vocab \cup UNION {ToSet(j.prompt) : j \in Jobs}

\* None is not the hash of a block.
ASSUME HashAssumption == NoHash \notin Tenants \X Seq(Tokens)

VARIABLES
    pool,           \* the block pool
    kv,             \* device KV: kv[b][o] is the prefix computed into slot o of block b
    seqs,           \* seqs: the live sequences by id
    waiting,        \* queue of ids
    running,        \* list of ids
    finished,       \* ids finished and not yet drained
    next_id,
    pending_forks,  \* leader id -> choices still to fork (Engine::pending_forks)
    phase,          \* which loop of the step the engine thread is in
    todo,           \* ids that loop has still to visit
    budget,         \* tokens left in this batch
    plan,           \* the StepPlan being built: sequence of [id, start, q, samples]
    sampled,        \* id -> token sampled in this step
    fork            \* the fork in progress: [leader, left, ids, copies], and failed:
                    \*   whether a fork_request has ever returned an error (history)

poolVars == <<pool, kv>>
queueVars == <<seqs, waiting, running, finished, next_id, pending_forks>>
stepVars == <<phase, todo, budget, plan, sampled, fork>>
vars == <<pool, kv, seqs, waiting, running, finished, next_id, pending_forks,
          phase, todo, budget, plan, sampled, fork>>

SeqId == 0 .. (MaxSeqs - 1)
Offset == 0 .. (BlockSize - 1)
NoFork == [leader |-> 0, left |-> 0, ids |-> <<>>, copies |-> {}, failed |-> FALSE]

----------------------------------------------------------------------------
(***************************************************************************)
(* Sequences.                                                              *)
(***************************************************************************)
NewSequence(j) ==
    [ rid |-> j.rid, ns |-> j.ns, max_tokens |-> j.max_tokens, stop |-> j.stop,
      status |-> "waiting", reason |-> "none",
      tokens |-> j.prompt, prompt_len |-> Len(j.prompt),
      num_computed |-> 0, prefill_target |-> Len(j.prompt),
      blocks |-> <<>>, num_cached_blocks |-> 0,
      choice |-> 0,
      stream |-> TRUE ]  \* the engine has a stream and a request for it

total_len(s) == Len(s.tokens)
num_generated(s) == Len(s.tokens) - s.prompt_len
is_finished(s) == s.status = "finished"
remaining_prefill(s) ==
    IF s.prefill_target > s.num_computed THEN s.prefill_target - s.num_computed ELSE 0
needs_prefill(s) == remaining_prefill(s) > 0

push_token(s, t) == [s EXCEPT !.tokens = Append(@, t)]

reset_for_recompute(s) ==
    [s EXCEPT !.blocks = <<>>, !.num_computed = 0, !.num_cached_blocks = 0,
              !.prefill_target = Len(s.tokens), !.status = "preempted"]

\* Mutant of check_finished: one token past the budget.
CheckFinishedLate(s) ==
    IF num_generated(s) > 0 /\ s.tokens[Len(s.tokens)] \in EosTokens \cup s.stop THEN "stop"
    ELSE IF num_generated(s) > s.max_tokens \/ total_len(s) >= MaxContext THEN "length"
    ELSE "none"

\* "none" while generation goes on, otherwise the finish reason.
check_finished(s) ==
    LET last == s.tokens[Len(s.tokens)]
    IN  IF num_generated(s) > 0 /\ last \in EosTokens \cup s.stop THEN "stop"
        ELSE IF num_generated(s) >= s.max_tokens \/ total_len(s) >= MaxContext THEN "length"
        ELSE "none"

\* Mutants of hash_block_chain: each block hashed alone; the tenant left out.
HashUnchained(ns, tokens) ==
    [k \in 1 .. (Len(tokens) \div BlockSize) |->
        <<ns, SubSeq(tokens, (k - 1) * BlockSize + 1, k * BlockSize)>>]
HashWithoutTenant(ns, tokens) ==
    [k \in 1 .. (Len(tokens) \div BlockSize) |-> <<"any", SubSeq(tokens, 1, k * BlockSize)>>]

hash_block_chain(ns, tokens) ==
    [k \in 1 .. (Len(tokens) \div BlockSize) |-> <<ns, SubSeq(tokens, 1, k * BlockSize)>>]

SmallerOf(a, b) == IF a < b THEN a ELSE b

----------------------------------------------------------------------------
Init ==
    /\ pool = NewPool
    /\ kv = [b \in BlockId |-> [o \in Offset |-> <<>>]]
    /\ seqs = <<>>
    /\ waiting = <<>>
    /\ running = <<>>
    /\ finished = <<>>
    /\ next_id = 0
    /\ pending_forks = <<>>
    /\ phase = "idle"
    /\ todo = <<>>
    /\ budget = 0
    /\ plan = <<>>
    /\ sampled = <<>>
    /\ fork = NoFork

\* The blocks of several sequences, freed one sequence after the other.
FreeSequences(p, ss, ids) ==
    LET after[n \in 0 .. Len(ids)] == IF n = 0 THEN p ELSE free_all(after[n - 1], ss[ids[n]].blocks)
    IN  after[Len(ids)]

(***************************************************************************)
(* finish, for a list of ids in order: a no-op on a finished sequence,     *)
(* otherwise its blocks are freed now and it is reported by the next       *)
(* drain.  ss is the sequence map the caller has got to.                   *)
(***************************************************************************)
Finish(ss, ids, reason) ==
    LET live == Without(ids, {i \in DOMAIN ss : is_finished(ss[i])})
        gone == ToSet(live)
    IN  /\ pool' = FreeSequences(pool, ss, live)
        /\ seqs' = [i \in DOMAIN ss |->
                      IF i \in gone
                      THEN [ss[i] EXCEPT !.status = "finished", !.reason = reason, !.blocks = <<>>]
                      ELSE ss[i]]
        /\ running' = Without(running, gone)
        /\ waiting' = Without(waiting, gone)
        /\ finished' = finished \o live

\* by_request: the sequences serving a request, in creation order.
sequences_of(rid) ==
    Without([k \in 1 .. next_id |-> k - 1],
            {i \in 0 .. (next_id - 1) : i \notin DOMAIN seqs \/ seqs[i].rid # rid})

(***************************************************************************)
(* admit: an empty prompt or one that does not fit the context is refused  *)
(* without a trace.  Engine::admit records the choices still to fork.      *)
(***************************************************************************)
\* Mutant of Admit: the newest request first.
AdmitAtFront(j) ==
    /\ phase = "idle"
    /\ next_id + j.choices + FoldFunction(+, 0, pending_forks) <= MaxSeqs
    /\ Len(j.prompt) > 0
    /\ Len(j.prompt) < MaxContext
    /\ seqs' = Bind(seqs, next_id, NewSequence(j))
    /\ waiting' = <<next_id>> \o waiting
    /\ next_id' = next_id + 1
    /\ pending_forks' = IF j.choices > 1 THEN Bind(pending_forks, next_id, j.choices - 1)
                                         ELSE pending_forks
    /\ UNCHANGED <<pool, kv, running, finished, stepVars>>

Admit(j) ==
    /\ phase = "idle"
    /\ next_id + j.choices + FoldFunction(+, 0, pending_forks) <= MaxSeqs
    /\ Len(j.prompt) > 0
    /\ Len(j.prompt) < MaxContext
    /\ seqs' = Bind(seqs, next_id, NewSequence(j))
    /\ waiting' = Append(waiting, next_id)
    /\ next_id' = next_id + 1
    /\ pending_forks' = IF j.choices > 1 THEN Bind(pending_forks, next_id, j.choices - 1)
                                         ELSE pending_forks
    /\ UNCHANGED <<pool, kv, running, finished, stepVars>>

Cancel(rid) ==
    /\ phase = "idle"
    /\ sequences_of(rid) # <<>>
    /\ Finish(seqs, sequences_of(rid), "cancelled")
    /\ UNCHANGED <<kv, next_id, pending_forks, stepVars>>

----------------------------------------------------------------------------
(***************************************************************************)
(* schedule.  The runner steps the engine while it is not idle.            *)
(***************************************************************************)
\* Mutant of is_idle: a finished sequence not yet reported does not count.
IdleWhileFinished == running = <<>> /\ waiting = <<>>

is_idle == running = <<>> /\ waiting = <<>> /\ finished = <<>>

BeginStep ==
    /\ phase = "idle"
    /\ ~is_idle
    /\ phase' = "decodes"
    /\ todo' = running
    /\ running' = <<>>
    /\ budget' = MaxBatchedTokens
    /\ plan' = <<>>
    /\ UNCHANGED <<poolVars, seqs, waiting, finished, next_id, pending_forks, sampled, fork>>

(***************************************************************************)
(* try_extend then push_seq_into_batch; on failure preempt.  ss, p, run    *)
(* and wait are the sequences, pool, running list (holding id) and waiting *)
(* queue the caller has got to.  Reading tokens()[start + q - 1] past the  *)
(* end of the tokens panics and kills the engine thread.                   *)
(***************************************************************************)
PushOrPreempt(ss, p, id, q, run, wait) ==
    LET s    == ss[id]
        need == blocks_for(s.num_computed + q)
        a    == AllocateMany(p, need - Len(s.blocks))
        ext  == [s EXCEPT !.blocks = @ \o a.blocks]
    IN  IF Len(ext.blocks) >= need
        THEN /\ pool' = a.pool
             /\ seqs' = [ss EXCEPT ![id] = ext]
             /\ running' = run
             /\ waiting' = wait
             /\ plan' = Append(plan, [id |-> id, start |-> s.num_computed, q |-> q,
                                      samples |-> s.num_computed + q >= total_len(s)])
             /\ budget' = budget - q
             /\ phase' = IF s.num_computed + q > total_len(s) THEN "panicked" ELSE phase
        ELSE /\ pool' = free_all(a.pool, ext.blocks)
             /\ seqs' = [ss EXCEPT ![id] = reset_for_recompute(s)]
             /\ running' = Without(run, {id})
             /\ waiting' = <<id>> \o wait
             /\ UNCHANGED <<plan, budget, phase>>

\* A running sequence that is mid-prefill, or finds the budget spent.
SkipDecode ==
    /\ phase = "decodes"
    /\ todo # <<>>
    /\ needs_prefill(seqs[Head(todo)]) \/ budget = 0
    /\ running' = Append(running, Head(todo))
    /\ todo' = Tail(todo)
    /\ UNCHANGED <<poolVars, seqs, waiting, finished, next_id, pending_forks,
                   phase, budget, plan, sampled, fork>>

ScheduleDecode ==
    /\ phase = "decodes"
    /\ todo # <<>>
    /\ ~needs_prefill(seqs[Head(todo)])
    /\ budget > 0
    /\ PushOrPreempt(seqs, pool, Head(todo), 1, Append(running, Head(todo)), waiting)
    /\ todo' = Tail(todo)
    /\ UNCHANGED <<kv, finished, next_id, pending_forks, sampled, fork>>

EndDecodes ==
    /\ phase = "decodes"
    /\ todo = <<>>
    /\ phase' = "prefills"
    /\ todo' = Without(running, {i \in DOMAIN seqs : ~needs_prefill(seqs[i])})
    /\ UNCHANGED <<poolVars, queueVars, budget, plan, sampled, fork>>

prefill_chunk(s) ==
    SmallerOf(remaining_prefill(s), SmallerOf(PrefillChunkTokens, budget))

ContinuePrefill ==
    /\ phase = "prefills"
    /\ todo # <<>>
    /\ budget > 0
    /\ PushOrPreempt(seqs, pool, Head(todo), prefill_chunk(seqs[Head(todo)]), running, waiting)
    /\ todo' = Tail(todo)
    /\ UNCHANGED <<kv, finished, next_id, pending_forks, sampled, fork>>

\* The first loop of schedule_prefills ends: at its end, or with the budget
\* spent, which returns from the whole function.
EndPrefills ==
    /\ phase = "prefills"
    /\ todo = <<>> \/ budget = 0
    /\ phase' = IF budget = 0 THEN "forward" ELSE "starts"
    /\ todo' = <<>>
    /\ UNCHANGED <<poolVars, queueVars, budget, plan, sampled, fork>>

(***************************************************************************)
(* try_start: match the shared prefix (giving back the last block of a     *)
(* fully cached prompt, which still needs a token forwarded), then reserve *)
(* the rest plus the first generated token's block.                        *)
(***************************************************************************)
MatchedBlocks(s) ==
    IF PrefixCache
    THEN match_prefix(pool, hash_block_chain(s.ns, SubSeq(s.tokens, 1, s.prefill_target)))
    ELSE [pool |-> pool, blocks |-> <<>>]

CachedPrefix(s) ==
    LET m == MatchedBlocks(s)
        n == Len(m.blocks)
    IN  IF n > 0 /\ n * BlockSize >= s.prefill_target
        THEN [ pool   |-> free(m.pool, Last(m.blocks)), blocks |-> Front(m.blocks),
               tokens |-> (n - 1) * BlockSize ]
        ELSE [pool |-> m.pool, blocks |-> m.blocks, tokens |-> n * BlockSize]

BlocksToReserve(s, matched) == blocks_for(s.prefill_target + 1) - matched

\* ok = FALSE leaves only the order of the free list touched.
try_start(s) ==
    LET m     == CachedPrefix(s)
        fresh == BlocksToReserve(s, Len(m.blocks))
        a     == AllocateMany(m.pool, fresh)
    IN  IF can_allocate(m.pool, fresh)
        THEN [ ok |-> TRUE, pool |-> a.pool,
               seq |-> [s EXCEPT !.blocks = m.blocks \o a.blocks,
                                 !.num_computed = m.tokens,
                                 !.num_cached_blocks = Len(m.blocks),
                                 !.status = "prefilling"] ]
        ELSE [ok |-> FALSE, pool |-> free_all(m.pool, m.blocks), seq |-> s]

MayStart == budget > 0 /\ Len(running) < MaxConcurrentSeqs /\ waiting # <<>>

StartWaiting ==
    /\ phase = "starts"
    /\ MayStart
    /\ LET id == Head(waiting)
           t  == try_start(seqs[id])
       IN  /\ t.ok
           /\ PushOrPreempt([seqs EXCEPT ![id] = t.seq], t.pool, id, prefill_chunk(t.seq),
                            Append(running, id), Tail(waiting))
    /\ UNCHANGED <<kv, finished, next_id, pending_forks, todo, sampled, fork>>

\* Not enough blocks: the head stays the head and nothing behind it starts.
StartRefused ==
    /\ phase = "starts"
    /\ MayStart
    /\ LET t == try_start(seqs[Head(waiting)]) IN ~t.ok /\ pool' = t.pool
    /\ phase' = "forward"
    /\ UNCHANGED <<kv, queueVars, todo, budget, plan, sampled, fork>>

EndStarts ==
    /\ phase = "starts"
    /\ ~MayStart
    /\ phase' = "forward"
    /\ UNCHANGED <<poolVars, queueVars, todo, budget, plan, sampled, fork>>

----------------------------------------------------------------------------
(***************************************************************************)
(* The forward pass (external: the execution backend).  It writes the KV   *)
(* of every planned position.  What it writes is right when everything it  *)
(* attends to is right, and meaningless otherwise.                         *)
(***************************************************************************)
SlotOf(s, i) == kv[s.blocks[(i \div BlockSize) + 1]][i % BlockSize]

RightUpTo(s, n) == \A i \in 0 .. (n - 1) : SlotOf(s, i) = SubSeq(s.tokens, 1, i + 1)

\* The plan entries that write slot o of block b, and the position each writes.
Writes(b, o) ==
    {w \in (1 .. Len(plan)) \X (0 .. MaxContext) :
        LET e == plan[w[1]]
        IN  /\ w[2] >= e.start
            /\ w[2] < e.start + e.q
            /\ w[2] % BlockSize = o
            /\ seqs[e.id].blocks[(w[2] \div BlockSize) + 1] = b}

Computed(w) ==
    LET e == plan[w[1]]
        s == seqs[e.id]
    IN  IF RightUpTo(s, e.start) THEN SubSeq(s.tokens, 1, w[2] + 1) ELSE <<>>

PlanIds == [i \in 1 .. Len(plan) |-> plan[i].id]
SampledIds == LET es == Without(plan, {e \in ToSet(plan) : ~e.samples})
              IN  [i \in 1 .. Len(es) |-> es[i].id]

(***************************************************************************)
(* Forward, sampling, and the detokenizer's verdict: any sampled token     *)
(* other than an end-of-sequence may complete a stop string.  The rows     *)
(* stopped that way are visited next.  Sampling a row whose sequence has   *)
(* no stream panics.                                                       *)
(***************************************************************************)
Forward ==
    /\ phase = "forward"
    /\ plan # <<>>
    /\ kv' = [b \in BlockId |-> [o \in Offset |->
                IF Writes(b, o) = {} THEN kv[b][o]
                                     ELSE Computed(CHOOSE w \in Writes(b, o) : TRUE)]]
    /\ \E f \in [ToSet(SampledIds) -> Vocab] :
          /\ sampled' = f
          /\ \E st \in SUBSET {i \in DOMAIN f : StopStrings /\ f[i] \notin EosTokens} :
                todo' = Without(SampledIds, DOMAIN f \ st)
    /\ phase' = IF \A i \in ToSet(SampledIds) : seqs[i].stream THEN "stops" ELSE "panicked"
    /\ UNCHANGED <<pool, queueVars, budget, plan, fork>>

EmptyPlan ==
    /\ phase = "forward"
    /\ plan = <<>>
    /\ phase' = "drain"
    /\ UNCHANGED <<poolVars, queueVars, todo, budget, plan, sampled, fork>>

\* finish_with(id, Stop) for every stop string, before commit.
FinishStopped ==
    /\ phase = "stops"
    /\ Finish(seqs, todo, "stop")
    /\ todo' = <<>>
    /\ phase' = "advance"
    /\ UNCHANGED <<kv, next_id, pending_forks, budget, plan, sampled, fork>>

----------------------------------------------------------------------------

(***************************************************************************)
(* commit: advance everything in the batch, append the sampled tokens and  *)
(* retire what finished, then publish the full blocks.                     *)
(***************************************************************************)
advance_computed(s, q) ==
    LET n == s.num_computed + q
    IN  [s EXCEPT !.num_computed = n,
                  !.status = IF @ = "prefilling" /\ s.prefill_target <= n THEN "decoding" ELSE @]

CommitAdvance ==
    /\ phase = "advance"
    /\ seqs' = [i \in DOMAIN seqs |->
                  IF \E k \in 1 .. Len(plan) : plan[k].id = i
                  THEN advance_computed(seqs[i], plan[CHOOSE k \in 1 .. Len(plan) : plan[k].id = i].q)
                  ELSE seqs[i]]
    /\ phase' = "tokens"
    /\ todo' = SampledIds
    /\ UNCHANGED <<poolVars, waiting, running, finished, next_id, pending_forks,
                   budget, plan, sampled, fork>>

CommitToken ==
    /\ phase = "tokens"
    /\ todo # <<>>
    /\ LET id == Head(todo)
           ss == [seqs EXCEPT ![id] = push_token(@, sampled[id])]
           reason == check_finished(ss[id])
       IN  Finish(ss, IF reason = "none" THEN <<>> ELSE <<id>>, reason)
    /\ todo' = Tail(todo)
    /\ UNCHANGED <<kv, next_id, pending_forks, phase, budget, plan, sampled, fork>>

EndTokens ==
    /\ phase = "tokens"
    /\ todo = <<>>
    /\ phase' = "publish"
    /\ todo' = IF PrefixCache THEN PlanIds ELSE <<>>
    /\ UNCHANGED <<poolVars, queueVars, budget, plan, sampled, fork>>

(***************************************************************************)
(* publish_full_blocks, for one sequence: publish every newly full block,  *)
(* then swap in the canonical ones and free the duplicates.                *)
(***************************************************************************)
PublishOne(acc, i, h) ==
    LET b == acc.blocks[i]
        r == publish(acc.pool, b, h)
    IN  [ pool   |-> r.pool,
          blocks |-> [acc.blocks EXCEPT ![i] = r.block],
          old    |-> IF r.block = b THEN acc.old ELSE Append(acc.old, b) ]

\* The blocks from place first + 1 up to place last.
PublishBlocks(p, blocks, hashes, first, last) ==
    LET after[i \in first .. last] ==
            IF i = first THEN [pool |-> p, blocks |-> blocks, old |-> <<>>]
                         ELSE PublishOne(after[i - 1], i, hashes[i])
    IN  IF last > first THEN after[last] ELSE [pool |-> p, blocks |-> blocks, old |-> <<>>]

publish_full_blocks(s) ==
    LET full   == s.num_computed \div BlockSize
        hashes == hash_block_chain(s.ns, SubSeq(s.tokens, 1, full * BlockSize))
        done   == PublishBlocks(pool, s.blocks, hashes, s.num_cached_blocks,
                                SmallerOf(full, Len(s.blocks)))
    IN  [ pool |-> free_all(done.pool, done.old),
          seq  |-> [s EXCEPT !.blocks = done.blocks, !.num_cached_blocks = full] ]

CommitPublish ==
    /\ phase = "publish"
    /\ todo # <<>>
    /\ LET s == seqs[Head(todo)]
           r == publish_full_blocks(s)
       IN  IF s.num_computed \div BlockSize <= s.num_cached_blocks
           THEN UNCHANGED <<pool, seqs>>
           ELSE pool' = r.pool /\ seqs' = [seqs EXCEPT ![Head(todo)] = r.seq]
    /\ todo' = Tail(todo)
    /\ UNCHANGED <<kv, waiting, running, finished, next_id, pending_forks,
                   phase, budget, plan, sampled, fork>>

EndPublish ==
    /\ phase = "publish"
    /\ todo = <<>>
    /\ phase' = "forks"
    /\ todo' = Without(SampledIds, ToSet(SampledIds) \ DOMAIN pending_forks)
    /\ UNCHANGED <<poolVars, queueVars, budget, plan, sampled, fork>>

----------------------------------------------------------------------------
(***************************************************************************)
(* fork: one iteration per extra choice.  The full blocks are shared, the  *)
(* open block is private and copied when it has content.                   *)
(***************************************************************************)
BeginFork ==
    /\ phase = "forks"
    /\ todo # <<>>
    /\ fork' = [fork EXCEPT !.leader = Head(todo), !.left = pending_forks[Head(todo)]]
    /\ phase' = "forking"
    /\ todo' = Tail(todo)
    /\ UNCHANGED <<poolVars, queueVars, budget, plan, sampled>>

Leader == seqs[fork.leader]
ForkFull == Leader.num_computed \div BlockSize
ForkShared == SubSeq(Leader.blocks, 1, SmallerOf(ForkFull, Len(Leader.blocks)))

ForkPool ==
    LET after[n \in 0 .. Len(ForkShared)] == IF n = 0 THEN pool ELSE incref(after[n - 1], ForkShared[n])
    IN  after[Len(ForkShared)]

\* Mutant of ForkOpen: the open block is shared like the full ones.
ForkOpenShared ==
    LET open == Leader.blocks[ForkFull + 1]
    IN  IF Len(Leader.blocks) > ForkFull
        THEN [pool |-> incref(ForkPool, open), block |-> open]
        ELSE [pool |-> ForkPool, block |-> NoBlock]

ForkOpen == IF Len(Leader.blocks) > ForkFull
            THEN allocate_guarded(ForkPool)
            ELSE [pool |-> ForkPool, block |-> NoBlock]

\* The child adopts the leader's prompt, its shared blocks and its progress.
ForkChild ==
    /\ phase = "forking"
    /\ fork.left > 0
    /\ Len(Leader.blocks) > ForkFull => ForkOpen.block # NoBlock
    /\ pool' = ForkOpen.pool
    /\ LET private == ForkOpen.block
           child == [Leader EXCEPT
                       !.status = "decoding", !.reason = "none", !.stream = FALSE,
                       !.choice = Len(fork.ids) + 1,
                       !.tokens = SubSeq(@, 1, Leader.prompt_len),
                       !.prefill_target = Leader.prompt_len,
                       !.blocks = IF private = NoBlock THEN ForkShared
                                                       ELSE Append(ForkShared, private)]
       IN  /\ seqs' = Bind(seqs, next_id, child)
           /\ fork' = [fork EXCEPT
                         !.left = @ - 1,
                         !.ids = Append(@, next_id),
                         !.copies = IF private # NoBlock /\ Leader.num_computed % BlockSize # 0
                                    THEN @ \cup {<<Leader.blocks[ForkFull + 1], private>>}
                                    ELSE @]
    /\ running' = Append(running, next_id)
    /\ next_id' = next_id + 1
    /\ UNCHANGED <<kv, waiting, finished, pending_forks, phase, todo, budget, plan, sampled>>

EndFork(failed) ==
    /\ phase' = "forks"
    /\ fork' = [NoFork EXCEPT !.failed = fork.failed \/ failed]
    /\ pending_forks' = Unbind(pending_forks, fork.leader)

\* No block for a child: fork returns an error, keeping the references it has
\* just taken and the children it has already made; the engine serves what
\* there is.
ForkFails ==
    /\ phase = "forking"
    /\ fork.left > 0
    /\ Len(Leader.blocks) > ForkFull
    /\ ForkOpen.block = NoBlock
    /\ pool' = ForkPool
    /\ EndFork(TRUE)
    /\ UNCHANGED <<kv, seqs, waiting, running, finished, next_id, todo, budget, plan, sampled>>

\* Mutant of CopyBlocks: the open blocks are not copied.
CopyNothing ==
    /\ phase = "forking"
    /\ fork.left = 0
    /\ phase' = "seeding"
    /\ UNCHANGED <<poolVars, queueVars, todo, budget, plan, sampled, fork>>

\* backend.copy_blocks (external).
CopyBlocks ==
    /\ phase = "forking"
    /\ fork.left = 0
    /\ kv' = [b \in BlockId |->
                IF \E c \in fork.copies : c[2] = b
                THEN kv[(CHOOSE c \in fork.copies : c[2] = b)[1]]
                ELSE kv[b]]
    /\ phase' = "seeding"
    /\ UNCHANGED <<pool, queueVars, todo, budget, plan, sampled, fork>>

\* copy_blocks returns an error: fork_request ends with no child seeded.
CopyFails ==
    /\ FaultyBackend
    /\ phase = "forking"
    /\ fork.left = 0
    /\ fork.copies # {}
    /\ EndFork(TRUE)
    /\ UNCHANGED <<poolVars, seqs, waiting, running, finished, next_id, todo, budget, plan, sampled>>

\* allocate_guarded in a loop: what was taken before a refusal stays taken.
GuardedMany(p, want) ==
    LET after[n \in 0 .. want] ==
            IF n = 0 THEN [pool |-> p, blocks |-> <<>>]
                     ELSE TakeOne(after[n - 1], allocate_guarded(after[n - 1].pool))
    IN  IF want > 0 THEN after[want] ELSE [pool |-> p, blocks |-> <<>>]

\* seed_fork: the child's own first token, drawn from the leader's row.  A
\* refused allocation abandons the children not yet seeded.
SeedFork ==
    /\ phase = "seeding"
    /\ fork.ids # <<>>
    /\ \E t \in Vocab :
         LET id   == Head(fork.ids)
             s    == push_token(seqs[id], t)
             need == blocks_for(s.num_computed + 1)
             a    == GuardedMany(pool, need - Len(s.blocks))
             ok   == Len(s.blocks) + Len(a.blocks) >= need
         IN  /\ pool' = a.pool
             /\ seqs' = [seqs EXCEPT ![id] = [s EXCEPT !.blocks = @ \o a.blocks, !.stream = ok]]
             /\ IF ok
                THEN fork' = [fork EXCEPT !.ids = Tail(@)] /\ UNCHANGED <<phase, pending_forks>>
                ELSE EndFork(TRUE)
    /\ UNCHANGED <<kv, waiting, running, finished, next_id, todo, budget, plan, sampled>>

EndSeeding ==
    /\ phase = "seeding"
    /\ fork.ids = <<>>
    /\ EndFork(FALSE)
    /\ UNCHANGED <<poolVars, seqs, waiting, running, finished, next_id, todo, budget, plan, sampled>>

EndForks ==
    /\ phase = "forks"
    /\ todo = <<>>
    /\ phase' = "drain"
    /\ UNCHANGED <<poolVars, queueVars, todo, budget, plan, sampled, fork>>

----------------------------------------------------------------------------
(***************************************************************************)
(* drain_finished, and the end of the step.                                *)
(***************************************************************************)
Drain ==
    /\ phase = "drain"
    /\ seqs' = [i \in DOMAIN seqs \ ToSet(finished) |-> seqs[i]]
    /\ pending_forks' = [i \in DOMAIN pending_forks \ ToSet(finished) |-> pending_forks[i]]
    /\ finished' = <<>>
    /\ phase' = "idle"
    /\ todo' = <<>>
    /\ budget' = 0
    /\ plan' = <<>>
    /\ sampled' = <<>>
    /\ UNCHANGED <<poolVars, waiting, running, next_id, fork>>

(***************************************************************************)
(* Engine::fail_all: cancel every request that has a stream, in the order  *)
(* of a HashMap, then drain.  The answer to a failed forward, whose        *)
(* planned slots then hold nothing meaningful, and to a drain deadline     *)
(* between steps.                                                          *)
(***************************************************************************)
FreeRequests(order) ==
    LET after[n \in 0 .. Len(order)] ==
            IF n = 0 THEN pool ELSE FreeSequences(after[n - 1], seqs, sequences_of(order[n]))
    IN  after[Len(order)]

FailAll ==
    LET rids == {seqs[i].rid : i \in {k \in DOMAIN seqs : seqs[k].stream}}
        gone == {i \in DOMAIN seqs : seqs[i].rid \in rids}
    IN  /\ \E order \in SetToSeqs(rids) : pool' = FreeRequests(order)
        /\ seqs' = [i \in DOMAIN seqs \ (gone \cup ToSet(finished)) |-> seqs[i]]
        /\ waiting' = Without(waiting, gone)
        /\ running' = Without(running, gone)
        /\ finished' = <<>>
        /\ phase' = "idle"
        /\ todo' = <<>>
        /\ budget' = 0
        /\ plan' = <<>>
        /\ sampled' = <<>>
        /\ UNCHANGED <<next_id, pending_forks, fork>>

ForwardFails ==
    /\ FaultyBackend
    /\ phase = "forward"
    /\ plan # <<>>
    /\ kv' = [b \in BlockId |-> [o \in Offset |->
                IF Writes(b, o) = {} THEN kv[b][o] ELSE <<>>]]
    /\ FailAll

DeadlinePassed ==
    /\ phase = "idle"
    /\ DOMAIN seqs # {}
    /\ FailAll
    /\ UNCHANGED kv

Step ==
    \/ BeginStep \/ SkipDecode \/ ScheduleDecode \/ EndDecodes
    \/ ContinuePrefill \/ EndPrefills
    \/ StartWaiting \/ StartRefused \/ EndStarts
    \/ Forward \/ EmptyPlan \/ FinishStopped
    \/ CommitAdvance \/ CommitToken \/ EndTokens \/ CommitPublish \/ EndPublish
    \/ BeginFork \/ ForkChild \/ ForkFails \/ CopyBlocks \/ CopyFails \/ SeedFork \/ EndSeeding \/ EndForks
    \/ Drain

Next ==
    \/ Step
    \/ ForwardFails
    \/ DeadlinePassed
    \/ \E j \in Jobs : Admit(j) \/ Cancel(j.rid)

Spec == Init /\ [][Next]_vars

(***************************************************************************)
(* The engine thread keeps stepping while there is work; clients and       *)
(* failures owe nothing.  This is weak fairness of the engine's own steps, *)
(* those that begin or end inside a step, with their enabling condition    *)
(* written out (TLC cannot evaluate ENABLED Step in reasonable time).      *)
(***************************************************************************)
CanStep == phase \notin {"idle", "panicked"} \/ (phase = "idle" /\ ~is_idle)
EngineMoves == phase # "idle" \/ phase' # "idle"
FairSpec == Spec /\ ([]<>(~CanStep) \/ []<><<EngineMoves>>_vars)

----------------------------------------------------------------------------
(***************************************************************************)
(* Properties                                                              *)
(***************************************************************************)
Phases == {"idle", "decodes", "prefills", "starts", "forward", "stops", "advance",
           "tokens", "publish", "forks", "forking", "seeding", "drain", "panicked"}

\* Field types of scheduler.rs Scheduler and sequence.rs Sequence, and the
\* bounds on a sequence's progress (advance_computed's debug_assert).
TypeOK ==
    /\ phase \in Phases
    /\ DOMAIN seqs \subseteq 0 .. (next_id - 1)
    /\ next_id \in 0 .. MaxSeqs
    /\ budget \in 0 .. MaxBatchedTokens
    /\ \A i \in DOMAIN seqs :
          LET s == seqs[i]
          IN  /\ s.status \in {"waiting", "prefilling", "decoding", "preempted", "finished"}
              /\ s.num_computed \in 0 .. total_len(s)
              /\ s.prompt_len \in 1 .. total_len(s)
              /\ \A k \in 1 .. Len(s.blocks) : s.blocks[k] \in BlockId
    /\ \A b \in BlockId : pool.refcount[b] \in Nat

Active(s) == s.status \in {"prefilling", "decoding"}

\* Positions a sequence occupies in the queues; todo is what
\* schedule_decodes took out of running.
Places(i) ==
    {<<"w", k>> : k \in {k \in 1 .. Len(waiting) : waiting[k] = i}} \cup
    {<<"r", k>> : k \in {k \in 1 .. Len(running) : running[k] = i}} \cup
    {<<"f", k>> : k \in {k \in 1 .. Len(finished) : finished[k] = i}} \cup
    (IF phase = "decodes" THEN {<<"t", k>> : k \in {k \in 1 .. Len(todo) : todo[k] = i}} ELSE {})

\* A live sequence is in exactly one queue, the one its status names, and
\* the queues name live sequences only: never "in two queues at once", never
\* "scheduled after being freed" (scheduler.rs, struct Scheduler), as long as
\* the engine thread lives.
OneQueue ==
    phase # "panicked" =>
    /\ \A i \in DOMAIN seqs :
          /\ Cardinality(Places(i)) = 1
          /\ \A p \in Places(i) :
                \/ p[1] = "w" /\ seqs[i].status \in {"waiting", "preempted"}
                \/ p[1] = "f" /\ is_finished(seqs[i])
                \/ p[1] \in {"r", "t"} /\ Active(seqs[i])
    /\ ToSet(waiting) \cup ToSet(running) \cup ToSet(finished) \subseteq DOMAIN seqs

\* The free list and the index are consistent whatever the scheduler does.
PoolConsistent == FreeListConsistent(pool) /\ IndexConsistent(pool)

\* The places of block b in the block tables of the sequences.
Holders(ss, b) == UNION {{i} \X PlacesOf(ss[i].blocks, b) : i \in DOMAIN ss}

\* Every reference the pool counts is a block of some live sequence: nothing
\* leaks on admission failure, preemption, cancellation, adoption or fork
\* ("they leak and the pool slowly starves", pool.rs PrefixMatch).
NoLeak == \A b \in BlockId : pool.refcount[b] = Cardinality(Holders(seqs, b))

\* Every computed position of an active sequence has the K/V of exactly its
\* own tokens: num_computed is "the load-bearing field" whose off-by-one is
\* "fluent but wrong" output (sequence.rs).
KvCorrect ==
    \A i \in DOMAIN seqs :
        (Active(seqs[i]) /\ phase # "seeding" /\ phase # "forking") =>
            /\ Len(seqs[i].blocks) * BlockSize >= seqs[i].num_computed
            /\ RightUpTo(seqs[i], seqs[i].num_computed)

\* A published block holds, in every slot, the K/V of the prefix its hash
\* names: a match never returns "a prefix that does not exist yet" (publish).
IndexCorrect ==
    \A h \in DOMAIN pool.by_hash :
        \A o \in Offset :
            kv[pool.by_hash[h]][o] = SubSeq(h[2], 1, Len(h[2]) - BlockSize + o + 1)

\* What a forward is about to write is private: one reference, unpublished,
\* and no slot is written twice in one batch (fork's comment on open blocks).
WritesPrivate ==
    phase = "forward" =>
        \A b \in BlockId : \A o \in Offset :
            Writes(b, o) # {} => /\ Cardinality(Writes(b, o)) = 1
                                 /\ pool.refcount[b] = 1
                                 /\ pool.hash_of[b] = NoHash

\* The leading blocks a sequence counts as published are indexed under its
\* own tenant and its own tokens: two tenants never share one
\* (namespace_for's comment).
CachedAreOwn ==
    \A i \in DOMAIN seqs :
        Active(seqs[i]) =>
            \A k \in 1 .. seqs[i].num_cached_blocks :
                pool.hash_of[seqs[i].blocks[k]] = <<seqs[i].ns, SubSeq(seqs[i].tokens, 1, k * BlockSize)>>

\* The engine thread never indexes past a sequence's tokens and never samples
\* for a sequence it has no stream for.
NoPanic == phase # "panicked"

\* Hazard: a fork takes references, copies blocks and seeds children in steps
\* that can each fail.  As long as none has, several choices are as sound as
\* one: no reference is lost, every choice has the K/V of its own tokens, and
\* the engine thread does not panic (Scheduler::fork, Engine::fork_request).
ForksSound == fork.failed \/ (NoLeak /\ KvCorrect /\ NoPanic)

\* First come, first served: while a request has never been started, none
\* admitted after it has been, so "a large request cannot be starved by
\* smaller ones behind it" (schedule_prefills); forked choices apart.
NoOvertaking ==
    \A i, j \in DOMAIN seqs :
        (i < j /\ seqs[i].status = "waiting" /\ seqs[j].choice = 0) =>
            seqs[j].status \in {"waiting", "finished"}

\* Generation ends where it must: no choice runs past its max_tokens or the
\* context window, and none goes on after an end-of-sequence or stop token
\* (check_finished; "each one spends up to max_tokens of its own").
GenerationBounded ==
    \A i \in DOMAIN seqs :
        LET s == seqs[i]
        IN  /\ num_generated(s) <= s.max_tokens
            /\ total_len(s) <= MaxContext
            /\ \A k \in (s.prompt_len + 1) .. (total_len(s) - 1) :
                  s.tokens[k] \notin EosTokens \cup s.stop

\* A forked choice has the K/V of its prompt: fork makes "sequences that
\* share its prompt KV" (Scheduler::fork).
ForksSharePromptKv ==
    \A i \in DOMAIN seqs :
        (seqs[i].choice > 0 /\ seqs[i].stream /\ Active(seqs[i])) =>
            RightUpTo(seqs[i], seqs[i].prompt_len)

\* Every admitted sequence is eventually finished and reported, through
\* chunked prefill, head-of-line waiting and preemption.
EveryoneServed ==
    \A i \in SeqId : (i \in DOMAIN seqs) ~> (i \notin DOMAIN seqs)

=============================================================================
