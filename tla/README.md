# A TLA+ verification of vapi

vapi is an LLM inference server: an OpenAI-compatible HTTP gateway, a NATS
JetStream work queue, and workers that run a paged KV cache with a prefix cache
shared by all requests, continuous batching and copy-on-write choices. This
directory holds models of it, the TLC runs that check them on small instances,
and TLAPS proofs of what must hold for every instance. Paths below are relative
to `src/`; `PROJECT.json` maps every definition to its lines.

## 1. The system

| Part | State | Operations | Interacts with |
|---|---|---|---|
| Block pool (`crates/vapi-cache/src/pool.rs`) | reference counts, hash of each block, hash index, intrusive LRU free list, record of evictions | allocate, allocate_guarded, incref, free, publish, reference, lookup, match_prefix, take_evicted | called by the scheduler, the fork path and the spill tier |
| Content hashes (`hash.rs`) | none | a chain over the blocks of a prompt, seeded by model and tenant | pool index, spill store |
| Spill store (`spill.rs`) | RAM and disk maps with LRU orders and byte counts | open, put, get, evict | filled from evictions, read at admission |
| Scheduler and sequences (`crates/vapi-engine/src/scheduler.rs`, `sequence.rs`) | live sequences; waiting, running and finished queues; each sequence's tokens, blocks and progress | admit, cancel, schedule, commit, fork, seed_fork, finish_with, drain_finished | owns the pool; driven by the engine |
| Generation engine (`crates/vapi-worker/src/engine.rs`) | per-sequence stream (detokenizer, sampler, held text, constraint), pending forks, open choices, delta counters | admit, cancel, step, fail_all, spill and restore | scheduler, backend, spill store |
| Engine thread (`runner.rs`) | command and report channels, headroom, consecutive failures | admit/cancel/fail-all commands, step, report | worker task |
| Worker (`main.rs`, `consumer.rs`, `registry.rs`) | jobs in flight, drain state | pull, heartbeat, ack, cancel, drain | JetStream, engine thread |
| Decision and transcription engines (`decision.rs`, `transcribe.rs`) | a queue of jobs | admit, cancel, step, fail_all | the same engine thread interface |
| Gateway (`crates/vapi-gateway/src`) | queue slots, open streams, response cache, key table | validate and prepare, publish a job, collect or stream deltas, cancel on disconnect, shape decisions | JetStream, NATS subjects, clients |
| Output parser (`output.rs`) | reasoning or tool block being read, buffered text | push a delta, finish | the gateway's readers |
| Wire protocol (`crates/vapi-proto`) | delta counters | number a delta, check a number | worker and gateway |
| Sampler, structured output, detokenizer (`crates/vapi-engine`) | tokens observed, schema machine, offsets | sample, mask, push | engine |
| Candle backend (`crates/vapi-backend-candle/src`) | paged caches on the device, captured graphs | forward (eager or replayed), candidates, copy, export and import of a block | engine |
| Model architectures (`models/`) | weights | what each layer reads and writes | candle backend |
| Decision sequences (`crates/vapi-tokenize/src/decision.rs`) | none | a question to tokens and markers | gateway, decision engine |
| Tokenizer, OpenAI types, audio | none | conversions | gateway, engine |

A request travels: gateway (queue slot, subscribe, publish) -> JetStream ->
worker task -> engine thread -> scheduler, pool and backend -> deltas on a
subject of its own -> gateway -> client. One thread owns engine, scheduler and
pool, so their difficulty is not data races but long sequences of legal calls
on a pool that is nearly full. The difficulty of worker and gateway is
delivery: redelivery, cancellation, timeouts and restarts.

### What is hard, and what would be correct

* **Pool.** The same block is allocated, published, revived, shared, evicted and
  reused by several callers. Correct: the free list is exactly the unreferenced
  blocks; counts are exactly the references held; a hash leads to a block
  holding that content; cached content is the last thing to be reused.
* **Scheduler.** Preemption in the middle of a pass, chunked prefill, restart in
  the same step, adoption of another sequence's block, a fully cached prompt,
  cancellation in every state, a stop string that ends a sequence before
  commit. Correct: one queue per sequence; no leak; every computed position has
  the K/V of the sequence's own tokens; forward writes private slots only;
  tenants never share; first come, first served; generation ends in time;
  everyone is served.
* **Forks.** A fork of several steps (share, allocate, copy, seed), each of
  which can fail, made after commit may already have ended the leader.
* **Failures.** A forward that fails after scheduling reserved blocks; the drain
  deadline; `fail_all` over a `HashMap` in any order.
* **Delivery.** A job redelivered while still running; a cancel that overtakes
  its job; deltas lost, repeated or numbered afresh; a step or a fork that fails
  half way through a request; a drain with work in flight. Correct: a client
  told that its request succeeded has whole completions; a message a worker
  holds is one its engine will complete; an answer from the cache is one made
  for the same question of the same caller; nobody is left to a timeout unless
  something was lost; every request, job and drain ends.
* **Text.** A character, a stop string, a marker or a tool call may be cut
  anywhere by tokens and deltas. Correct: the client reads the same whatever
  the cuts.
* **Constrained decoding.** A mask computed a token of several characters at a
  time over a machine that must not be led into a corner, and budgets that must
  leave room for the document.
* **Device.** Blocks reused while they hold an earlier owner's rows, batches
  padded to a bucket, graphs replayed with the inputs of another step,
  requests of different kinds in one batch. Correct: a row depends on its own
  sequence alone, and a step writes to its own sequences alone.
* **Decisions.** Rows of several requests end to end in one pass, a request over
  several passes, texts that spell the marker. Correct: the answer is the one
  the question gets alone.
* **Spill tier.** Two tiers with byte caps, writes that fail, files that vanish,
  crashes in the middle of a write. Export must precede overwrite; restoring
  must use the request's own chain and must not lose what it evicts. Correct:
  counts and caps exact; what comes back is what was put; the store holds for
  each hash the K/V that hash names.

`PROJECT.json` lists these as hazards, each at its line, with the properties
that would catch it.

## 2. The modules

| Module | What it models |
|---|---|
| `BlockPool` | the pool as one record and its methods as operators from pool to pool |
| `PoolClients` | any number of callers holding references and calling the pool in any order |
| `PoolProofs` | what each pool operation changes, used for both kinds of callers |
| `BlockPoolProofs` | the theorems about `PoolClients` |
| `Lists`, `ListProofs` | `Vec::retain` and sums over a list as recursive functions, and what they and the library's operations on sequences do |
| `FreeList`, `LruList` | the free list as a sequence, and the `prev`/`next`/head/tail representation that implements it |
| `LruListProofs` | that the links implement the list |
| `Scheduler` | scheduler and sequences on the pool, in the order of `Engine::step`, with forks, failures, cancellation and a symbolic device |
| `SchedulerProofs` | the theorems about queues, order of service and length of generation |
| `MemoryProofs` | the theorems about the scheduler's block references and K/V |
| `SpillStore` | the spill store and its directory as one record, its methods as operators |
| `SpillTier` | the store under any order of puts and gets, failing writes, lost files and crashes |
| `SpillProofs` | the theorems about `SpillTier` |
| `SpillEngine` | `Scheduler` and `SpillStore` composed as `Engine::admit` and `Engine::step` do |
| `GatewayIntake` | what the gateway makes of an HTTP request: defaults, validation, constraint and tools, cacheability and key, the job |
| `GatewayStream` | one request at the gateway: slot and subscription, the numbered stream, the four readers, what is remembered |
| `WorkerEngines` | the three engines behind `WorkerEngine`: admission, step, cancel, `fail_all`, and the events each publishes |
| `WorkerProcess` | a worker: the task of `main.rs`, the engine thread of `runner.rs`, the channels between them |
| `Delivery` | gateway, JetStream (external), workers and core NATS (external) composed, with faults |
| `ToolCalls`, `TextPath` | a choice's text from tokens to the client: detokenizer, stop strings, streaming parser, call syntaxes |
| `JsonMachine`, `Structured` | the schema machine and its masks; constrained decoding of one choice with its budgets |
| `PagedForward`, `CandleBackend` | one batch through a paged model; the backend that runs, pads, captures, copies, exports and imports |
| `Sampler` | the sampler, the device's shortcuts and the engine's choice between them |
| `DecisionFormat`, `Encoder`, `DecisionPath` | a question to a sequence and scores to an answer; a flat batch through the encoder; `/v1/decisions` end to end |
| `DecisionProofs` | that rows are scored in arrival order, and that a sequence's mask tokens are its option markers |
| `MC*` | instances for TLC |

### BlockPool and PoolClients

A pool is a record `[refcount, hash_of, by_hash, lru, num_free,
evicted_content]` with the fields of the Rust struct, except that the linked
list is the sequence `lru`, head first. Each method is an operator with the
method's name; one that can fail returns `[pool, block]` with `NoBlock` for
the error. `evictions`, `hit_tokens` and `queried_tokens` are statistics and
are left out.

`PoolClients` is the contract between the pool and its callers: handles hold
references, `content` says what the device holds in each block. Callers obey
what `publish` and `incref` ask for in their comments: a block is written only
by its sole holder, published with what it holds, and a duplicate is freed in
favour of the canonical block. `Refill` reaches the path of `publish` where the
block still carries another hash.

### LruList

`PushFront`, `PushBack` and `Unlink` are the pointer updates of `pool.rs`;
`Walk` is the list they represent. `ImplementsList` is refinement of `FreeList`
under `lru <- Walk`, whose operators are the ones `BlockPool` uses. The
preconditions (push what is out of the list, unlink what is in it) are
`FreeListConsistent`, proved of the pool.

### Scheduler

One behaviour step is one iteration of one of the code's loops; `phase` says
which loop the engine thread is in:

    idle -> decodes -> prefills -> starts -> forward -> stops -> advance
         -> tokens -> publish -> forks (forking, seeding)* -> drain -> idle

`admit`, `cancel` and the drain deadline happen in `idle` only, as the engine
thread handles commands between steps. `ForwardFails` and `DeadlinePassed` end
in `FailAll`, which cancels requests in any order, as iteration over a
`HashMap` may. The panics the code can reach (an index past a sequence's
tokens, a scheduled sequence without a stream) lead to the phase `panicked`.

Data is abstract. A token is an element of `Vocab`. A KV slot holds the token
prefix it was computed for, so a wrong block table, a stale slot or a missing
copy shows up as a wrong prefix, and a forward that attends to a wrong prefix
writes nothing meaningful. A block hash is the tenant and the prefix it covers.
Sampling is any token; a stop string may end any row that is not
end-of-sequence. The backend (`forward`, `copy_blocks`) is external and is
modelled by what the engine relies on.

### SpillStore, SpillTier and SpillEngine

The store is a record `[ram, ram_lru, ram_bytes, disk, disk_lru, disk_bytes,
files]`: the two maps, their orders and counts, and the directory itself, so
that what the index believes and what is on disk can differ. `open` indexes
whatever files are there, in any order; `put`, `get` and the two evictions are
the methods, and the loops of the evictions are recursive functions over their
turns, so that proofs can expand them. A write succeeds, fails, or leaves part of a file (`TornWrites`);
`CrashWhileWriting` ends the process in the middle of one.

`SpillEngine` extends `Scheduler`, whose pool then records evictions.
`SpillEvicted` stands between scheduling and the forward, as in `Engine::step`,
and `MayRun` makes the forward wait for it. `BeginAdmit`, `SkipResident`,
`RestoreBlock`, `ImportFails` and `EndAdmit` are `promote_from_spill`, one
iteration at a time, and the admission after it. The bytes of a block are the
prefixes its slots hold, so a block exported too late is a block with the wrong
prefixes. `restore` also remembers whether an iteration evicted a block of the
prompt it is restoring, the case `RestoresPrompt` excepts (section 6).

### GatewayIntake, GatewayStream, WorkerEngines, WorkerProcess and Delivery

The first four are operators on records (an ask, a request, an engine, a
worker), each the fields of the Rust structs and locals; `Delivery` holds the
variables and has one action per step of the code: `Open`, `Publish`,
`Receive`, `Timeout` for a handler of `api.rs`; `TakeJob`, `TakeCancel`,
`TakeReport`, `AckCompleted`, `DrainDeadline`, `Exit` for the arms of the
worker's `select!`; `HandleCommand`, `Step`, `FailStep` for the engine thread.
`inst` is chosen in `Init`: which engine, which workers, what the clients ask
and which faults may happen, each once. A request goes through the real
intake (`Accept`), so what reaches a worker is what `prepare` builds.

A token is `<<request, attempt, choice, position>>`, so that a token of another
attempt, another choice or another place in the stream can be told apart. The
scheduling inside the generation engine is `Scheduler`'s subject: here a step
advances any set of its sequences by a token, and a fork that fails leaves no
child, as when the first one finds no block.

### ToolCalls and TextPath

A text is a sequence of characters and a token a sequence of bytes; one
character of the alphabet takes two bytes and the markers two characters. Cuts
fall inside a character where tokens do, and inside a marker where the model
writes it in two tokens (`MCSplit`) or text is held back for a stop string
(`MCStopped`). Request, vocabulary and stop condition come from
`Requests`; sampling is any token of the vocabulary. `CutsDoNotShow` compares
what the client reads with what the parser reads from the whole text at once,
in every stream whose markers arrived whole; with a marker in pieces the two
differ (`CutsNeverShow`, section 6).

### JsonMachine and Structured

`JsonMachine` has the arena (`compile`), the machine (`push`, one operator per
frame kind), `viable`, `complete` and the two masks. `Structured` is the worker
around them. `Valid` is an independent definition of the documents of a schema,
written from the grammar of JSON and not from the machine. An enum value is
compared byte by byte, as in the code (`as_bytes`): one character of the
alphabet has two bytes, and each stands for another character.

### PagedForward and CandleBackend

A hidden state is the term of everything it was computed from, so two results
are equal exactly when tokens, positions and cached rows were the same.
`Archs` selects llama, qwen, laguna (sliding window, sparse experts) or lfm2
(short convolution, with and without a graph-safe bias). `CandleBackend` adds
sizing, warm-up, padding to buckets, capture and replay with `copy_from`,
`copy_blocks`, `export_block` and `import_block`, under a caller that behaves
as the engine does. `LogitsExact` compares with a forward over the sequence
alone in an empty cache.

### Sampler

Logits are integers and a weight is a power of two; a weight beyond the window
below the maximum counts as nothing, which is what `CANDIDATE_CUTOFF` says. A
random draw is any token with weight, so distributions are compared by support.

### DecisionFormat, Encoder and DecisionPath

The network is a small fixed one over the integers modulo a prime: its weights
mean nothing, but which token, distance, layer and row a number comes from is
the code's. `DecisionPath` composes handler, engine and answer; its passes may
fail and its requests be cancelled.

## 3. The runs

| Run | Question | States | Result |
|---|---|---|---|
| `pool_clients` | Does the pool keep its books under any order of calls? | 18,676 | holds |
| `lru_list` | Do the pointer updates implement the list? | 326 | holds |
| `scheduler_plain` | Is continuous batching of single-choice requests correct on a pool too small for them, and is everyone served? | 369,593 | holds |
| `scheduler_forks` | Are several choices correct when forks, copies and forwards may fail? | 138,764 | holds |
| `spill_store` | Do both tiers keep their books and caps, and return the right block, through failures and restarts? | 1,130 | holds |
| `spill_engine` | Are export and restore correct together with the scheduler and a faulty backend, and does a prompt of the default tenant come back, unless its own restore evicts it? | 1,191,648 | holds |
| `delivery` | Does a request survive the way to a worker and back, under every fault? | 61,960 | holds |
| `text_path` | Does the client read the same text however it was cut, its markers whole? | 172,756 | holds |
| `structured` | Is a complete document valid, can one always be completed (enum values in ASCII, lengths below their limits), and does reasoning end in time? | 428,139 | holds |
| `candle_backend` | Is a row computed from its own sequence alone, eagerly and replayed? | 36,296 | holds |
| `sampler` | Do the device's shortcuts choose as the whole row does? | 66,706 | holds |
| `decision_path` | Does a question get the answer it gets alone? | 5,936 | holds |

What the properties say is stated above each in its module. Every property has
a mutant in `PROJECT.json`: a plausible bug in the mapped code that makes TLC
find it violated in the same run.

`ForksSound` needs a word. The code does not undo a fork that fails (section 6),
so what can be expected of forks splits in two: in this instance, whose leaders
outlive their first token, the index and the privacy of writes hold always
(`IndexCorrect`, `WritesPrivate`), while references, K/V and the absence of a
panic hold until a fork has failed.

**Bounds.** `pool_clients`: three blocks with one reserved, four handles and
three hashes: a block can be shared, every block can be taken, all can be
cached at once, and one more piece of content than blocks can be published.
`lru_list`: five blocks, so that head, tail, middle, single and empty lists
occur. `scheduler_plain`: four blocks of two tokens for three requests of up to
six tokens each, two of them with a common first block and the third with the same
tokens under another tenant; a batch of three tokens and chunks of two split
prefills and exhaust the budget; two running at most. Preemption, restart from
the cache, adoption of a canonical block, fully cached prompts, head-of-line
refusal and cancellation in every status are all reached. Three sequences are
enough for one running, one preempted and one waiting. `scheduler_forks`: two
requests of two choices on four blocks, so that some forks find their blocks
and others do not; `MaxSeqs` bounds the sequences ever created. Blocks of two tokens have an open
and a full state, a boundary, and an interior. `spill_store`: four hashes, blocks of two bytes (so that a file can be half a
block), room for two in memory and two on disk: both caps are met, and every
block can be evicted from both tiers. `spill_engine`: four blocks of
two tokens, one block in memory and two on disk, and two prompts that evict
each other's blocks, one of them of three full blocks; five sequences let a
prompt be computed, evicted and asked for again, with the other holding blocks
or not, so that a restore evicts strangers' blocks, blocks of the same prompt
that were resident, and blocks the same loop has just restored.

`delivery`: two requests on one worker, or one request with a second worker to
take over; generations of two tokens, a step limit of one failure, two
deliveries, two unacknowledged messages, one queue slot. Each instance allows
one fault, or two that make each other worse (a drain and a failing step, a
failing fork and a lost delta, a disconnect and a late heartbeat). Two tokens
are the fewest with a gap, a repetition and an order; two choices the fewest
that can end separately. Thirteen asks are refused by the intake, each for a
reason of its own, and eight differ from a plain one in one thing the cache
must tell apart. `text_path`: five tokens from vocabularies with a two-byte
character, overlapping stop strings, all four markers (whole, in two tokens, and
cut by what is held back for a stop string) and every kind of call
argument. `structured`: a schema of each kind, an enum with values outside ASCII, vocabularies with tokens that
span a structural boundary, six to eight tokens, and limits (depth, string,
number, whitespace) lowered so that they are met. `candle_backend`: three
sequences (the smallest batch that is padded), blocks of two tokens, four
usable blocks so that blocks are reused, five positions so that a second block
and the sliding window are crossed, two sampled tokens each. `sampler`: four tokens, three candidates,
rows inside and beyond the window, parameters of each kind alone and combined.
`decision_path`: three requests, passes of three rows, sequences that have to
be cut in state, options or neither.

`CHECK_DEADLOCK FALSE` is set where the system may stop: when `MaxSeqs` requests
have been admitted and served, or a panicked engine thread has stopped
(scheduler, spill engine), when every request has ended (`delivery`), when the
answer has ended or the tokens are spent (`text_path`, `structured`,
`candle_backend`, `sampler`).

**Fairness.** `FairSpec` adds weak fairness of the engine thread's steps while
there is work: `runner.rs` loops, blocks only when `is_idle`, and a step calls
nothing that waits. No fairness is assumed of admission, cancellation or
failures. `EveryoneServed` needs the sizing that the configuration asks for:
`blocks_for(MaxContext) + watermark` within `NumBlocks`, or the head of the
queue can never start. TLC cannot evaluate `ENABLED Step` in reasonable time,
so the enabling condition is written out (`CanStep`).

`Delivery`'s `FairSpec` adds weak fairness of `Work`: while the gateway, a
worker or the queue can do something, one of them does. Tokio tasks and the
engine thread keep running, timers run out, the queue delivers, and a worker
that has exited is started again by whatever supervises it. Losses, crashes,
disconnects, operators and failing steps are not in `Work`: nothing obliges
them to happen, and each happens at most once in an instance.

## 4. The proofs

Each theorem holds for every value of the constants that the named assumptions
allow; TLC evaluates those in the run of the same part.

| Theorem | Says | From |
|---|---|---|
| `BlockPoolProofs`: `TypeCorrect`, `AlwaysConsistent`, `AlwaysExact`, `AlwaysFaithful`, `EvictsUnderPressure` | types, `check_invariants`, exact counts, a faithful index, eviction only under pressure | `PoolAssumption`, `NoBlockAssumption`, `ClientsAssumption` |
| `LruListProofs`: `LinksImplementList` | every pointer update is the push or removal it stands for (`ImplementsList`, a refinement) | the pool's |
| `SchedulerProofs`: `AlwaysOneQueue`, `NeverOvertaken` | `OneQueue`, `NoOvertaking`, with forks and failures | `SchedulerAssumption`, the pool's |
| `SchedulerProofs`: `LeadersBounded`, `GenerationAlwaysBounded` | no first choice runs past a limit, an end of sequence or a stop token; with one choice per request, `GenerationBounded` | the same |
| `MemoryProofs`: `PoolAlwaysConsistent`, `NothingLeaks` | the scheduler's own pool stays consistent, failed forks included; until a fork has failed, every count is the number of places in block tables | the same, `HashAssumption` |
| `MemoryProofs`: `NothingEverLeaks` | with one choice per request, `NoLeak` | the same |
| `MemoryProofs`: `ComputedIsRight`, `CachedAlwaysOwn`, `IndexAlwaysCorrect`, `WritesAlwaysPrivate`, `EngineNeverPanics` | with one choice per request, `KvCorrect`, `CachedAreOwn`, `IndexCorrect`, `WritesPrivate` and that the engine thread does not panic (`NoPanic`) | the same |
| `SpillProofs`: `AlwaysAccounted`, `AlwaysOwn` | `Accounting` and `ReturnsOwn`, through failing and torn writes, lost files, crashes and restarts | `SpillAssumption`, `TierAssumption` |
| `SpillProofs`: `WholeWithoutTornWrites` | without torn writes what comes back is the whole block | the same |
| `DecisionProofs`: `AlwaysInArrivalOrder` | `InArrivalOrder` | `DecisionAssumption` |
| `DecisionProofs`: `MarkersAlwaysExact` | `MarkersExact`, for texts of any length and spelling | `FormatAssumption`, `DecisionAssumption` |

**Pool.** The inductive invariant is `IInv`: types, `PoolOK(pool)`,
`RefcountExact` and `IndexFaithful`. `PoolOK` strengthens consistency with
`EmptyBeforeCached`: contentless blocks come before cached ones in the free
list. Without it the head of the list says nothing about the rest, and eviction
only under pressure is not inductive. `RefcountExact` is needed for consistency
as well: a holder's `free` must find a count of at least one, which only the
accounting gives. The argument goes from lists to pools to callers. Lemmas on
sequences without repetitions (`InsertFacts`, `RemoveFacts`, `UnlinkShape`) say
what pushes and removals do; `TakeOut` and `PutBack` lift them to the free list
and counts; one lemma per method (`PoolProofs`) says what it changes and that it
preserves `PoolOK`; `StaysExact` does the accounting when one handle changes what it
holds; one lemma per action combines them.

**Free list.** `LinkInv` says that the list met on the walk from `lru_head` is
linked both ways and ends at `lru_tail`. The walk is bounded by the number of
blocks, so the proof needs that a list without repetitions is no longer than
the pool. Each action is then shown to turn the walked sequence into the one
`FreeList` prescribes.

**Scheduler.** `IInv` says of the three queues that each names, once each,
exactly the sequences whose status it stands for (`Queued`), with the sequences
that `schedule` has taken out of `running` and not yet put back counted in
(`RunList`); that in the waiting queue the preempted come before those never
started, which are in order of admission (`InOrder`); and what the step's own
lists may name while the loops run (`PlanOK`, `TodoOK`, `ForkOK`). `OneQueue`
alone is not inductive: preemption takes its victim from the end of `running`,
which must not be a sequence already in the plan or still to be visited.
`NoOvertaking` needs `InOrder`: a request starts from the head of the queue, and
a preempted one returns to it. After a panic of the engine thread nothing is
claimed of the queues. `GenInv` says that every first choice is within its
bounds, and that one which is not finished, or is about to receive a token, can
take one more. It excludes the other choices because `seed_fork` does not check
(section 6); that requests of one choice never meet one is the invariant
`NoForks`. The assumptions of the last two include that a request asks for at
least one token and one choice, which the intake enforces.

**References.** `AccInv` keeps the books of the scheduler's pool: the count of a
block is the number of places it has in the block tables plus the references
lost, and none is lost until a fork has failed (`Books`, `MemOK`). The lost ones
are existentially quantified, since no variable of the code counts them. The
invariant needs what the plan says to stand until `commit` (`PlanFits`,
`BatchOK`): `publish_full_blocks` hashes the blocks behind `num_computed`, and a
sequence past its own tokens would give it a hash of nothing. The loops over
pool operations (`free_all`, `match_prefix`, `allocate` for a table, the blocks
to publish, the shared blocks of a fork) each have a lemma on what one turn
changes and one on the whole loop; `Exchanged` says what a sequence that gives
`u` for `v` does to the counts, and one lemma per action uses it. That
`match_prefix` and `free_all` may be called with what a table holds follows from
the books alone, as in the pool's proof.

**K/V.** `KvInv` stands on `IInv`, `AccInv` and `GenInv` and says where the K/V
is. `Laid`: the first `num_cached_blocks` of a running sequence's table are
indexed under its own tenant and tokens, and the rest are unhashed with a count
of one. `RightFrom`: past the cached blocks every computed position holds the
prefix of the sequence's own tokens; `IndexKv`: every indexed block holds what
its hash names. `KvCorrect` is not inductive without this division, for a write
to one sequence's block has to leave every other position and the whole index
alone: a count of one, by the books, means one place of one table, so a slot
that a forward writes belongs to exactly one position, and being unhashed it is
outside the index. Publication moves a block from the second kind to the first,
or exchanges it for the canonical block, whose content `IndexKv` gives;
preemption forgets the table; a match brings in indexed blocks only. `Progress`
says that a running sequence has a token left to compute except between the
forward and the token `commit` appends, which is why the engine thread never
indexes past the end. `PlanRoom` carries the blocks that `schedule` reserved to
the forward, and the content the forward wrote to `commit`. These theorems
assume one choice per request (`OneChoice`): with more, a leader that ends on
its first token or a fork that fails breaks `KvCorrect` and `NoPanic` (section
6), and since children share their leader's full blocks, published only when the
prefix cache is on, `Laid` does not describe their tables.

**Spill tier.** `TierInv` says that each tier's map, order and byte count agree
and are within the cap, that no hash is in both tiers, that an entry in memory
is the whole block and a file is the block its name says or a part of it. That
no hash is in both is needed for the counts: an eviction from memory would
otherwise count a file twice. Nothing is said of whether an indexed file is
there, since files may be lost. The evictions are loops; the turns of a loop are shown to exist and each
turn to keep the invariant, and a turn that removes something makes the order
shorter, so that the loop ends within its cap.

**Decisions.** `BacklogFacts` shows that the list `select` walks has every row
without scores and no other, in lexicographic order of request and row.
`SelectIsPrefix` and `SelectOldest` show that a pass takes a prefix of it.
After the pass an answered row has only answered rows before it, and since
complete requests leave the queue, only the first one left can have any. The
invariant `ArrivalInv` adds that rows and slots are lists of equal length,
which follows the job from the handler.

**Markers.** `ScrubFacts`: a scrubbed text spells the mask nowhere. A space
stands where the spelling was, so what was on its two sides does not meet; the
mutant that closes the gap fails in this lemma. `EncodeFacts`: a text that spells
it nowhere has no mask token. Hence the question and the state have none and an
option's row has one, its first (`OptionRowMarked`), which every truncation keeps
because an option is refused below `MIN_TOKENS_PER_OPTION`, assumed positive
(`KeptMarked`). In the options end to end the masks are therefore the places
where rows start (`MarksOfOptions`), which are the markers `build` counts; the
last truncation, to `max_len`, loses masks only beyond its cut, and `build`
refuses a question with a marker there (`BuildMarks`). `RowsAsBuilt` shows that
`decision_rows` cuts the prompt of a job back into the sequences the gateway
built. `MarkInv` carries this to the engine: a job and a pending request are
what their asker's own questions became, and whoever has been answered anything
keeps its questions. `DecisionAssumption` says only what the types of a request
say. The vocabulary is the model's: a text symbol never becomes a structural
token by itself.

**Induction.** The library's induction theorems take an operator as a parameter
and cannot be used; `ListProofs` derives induction over a set of numbers
(`Induction`) from the existence of a least counterexample (`LeastNat`), and
every fact about a recursive function (`Without`, `Total`, the loops over pool
operations, the evictions, the walk, the backlog, the tokenizer's `Scan`, the
`Ends` of slices) is proved with it: that the function exists, and then what
each of its values is.

**Only model-checked.** Liveness (`EveryoneServed`, `EverythingEnds`), which
the provers do not handle. `ReturnsWhole` with torn writes and
`GenerationBounded` with several choices do not hold (section 6). `ForksSound`,
and `IndexCorrect` and `WritesPrivate` when requests have several choices: they
need the tables of a leader and its children related block by block. The
invariants of `SpillEngine`, which compose the pool's evictions with the spill
store. The invariants of `Delivery`, whose
accounting sums over the choices of a job. `TextPath`, `Structured`,
`CandleBackend`, `ToolCalls`, `JsonMachine` and `PagedForward` use recursive
operators, which take the prover its SMT backend, and compare results over
finite sets of inputs. `Sampler` and `AnswersOwn` are statements about what
bounded computations return. `OptionsKept` holds where `max_len` leaves room for
the head, which the configuration does not enforce.

## 5. What is not modelled, and the plan

Not modelled: the audio front end and the speech model (`vapi-audio`,
`voxtral.rs`), which are numeric; authentication, key management and the
dashboard, which are stateless checks, file handling and pages; tokenizers and
chat templates, which are conversions of text; loading of weights,
quantisation, configuration and command line; serialization and response
bodies; metrics and logs. A message that does not decode is terminated by the
consumer; the gateway encodes every message, so no behaviour here reaches it.
`registry.rs` only announces a worker.

Abstracted: arithmetic on the device (terms, or a network modulo a prime),
probabilities (supports), digests (injective), text (small alphabets).

Done: pool, free list, scheduler with forks and failures, spill tier, their proofs
(for the scheduler its queues, references and K/V), delivery with the three engines, the intake and the cache, text path,
constrained decoding, candle backend and models, sampler, decisions. Next:

1. Proofs: that `InflightAccounted` and an ack only after completion are
   inductive in `Delivery`, from a bound of open choices by sequences and forks.
2. Proofs: the K/V theorems with several choices, for requests whose leaders
   outlive their first token and forks that succeed.
3. The speech model's prefill and its use of the paged cache in `PagedForward`.

## 6. What does not hold

Met while modelling; each is stated so that it can be looked at again. The
definition named is in the module named and no run lists it as an invariant.

* **A leader that ends on its first token.** `commit` frees its blocks before
  `fork` copies its progress, so the choices claim K/V nobody has
  (`scheduler.rs:217`; `ForksSharePromptKv` in `Scheduler`, with `e` in the
  vocabulary of `MCSchedulerForks.cfg`).
* **A fork that fails** keeps the references it took, and children already made
  are scheduled without tokens: the engine thread indexes past their end
  (`scheduler.rs:246`, `engine.rs:478`; `NoPanic` and `NoLeak` with
  `MCSchedulerForks.cfg`).
* **`seed_fork`** does not call `check_finished`: a choice whose first token is
  its last allowed one is decoded once more (`scheduler.rs:286`). Forked choices
  also start without the request's constraint (`engine.rs:494`).
* **A fork evicts** a cached block and copies over it before it is exported
  (`engine.rs:475`; `SpillFaithful` with `EvictingForkJobs` of `MCSpillEngine`).
* **A restore that evicts its own prompt.** The loop of `promote_from_spill`
  leaves what it restored, and what it found resident, without a reference, so
  its next allocation may take an earlier block of the same prompt: a prompt of
  three full blocks and two free ones comes back without its first, and the
  prefix match finds nothing. The comment promises to "put back whatever of this
  prompt the spill tier still holds, so the scheduler's prefix match finds it
  resident" and that "a restored block is one the sequence itself will use, so
  this does not compete with its admission" (`engine.rs:395` and `414`;
  `RestoresEveryPrompt` in `SpillEngine`, with `MCSpillEngine.cfg`).
* **Spilled prompts** are looked up in the default namespace only
  (`engine.rs:410`; `RestoresPrompt` with `TenantJobs`).
* **A torn spill file** is indexed at the next start and returned as the block
  (`spill.rs:174`; `ReturnsWhole` in `SpillTier`).
* **A redelivered request.** The second worker numbers from zero, and
  `DeltaSeqCheck` counts the repeated numbers as duplicates: the client is given
  the head of one generation and the tail of another, although the comment
  promises a reported gap (`envelope.rs:219`; `NeverCorrupted` in `Delivery`).
* **A greedy request with `n > 1`** is served as one choice and awaited as `n`
  (`engine.rs:601`, `api.rs:553` and `749`): it ends in the idle timeout.
* **A marker cut in two** by the stop-string hold-back is not recognised by the
  streaming parser: the reasoning runs on into the answer, or a call arrives as
  text. The comment says that "each marker is a single token, so it arrives
  whole inside one delta" (`output.rs:74`, `engine.rs:217`; `CutsNeverShow` in
  `TextPath`, with `MCStopped` of `MCTextPath`).
* **Enum values outside ASCII.** `in_word` compares a character with one byte of
  the value, so it refuses the value's own character and accepts the one its
  byte is the number of: for `"café"` it takes U+00C3 and U+00A9 and calls
  the document complete (`CompleteIsValid` in `Structured`, with `MCAccents` of
  `MCStructured`), and where the vocabulary has no such character only the end
  of turn is left, which `NoDeadEnd` excepts (`AtNonAscii`). `viable` promises
  that "the model is never offered a token that paints it into a corner"
  (`structured.rs:764` and `485`).
* **Numbers.** The schema machine accepts leading zeros, which JSON does not
  (`AnswersParse` in `Structured`, with `MCNumbers`); a number or a `\u` escape
  at its length limit leaves only the end of turn, which `NoDeadEnd` excepts.
  An enum value that extends another (`1` and `12`) cannot be reached, and the
  key check reads escaped keys as undeclared ones.
* **Closing in time.** A string open when the closing budget begins may take
  more tokens than are left (`ClosedInTime` in `Structured`, with `MCStrings`);
  with fewer than four tokens the reasoning block may outlast the budget.
* **A penalised row** whose raised or lowered tokens leave the window is sampled
  from another set of tokens on the device than on the host (`fused.rs:77`;
  `SelectionExact` in `Sampler`).
* **Comments the decision path contradicts.** `EncoderRow` says of its markers
  that "the sequence legitimately contains that token inside a user's state"
  (`vapi-engine/src/encoder.rs:49`): `build` scrubs the state as it does the
  other texts (`tokenize/src/decision.rs:151`), and `MarkersExact` is proved. The
  backend says that "the engine that feeds this sorts by length before it fills
  a batch" (`vapi-backend-candle/src/encoder.rs:7`) and the batch type speaks of
  "a short collection window and length bucketing"
  (`vapi-engine/src/encoder.rs:16`): `select` takes rows in arrival order and
  nothing sorts or waits (`worker/src/decision.rs:251`), and `InArrivalOrder` is
  proved.
* **Smaller ones.** `parse_calls` ignores what follows the closing bracket, and
  `finish` drops an empty unterminated tool block. A `Done` after a failed fork
  reports no prompt tokens. `decisions()` and `transcriptions()` have no
  cancel-on-drop guard. The reserve `MIN_HEAD_TOKENS` of the decision builder
  never binds.
