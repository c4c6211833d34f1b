---------------------------- MODULE SpillEngine ----------------------------
(***************************************************************************)
(* The engine with its spill tier on (crates/vapi-worker/src/engine.rs):   *)
(* the scheduler and pool of Scheduler, which records evictions, composed  *)
(* with the store of SpillStore.  A step exports what scheduling evicted   *)
(* before the forward overwrites it; an admission first restores the part  *)
(* of its prompt that only the store still has.                            *)
(*                                                                         *)
(* The bytes of a block are the K/V its slots hold, all of length one.     *)
(***************************************************************************)
EXTENDS Scheduler, SpillStore

LOCAL INSTANCE SequencesExt
LOCAL INSTANCE Functions

CONSTANT DefaultNs   \* cfg.cache.default_namespace, the engine's own

ASSUME SpillOn == TrackEvictions

VARIABLES
    store,     \* Engine::spill
    restore    \* the admission in progress: <<>> or <<[job, k, failed, own]>>, at
               \* hash k; own: a restore of it took a block of the same prompt

spillVars == <<vars, store, restore>>

NotAdmitting == restore = <<>>
Job == restore[1].job
At == restore[1].k

SpillInit ==
    /\ Init
    /\ store = open(<<>>, <<>>)
    /\ restore = <<>>

----------------------------------------------------------------------------
BytesOf(b) == [data |-> kv[b], len |-> 1]

(***************************************************************************)
(* spill_evicted: every recorded eviction the store does not hold is       *)
(* exported now, from the slots as they are now.  lost are the blocks the  *)
(* backend fails to export.                                                *)
(***************************************************************************)
spill_evicted(s, p, lost) ==
    LET one(a, e) == IF contains_hash(a, e[1]) \/ e[2] \in lost
                     THEN a
                     ELSE put(a, e[1], BytesOf(e[2]), "ok")
    IN  FoldLeft(one, s, p.evicted_content)

Unexportable == IF FaultyBackend THEN {{}, BlockId} ELSE {{}}

\* Engine::step, between schedule and the forward.
SpillEvicted ==
    /\ NotAdmitting
    /\ phase = "forward"
    /\ pool.evicted_content # <<>>
    /\ \E lost \in Unexportable : store' = spill_evicted(store, pool, lost)
    /\ pool' = take_evicted(pool)
    /\ UNCHANGED <<kv, queueVars, stepVars, restore>>

\* Mutant of MayRun: the forward does not wait for the export.
RunUnspilled == NotAdmitting

MayRun == NotAdmitting /\ (phase = "forward" => pool.evicted_content = <<>>)

\* Everything the scheduler does by itself.
RunScheduler ==
    /\ MayRun
    /\ Step \/ ForwardFails \/ DeadlinePassed \/ \E j \in Jobs : Cancel(j.rid)
    /\ UNCHANGED <<store, restore>>

----------------------------------------------------------------------------
(***************************************************************************)
(* Engine::admit: promote_from_spill, one iteration of its loop at a time, *)
(* then the scheduler's admit.                                             *)
(***************************************************************************)
Margin == 1

BeginAdmit(j) ==
    /\ NotAdmitting
    /\ phase = "idle"
    /\ next_id + j.choices + FoldFunction(+, 0, pending_forks) <= MaxSeqs
    /\ restore' = <<[job |-> j, k |-> 1, failed |-> FALSE, own |-> FALSE]>>
    /\ UNCHANGED <<vars, store>>

\* The hashes promote_from_spill walks: under the engine's namespace.
SpillChain == hash_block_chain(DefaultNs, Job.prompt)

Asks == At <= Len(SpillChain) /\ ~contains(pool, SpillChain[At])
Held == get(store, SpillChain[At])
CanRestore == Asks /\ Held.bytes # NoBytes /\ pool.num_free > Margin

Advance == restore' = <<[restore[1] EXCEPT !.k = @ + 1]>>

\* The loop went on to the next hash, the pool p being what an allocation
\* left: it may have evicted a block of this very prompt.
AdvanceOver(p) ==
    restore' = <<[restore[1] EXCEPT
                    !.k = @ + 1,
                    !.own = @ \/ \E h \in Range(SpillChain) : contains(pool, h) /\ ~contains(p, h)]>>

SkipResident ==
    /\ ~NotAdmitting
    /\ At <= Len(SpillChain)
    /\ contains(pool, SpillChain[At])
    /\ Advance
    /\ UNCHANGED <<vars, store>>

\* Mutant of RestoreBlock: the block is not published.
RestoreUnpublished ==
    /\ ~NotAdmitting
    /\ CanRestore
    /\ LET a == allocate(pool)
       IN  /\ store' = spill_evicted(Held.store, a.pool, {})
           /\ kv' = [kv EXCEPT ![a.block] = Held.bytes.data]
           /\ pool' = free(take_evicted(a.pool), a.block)
           /\ AdvanceOver(a.pool)
    /\ UNCHANGED <<queueVars, stepVars>>

\* The block is allocated, what that evicts is exported, the bytes are
\* imported, and the block is published and left without a reference.
RestoreBlock ==
    /\ ~NotAdmitting
    /\ CanRestore
    /\ LET a == allocate(pool)
           p == publish(take_evicted(a.pool), a.block, SpillChain[At])
           q == IF p.block # a.block THEN free(p.pool, a.block) ELSE p.pool
       IN  /\ \E lost \in Unexportable :
                 store' = spill_evicted(Held.store, a.pool, lost)
           /\ kv' = [kv EXCEPT ![a.block] = Held.bytes.data]
           /\ pool' = free(q, p.block)
           /\ AdvanceOver(a.pool)
    /\ UNCHANGED <<queueVars, stepVars>>

\* import_block fails: the block goes back, empty, and the loop ends.
ImportFails ==
    /\ FaultyBackend
    /\ ~NotAdmitting
    /\ CanRestore
    /\ LET a == allocate(pool)
       IN  /\ store' = spill_evicted(Held.store, a.pool, {})
           /\ kv' = [kv EXCEPT ![a.block] = [o \in Offset |-> <<>>]]
           /\ pool' = free(take_evicted(a.pool), a.block)
    /\ restore' = <<[restore[1] EXCEPT !.k = Len(SpillChain) + 1, !.failed = TRUE]>>
    /\ UNCHANGED <<queueVars, stepVars>>

EndAdmit ==
    /\ ~NotAdmitting
    /\ At > Len(SpillChain) \/ (Asks /\ ~CanRestore)
    /\ store' = IF Asks THEN Held.store ELSE store
    /\ IF Len(Job.prompt) > 0 /\ Len(Job.prompt) < MaxContext
       THEN Admit(Job)
       ELSE UNCHANGED vars
    /\ restore' = <<>>

SpillNext ==
    \/ SpillEvicted
    \/ RunScheduler
    \/ \E j \in Jobs : BeginAdmit(j)
    \/ SkipResident
    \/ RestoreBlock
    \/ ImportFails
    \/ EndAdmit

SpillSpec == SpillInit /\ [][SpillNext]_spillVars

----------------------------------------------------------------------------
(***************************************************************************)
(* Properties                                                              *)
(***************************************************************************)

\* The K/V of the block a hash names.
Meant(h) == [o \in Offset |-> SubSeq(h[2], 1, Len(h[2]) - BlockSize + o + 1)]

\* What the store keeps under a hash is the K/V that hash names: evicted
\* blocks are exported before "anything writes to them" (spill_evicted).
SpillFaithful ==
    /\ \A h \in DOMAIN store.ram : store.ram[h].data = Meant(h)
    /\ \A h \in DOMAIN store.files : store.files[h].data = Meant(h)

\* How many leading blocks of the prompt being admitted are resident under
\* its own tenant: what the scheduler's prefix match will find.
Matched ==
    LET chain == hash_block_chain(Job.ns, Job.prompt)
    IN  Max({n \in 0..Len(chain) : \A i \in 1..n : contains(pool, chain[i])})

\* The match stops only where the prompt ends, at a block the store does not
\* have, or where there is no room for one more.
Restored ==
    LET chain == hash_block_chain(Job.ns, Job.prompt)
    IN  \/ Matched = Len(chain)
        \/ ~contains_hash(store, chain[Matched + 1])
        \/ pool.num_free <= Margin

AdmissionEnds == ~NotAdmitting /\ restore' = <<>>

\* An admission ends with every leading block of its prompt resident, under
\* its own tenant, that the store had and there was room for:
\* "put back whatever of this prompt the spill tier still holds, so the
\* scheduler's prefix match finds it resident" (promote_from_spill).  Excepted
\* are a device that refused a block, and an admission that evicted a block of
\* its own prompt to restore a later one: the blocks found resident and the
\* blocks restored so far are held by nobody, so the loop's next allocation
\* may take them.  RestoresEveryPrompt is the same without that exception; it
\* does not hold.
RestoresPrompt ==
    [][AdmissionEnds /\ ~restore[1].failed /\ ~restore[1].own => Restored]_spillVars

RestoresEveryPrompt == [][AdmissionEnds /\ ~restore[1].failed => Restored]_spillVars
=============================================================================
