---------------------------- MODULE PoolClients ----------------------------
(***************************************************************************)
(* The block pool under arbitrary well-behaved callers.                    *)
(*                                                                         *)
(* A caller holds references; each is a handle.  The methods of            *)
(* BlockPool may be called in any order on the handles that exist, the     *)
(* way the scheduler, the fork path and the spill tier interleave them.    *)
(* content is the device side: which hash describes what the block's       *)
(* slots hold.  Callers keep the contract of publish's comment: a block is *)
(* written only by its sole holder and published with what it holds.       *)
(***************************************************************************)
EXTENDS BlockPool

CONSTANTS
    Hashes,      \* content hashes
    Handles,     \* references callers can hold at once
    MaxEvicted   \* bound on evicted_content between two take_evicted calls

ASSUME ClientsAssumption ==
    /\ NoHash \notin Hashes
    /\ IsFiniteSet(Handles)
    /\ MaxEvicted \in Nat

VARIABLES
    pool,     \* the BlockPool
    held,     \* held[r] is the block handle r references, or NoBlock
    content   \* content[b] is the hash of what block b's slots hold, or NoHash

vars == <<pool, held, content>>

Init ==
    /\ pool = NewPool
    /\ held = [r \in Handles |-> NoBlock]
    /\ content = [b \in BlockId |-> NoHash]

Unused(r) == held[r] = NoBlock
Holds(r, b) == held[r] = b /\ b \in BlockId

----------------------------------------------------------------------------
\* allocate, unguarded: the growth of a running sequence.
Allocate(r) ==
    /\ Unused(r)
    /\ Len(pool.evicted_content) < MaxEvicted
    /\ LET a == allocate(pool)
       IN  /\ a.block # NoBlock
           /\ pool' = a.pool
           /\ held' = [held EXCEPT ![r] = a.block]
    /\ UNCHANGED content

\* allocate_guarded: admission and forks, refused below the reserve.
AllocateGuarded(r) ==
    /\ Unused(r)
    /\ Len(pool.evicted_content) < MaxEvicted
    /\ LET a == allocate_guarded(pool)
       IN  /\ a.block # NoBlock
           /\ pool' = a.pool
           /\ held' = [held EXCEPT ![r] = a.block]
    /\ UNCHANGED content

\* A sole holder writes an unpublished block full of h.
Fill(r, h) ==
    /\ ~Unused(r)
    /\ pool.refcount[held[r]] = 1
    /\ pool.hash_of[held[r]] = NoHash
    /\ content' = [content EXCEPT ![held[r]] = h]
    /\ UNCHANGED <<pool, held>>

\* Publish what the block holds; adopt and free as publish's contract says.
Publish(r) ==
    /\ ~Unused(r)
    /\ content[held[r]] # NoHash
    /\ LET b == held[r]
           a == publish(pool, b, content[b])
       IN  IF a.block = b
           THEN pool' = a.pool /\ UNCHANGED held
           ELSE /\ pool' = free(a.pool, b)
                /\ held' = [held EXCEPT ![r] = a.block]
    /\ UNCHANGED content

\* A published block rewritten by its sole holder and published again before
\* anyone can look it up: the stale-entry path of publish.
Refill(r, h) ==
    /\ ~Unused(r)
    /\ pool.refcount[held[r]] = 1
    /\ pool.hash_of[held[r]] # NoHash
    /\ ~contains(pool, h)
    /\ pool' = publish(pool, held[r], h).pool
    /\ content' = [content EXCEPT ![held[r]] = h]
    /\ UNCHANGED held

\* incref by a caller that already holds the block (fork shares a prompt).
Share(r, s) ==
    /\ ~Unused(r)
    /\ Unused(s)
    /\ pool' = incref(pool, held[r])
    /\ held' = [held EXCEPT ![s] = held[r]]
    /\ UNCHANGED content

\* One step of match_prefix.
Lookup(r, h) ==
    /\ Unused(r)
    /\ LET a == lookup(pool, h)
       IN  /\ a.block # NoBlock
           /\ pool' = a.pool
           /\ held' = [held EXCEPT ![r] = a.block]
    /\ UNCHANGED content

Release(r) ==
    /\ ~Unused(r)
    /\ pool' = free(pool, held[r])
    /\ held' = [held EXCEPT ![r] = NoBlock]
    /\ UNCHANGED content

TakeEvicted ==
    /\ pool.evicted_content # <<>>
    /\ pool' = take_evicted(pool)
    /\ UNCHANGED <<held, content>>

Next ==
    \/ \E r \in Handles :
          \/ Allocate(r)
          \/ AllocateGuarded(r)
          \/ Publish(r)
          \/ Release(r)
          \/ \E h \in Hashes : Fill(r, h) \/ Refill(r, h) \/ Lookup(r, h)
          \/ \E s \in Handles : Share(r, s)
    \/ TakeEvicted

Spec == Init /\ [][Next]_vars

----------------------------------------------------------------------------
(***************************************************************************)
(* Properties                                                              *)
(***************************************************************************)
\* The types of the pool's fields (pool.rs struct BlockPool).
TypeOK ==
    /\ pool \in PoolType(Hashes)
    /\ held \in [Handles -> BlockId \cup {NoBlock}]
    /\ content \in [BlockId -> Hashes \cup {NoHash}]

\* Free list and index stay consistent: the assertions of check_invariants
\* hold after every call, whatever the callers' interleaving.
PoolConsistent == FreeListConsistent(pool) /\ IndexConsistent(pool)

\* A block's reference count is the number of references callers hold: no
\* leak (the pool would slowly starve) and no double free.
RefcountExact ==
    \A b \in BlockId : pool.refcount[b] = Cardinality({r \in Handles : held[r] = b})

\* A hash found in the index leads to a block holding exactly that content,
\* across eviction, reuse, adoption and refill ("silent corruption rather
\* than a miss", publish's comment).
IndexFaithful ==
    \A h \in DOMAIN pool.by_hash : content[pool.by_hash[h]] = h

\* Cached content leaves the index only when no contentless block is free and
\* nobody references the block, or because its sole holder rewrote it (the
\* list ends allocate and free choose, publish's stale entry).
EvictStep ==
    \A h \in DOMAIN pool.by_hash :
        h \notin DOMAIN pool'.by_hash =>
            \/ content'[pool.by_hash[h]] # h
            \/ /\ pool.refcount[pool.by_hash[h]] = 0
               /\ \A b \in BlockId : pool.refcount[b] = 0 => pool.hash_of[b] # NoHash

EvictOnlyUnderPressure == [][EvictStep]_vars

=============================================================================
