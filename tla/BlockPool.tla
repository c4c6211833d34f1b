----------------------------- MODULE BlockPool -----------------------------
(***************************************************************************)
(* The paged KV-block pool of crates/vapi-cache/src/pool.rs: a refcounted  *)
(* allocator and the content-addressed prefix index over the same blocks.  *)
(*                                                                         *)
(* The pool is one record; every method of the Rust type is an operator    *)
(* from a pool to a pool.  The intrusive free list (prev, next, lru_head,  *)
(* lru_tail) is the sequence lru, head first: LruList.tla shows that the   *)
(* linked representation implements it.  The statistics counters           *)
(* (hit_tokens, queried_tokens, evictions) are left out.                   *)
(***************************************************************************)
EXTENDS Lists, FiniteSets, SequencesExt

CONSTANTS
    NumBlocks,       \* num_blocks given to BlockPool::new
    Watermark,       \* the reserve asked for (clamped to NumBlocks)
    BlockSize,       \* tokens per block
    TrackEvictions,  \* whether the spill tier asked for evicted content
    NoHash,          \* Option::None of hash_of
    NoBlock          \* Err(..) of an allocation, None of a lookup

ASSUME PoolAssumption ==
    /\ NumBlocks \in Nat \ {0}
    /\ Watermark \in Nat
    /\ BlockSize \in Nat \ {0}
    /\ TrackEvictions \in BOOLEAN

BlockId == 0 .. (NumBlocks - 1)

ASSUME NoBlockAssumption == NoBlock \notin BlockId

watermark == IF Watermark < NumBlocks THEN Watermark ELSE NumBlocks

(***************************************************************************)
(* BlockPool::new: every block is free, in ascending order.                *)
(***************************************************************************)
NewPool ==
    [ refcount        |-> [b \in BlockId |-> 0],
      hash_of         |-> [b \in BlockId |-> NoHash],
      by_hash         |-> <<>>,
      lru             |-> [i \in 1 .. NumBlocks |-> i - 1],
      num_free        |-> NumBlocks,
      evicted_content |-> <<>> ]

blocks_for(tokens) == (tokens + BlockSize - 1) \div BlockSize

can_allocate(p, want) == p.num_free >= want + watermark

contains(p, h) == h \in DOMAIN p.by_hash

\* A map without key h, and with h bound to b (HashMap::remove and insert).
Unbind(f, h) == [x \in DOMAIN f \ {h} |-> f[x]]
Bind(f, h, b) == [x \in DOMAIN f \cup {h} |-> IF x = h THEN b ELSE f[x]]

----------------------------------------------------------------------------
(***************************************************************************)
(* The free list.                                                          *)
(***************************************************************************)
push_front(q, b) == <<b>> \o q

push_back(q, b) == Append(q, b)

unlink(q, b) ==
    LET i == CHOOSE j \in 1 .. Len(q) : q[j] = b
    IN  [j \in 1 .. (Len(q) - 1) |-> IF j < i THEN q[j] ELSE q[j + 1]]

----------------------------------------------------------------------------
(***************************************************************************)
(* allocate: the block at the head of the list, whose cached content, if   *)
(* any, leaves the index.  It returns the pool and the block, or the pool  *)
(* unchanged and NoBlock when nothing is free.                             *)
(***************************************************************************)
Evict(p, b) ==
    IF p.hash_of[b] = NoHash
    THEN p
    ELSE [p EXCEPT
            !.hash_of[b] = NoHash,
            !.by_hash = Unbind(@, p.hash_of[b]),
            !.evicted_content =
                IF TrackEvictions THEN Append(@, <<p.hash_of[b], b>>) ELSE @]

allocate(p) ==
    IF p.num_free = 0
    THEN [pool |-> p, block |-> NoBlock]
    ELSE LET b == Head(p.lru)
         IN  [ pool |-> [Evict(p, b) EXCEPT
                           !.lru = Tail(@),
                           !.num_free = @ - 1,
                           !.refcount[b] = 1],
               block |-> b ]

allocate_guarded(p) ==
    IF can_allocate(p, 1) THEN allocate(p) ELSE [pool |-> p, block |-> NoBlock]

take_evicted(p) == [p EXCEPT !.evicted_content = <<>>]

incref(p, b) == [p EXCEPT !.refcount[b] = @ + 1]

(***************************************************************************)
(* free: the last reference returns the block to the list, cached content  *)
(* to the back and contentless blocks to the front.                        *)
(***************************************************************************)
\* Mutant of free: cached content goes to the front, with the empty blocks.
FreeToFront(p, b) ==
    IF p.refcount[b] = 1
    THEN [p EXCEPT !.refcount[b] = 0, !.lru = push_front(@, b), !.num_free = @ + 1]
    ELSE [p EXCEPT !.refcount[b] = @ - 1]

free(p, b) ==
    IF p.refcount[b] = 1
    THEN [p EXCEPT
            !.refcount[b] = 0,
            !.lru = IF p.hash_of[b] # NoHash THEN push_back(@, b)
                                              ELSE push_front(@, b),
            !.num_free = @ + 1]
    ELSE [p EXCEPT !.refcount[b] = @ - 1]

(***************************************************************************)
(* reference: revives a cached block from the middle of the list.          *)
(***************************************************************************)
\* Mutant of reference: a block in the free list is referenced in place.
ReferenceInPlace(p, b) == [p EXCEPT !.refcount[b] = @ + 1]

reference(p, b) ==
    IF p.refcount[b] = 0
    THEN [p EXCEPT
            !.lru = unlink(@, b),
            !.num_free = @ - 1,
            !.refcount[b] = @ + 1]
    ELSE [p EXCEPT !.refcount[b] = @ + 1]

lookup(p, h) ==
    IF contains(p, h)
    THEN [pool |-> reference(p, p.by_hash[h]), block |-> p.by_hash[h]]
    ELSE [pool |-> p, block |-> NoBlock]

(***************************************************************************)
(* publish: the canonical block for this content.  The first publisher     *)
(* wins: a later one gets a reference to the existing block and must free  *)
(* its own.  A block that carried another hash loses that index entry.     *)
(***************************************************************************)
\* Mutant of publish: the canonical block is returned without a reference.
PublishUnreferenced(p, b, h) ==
    IF contains(p, h) /\ p.by_hash[h] # b
    THEN [pool |-> p, block |-> p.by_hash[h]]
    ELSE [ pool  |-> [p EXCEPT !.hash_of[b] = h, !.by_hash = Bind(p.by_hash, h, b)],
           block |-> b ]

\* Mutant of publish: the entry of the hash the block carried before stays.
PublishKeepingStale(p, b, h) ==
    IF contains(p, h) /\ p.by_hash[h] # b
    THEN [pool |-> reference(p, p.by_hash[h]), block |-> p.by_hash[h]]
    ELSE [ pool  |-> [p EXCEPT !.hash_of[b] = h, !.by_hash = Bind(p.by_hash, h, b)],
           block |-> b ]

publish(p, b, h) ==
    IF contains(p, h) /\ p.by_hash[h] # b
    THEN [pool |-> reference(p, p.by_hash[h]), block |-> p.by_hash[h]]
    ELSE LET stale == p.hash_of[b]
             kept  == IF stale # NoHash /\ stale # h
                      THEN Unbind(p.by_hash, stale)
                      ELSE p.by_hash
         IN  [ pool  |-> [p EXCEPT !.hash_of[b] = h,
                                   !.by_hash = Bind(kept, h, b)],
               block |-> b ]

(***************************************************************************)
(* match_prefix: one lookup per hash up to the first miss.                 *)
(***************************************************************************)
references(p, blocks) ==
    LET after[n \in 0 .. Len(blocks)] == IF n = 0 THEN p ELSE reference(after[n - 1], blocks[n])
    IN  after[Len(blocks)]

match_prefix(p, hashes) ==
    LET hits == CHOOSE n \in 0 .. Len(hashes) :
                    /\ \A i \in 1 .. n : contains(p, hashes[i])
                    /\ n < Len(hashes) => ~contains(p, hashes[n + 1])
        found == [i \in 1 .. hits |-> p.by_hash[hashes[i]]]
    IN  [pool |-> references(p, found), blocks |-> found]

\* Mutant of free_all: the last block is forgotten.
FreeAllButLast(p, blocks) ==
    LET after[n \in 0 .. Len(blocks)] == IF n = 0 THEN p ELSE free(after[n - 1], blocks[n])
    IN  after[IF blocks = <<>> THEN 0 ELSE Len(blocks) - 1]

free_all(p, blocks) ==
    LET after[n \in 0 .. Len(blocks)] == IF n = 0 THEN p ELSE free(after[n - 1], blocks[n])
    IN  after[Len(blocks)]

(***************************************************************************)
(* The callers' allocation loops: up to want blocks, stopping at the first *)
(* failure with what was taken so far.                                     *)
(***************************************************************************)
TakeOne(acc, a) ==
    IF a.block = NoBlock THEN acc
                         ELSE [pool |-> a.pool, blocks |-> Append(acc.blocks, a.block)]

AllocateMany(p, want) ==
    LET after[n \in 0 .. want] ==
            IF n = 0 THEN [pool |-> p, blocks |-> <<>>]
                     ELSE TakeOne(after[n - 1], allocate(after[n - 1].pool))
    IN  IF want > 0 THEN after[want] ELSE [pool |-> p, blocks |-> <<>>]

----------------------------------------------------------------------------
\* The fields of struct BlockPool, hashes being the members of H.
HashIndex(H) == UNION {[S -> BlockId] : S \in SUBSET H}

PoolType(H) ==
    [ refcount        : [BlockId -> Nat],
      hash_of         : [BlockId -> H \cup {NoHash}],
      by_hash         : HashIndex(H),
      lru             : Seq(BlockId),
      num_free        : Nat,
      evicted_content : Seq(H \X BlockId) ]

(***************************************************************************)
(* What check_invariants asserts after every operation of the Rust tests:  *)
(* the free list holds every unreferenced block exactly once, num_free is  *)
(* its length, and the index and the blocks' own hashes are inverse maps.  *)
(***************************************************************************)
FreeListConsistent(p) ==
    /\ p.num_free = Len(p.lru)
    /\ NoRepeats(p.lru)
    /\ \A b \in BlockId : (p.refcount[b] = 0) <=> InList(p.lru, b)

IndexConsistent(p) ==
    /\ \A h \in DOMAIN p.by_hash : p.hash_of[p.by_hash[h]] = h
    /\ \A b \in BlockId :
          p.hash_of[b] # NoHash => /\ p.hash_of[b] \in DOMAIN p.by_hash
                                   /\ p.by_hash[p.hash_of[b]] = b

\* Contentless blocks come before cached ones in the free list.
EmptyBeforeCached(p) ==
    \A i, j \in 1 .. Len(p.lru) :
        (i < j /\ p.hash_of[p.lru[i]] # NoHash) => p.hash_of[p.lru[j]] # NoHash

=============================================================================
