----------------------------- MODULE PoolProofs -----------------------------
(***************************************************************************)
(* Facts about the block pool (BlockPool) for every number of blocks,      *)
(* watermark and set H of hashes, whoever calls it: what each operation    *)
(* does to the reference counts and to the index, and that it keeps the    *)
(* pool consistent.                                                        *)
(***************************************************************************)
EXTENDS BlockPool, ListProofs, FiniteSetTheorems, TLAPS

\* The pool's own invariant: types, free list, index and list order.
PoolOK(H, p) ==
    /\ NoHash \notin H
    /\ p \in PoolType(H)
    /\ FreeListConsistent(p)
    /\ IndexConsistent(p)
    /\ EmptyBeforeCached(p)

----------------------------------------------------------------------------
(***************************************************************************)
(* The free list.                                                          *)
(***************************************************************************)

\* r is q with b put at place m, and r is q without the element at place m.
Inserted(r, q, m, b) ==
    /\ m \in 1 .. (Len(q) + 1)
    /\ Len(r) = Len(q) + 1
    /\ r[m] = b
    /\ \A i \in 1 .. Len(r) : i < m => r[i] = q[i]
    /\ \A i \in 1 .. Len(r) : i > m => r[i] = q[i - 1]

Removed(r, q, m) ==
    /\ m \in 1 .. Len(q)
    /\ Len(r) = Len(q) - 1
    /\ \A i \in 1 .. Len(r) : r[i] = IF i < m THEN q[i] ELSE q[i + 1]

\* unlink removes exactly the place of the element it is given.
LEMMA UnlinkShape ==
    ASSUME NEW S, NEW q \in Seq(S), NEW m \in 1 .. Len(q), NoRepeats(q)
    PROVE  unlink(q, q[m]) \in Seq(S) /\ Removed(unlink(q, q[m]), q, m)
<1>1. m = CHOOSE j \in 1 .. Len(q) : q[j] = q[m]
  BY DEF NoRepeats
<1>2. unlink(q, q[m]) = [j \in 1 .. (Len(q) - 1) |-> IF j < m THEN q[j] ELSE q[j + 1]]
  BY <1>1 DEF unlink
<1> QED
  BY <1>2 DEF Removed

\* Both ends of the list are places to insert at, and its head one to remove.
LEMMA EndShapes ==
    ASSUME NEW S, NEW q \in Seq(S), NEW b \in S
    PROVE  /\ push_front(q, b) \in Seq(S) /\ Inserted(push_front(q, b), q, 1, b)
           /\ push_back(q, b) \in Seq(S) /\ Inserted(push_back(q, b), q, Len(q) + 1, b)
           /\ q # <<>> => Tail(q) \in Seq(S) /\ Removed(Tail(q), q, 1) /\ Head(q) = q[1]
  BY DEF push_front, push_back, Inserted, Removed

\* A new element put anywhere in a list without repetitions leaves it without
\* repetitions, holding the old elements and the new one.
LEMMA InsertFacts ==
    ASSUME NEW S, NEW q \in Seq(S), NEW r \in Seq(S), NEW b \in S, NEW m,
           Inserted(r, q, m, b), NoRepeats(q), ~InList(q, b)
    PROVE  /\ NoRepeats(r)
           /\ \A x \in S : InList(r, x) <=> (x = b \/ InList(q, x))
<1> DEFINE old(i) == IF i < m THEN i ELSE i - 1
           new(i) == IF i < m THEN i ELSE i + 1
<1>0. m \in 1 .. (Len(q) + 1) /\ Len(r) = Len(q) + 1 /\ r[m] = b
  BY DEF Inserted
<1>1. \A i \in 1 .. Len(r) : i # m => old(i) \in 1 .. Len(q) /\ r[i] = q[old(i)]
  BY DEF Inserted
<1>2. \A i, j \in 1 .. Len(r) : (i # m /\ j # m /\ old(i) = old(j)) => i = j
  BY <1>0
<1>3. \A i \in 1 .. Len(q) : new(i) \in 1 .. Len(r) /\ new(i) # m /\ old(new(i)) = i
  BY <1>0
<1> HIDE DEF old, new
<1>4. NoRepeats(r)
  BY <1>0, <1>1, <1>2 DEF NoRepeats, InList
<1>5. ASSUME NEW x \in S, NEW i \in 1 .. Len(q), q[i] = x
      PROVE  \E k \in 1 .. Len(r) : r[k] = x
  BY <1>1, <1>3, <1>5
<1>6. ASSUME NEW x \in S, NEW k \in 1 .. Len(r), r[k] = x, x # b
      PROVE  \E i \in 1 .. Len(q) : q[i] = x
  BY <1>0, <1>1, <1>6
<1>7. m \in 1 .. Len(r)
  BY <1>0
<1> QED
  BY <1>0, <1>4, <1>5, <1>6, <1>7 DEF InList

\* Removing a place likewise.
LEMMA RemoveFacts ==
    ASSUME NEW S, NEW q \in Seq(S), NEW r \in Seq(S), NEW m,
           Removed(r, q, m), NoRepeats(q)
    PROVE  /\ NoRepeats(r)
           /\ \A x \in S : InList(r, x) <=> (x # q[m] /\ InList(q, x))
<1> DEFINE old(i) == IF i < m THEN i ELSE i + 1
           new(i) == IF i < m THEN i ELSE i - 1
<1>0. m \in 1 .. Len(q) /\ Len(r) = Len(q) - 1
  BY DEF Removed
<1>1. \A i \in 1 .. Len(r) : old(i) \in 1 .. Len(q) /\ old(i) # m /\ r[i] = q[old(i)]
  BY DEF Removed
<1>2. \A i, j \in 1 .. Len(r) : old(i) = old(j) => i = j
  BY <1>0
<1>3. \A i \in 1 .. Len(q) : i # m => new(i) \in 1 .. Len(r) /\ old(new(i)) = i
  BY <1>0
<1> HIDE DEF old, new
<1>4. NoRepeats(r)
  BY <1>1, <1>2 DEF NoRepeats
<1>5. ASSUME NEW x \in S, NEW i \in 1 .. Len(q), q[i] = x, x # q[m]
      PROVE  \E k \in 1 .. Len(r) : r[k] = x
  BY <1>1, <1>3, <1>5
<1>6. ASSUME NEW x \in S, NEW k \in 1 .. Len(r), r[k] = x
      PROVE  x # q[m] /\ \E i \in 1 .. Len(q) : q[i] = x
  BY <1>0, <1>1, <1>6 DEF NoRepeats
<1> QED
  BY <1>4, <1>5, <1>6 DEF InList

\* Bind and Unbind stay partial maps from hashes to blocks.
LEMMA MapTypes ==
    ASSUME NEW H, NEW f \in HashIndex(H), NEW h \in H, NEW b \in BlockId
    PROVE  /\ Bind(f, h, b) \in HashIndex(H)
           /\ Unbind(f, h) \in HashIndex(H)
           /\ DOMAIN f \subseteq H
           /\ \A x \in DOMAIN f : f[x] \in BlockId
<1>1. PICK S \in SUBSET H : f \in [S -> BlockId]
  BY DEF HashIndex
<1>2. DOMAIN f = S /\ \A x \in S : f[x] \in BlockId
  BY <1>1
<1>3. Bind(f, h, b) \in [S \cup {h} -> BlockId]
  BY <1>2 DEF Bind
<1>4. Unbind(f, h) \in [S \ {h} -> BlockId]
  BY <1>2 DEF Unbind
<1>5. S \cup {h} \in SUBSET H /\ S \ {h} \in SUBSET H
  BY <1>1
<1> QED
  BY <1>2, <1>3, <1>4, <1>5 DEF HashIndex

\* A pool's fields and their types.
LEMMA PoolFields ==
    ASSUME NEW H, NEW p \in PoolType(H)
    PROVE  /\ p.refcount \in [BlockId -> Nat]
           /\ p.hash_of \in [BlockId -> H \cup {NoHash}]
           /\ p.by_hash \in HashIndex(H)
           /\ p.lru \in Seq(BlockId)
           /\ p.num_free \in Nat
           /\ p.evicted_content \in Seq(H \X BlockId)
  BY DEF PoolType

\* The new pool satisfies the pool's invariant.
LEMMA NewPoolOK ==
    ASSUME NEW H, NoHash \notin H
    PROVE  PoolOK(H, NewPool)
<1> DEFINE q == [i \in 1 .. NumBlocks |-> i - 1]
<1>1. q \in Seq(BlockId) /\ Len(q) = NumBlocks
  BY PoolAssumption DEF BlockId
<1>2. NewPool.by_hash \in HashIndex(H) /\ DOMAIN NewPool.by_hash = {}
  <2>1. NewPool.by_hash \in [{} -> BlockId]
    BY DEF NewPool
  <2> QED
    BY <2>1 DEF HashIndex
<1>3. /\ NewPool.refcount = [b \in BlockId |-> 0]
      /\ NewPool.hash_of = [b \in BlockId |-> NoHash]
      /\ NewPool.lru = q /\ NewPool.num_free = NumBlocks
      /\ NewPool.evicted_content = <<>>
  BY DEF NewPool
<1>4. NewPool \in PoolType(H)
  <2>1. NumBlocks \in Nat /\ <<>> \in Seq(H \X BlockId)
    BY PoolAssumption
  <2>2. [b \in BlockId |-> 0] \in [BlockId -> Nat]
    OBVIOUS
  <2>3. [b \in BlockId |-> NoHash] \in [BlockId -> H \cup {NoHash}]
    OBVIOUS
  <2> QED
    BY <1>1, <1>2, <2>1, <2>2, <2>3 DEF NewPool, PoolType
<1>5. FreeListConsistent(NewPool)
  <2>1. \A b \in BlockId : b + 1 \in 1 .. NumBlocks /\ q[b + 1] = b
    BY PoolAssumption DEF BlockId
  <2>2. NoRepeats(q)
    BY <1>1, PoolAssumption DEF NoRepeats
  <2>3. \A b \in BlockId : InList(q, b)
    BY <1>1, <2>1 DEF InList
  <2> QED
    BY <1>1, <1>3, <2>2, <2>3 DEF FreeListConsistent
<1>6. IndexConsistent(NewPool)
  BY <1>2, <1>3 DEF IndexConsistent
<1>7. EmptyBeforeCached(NewPool)
  <2>1. \A i \in 1 .. Len(q) : q[i] \in BlockId
    BY <1>1, PoolAssumption DEF BlockId
  <2> HIDE DEF q
  <2> QED
    BY <1>3, <2>1 DEF EmptyBeforeCached
<1> QED
  BY <1>4, <1>5, <1>6, <1>7 DEF PoolOK

----------------------------------------------------------------------------
(***************************************************************************)
(* The pool's operations, one lemma each: what the operation does to the   *)
(* reference counts and to the index, and that it keeps PoolOK.            *)
(***************************************************************************)

\* incref of a referenced block.
LEMMA IncrefOK ==
    ASSUME NEW H, NEW p, PoolOK(H, p), NEW b \in BlockId, p.refcount[b] > 0
    PROVE  /\ PoolOK(H, incref(p, b))
           /\ incref(p, b).refcount = [p.refcount EXCEPT ![b] = @ + 1]
           /\ incref(p, b).by_hash = p.by_hash
<1> DEFINE r == incref(p, b)
           rc == [p.refcount EXCEPT ![b] = @ + 1]
<1>1. p \in PoolType(H)
  BY DEF PoolOK
<1>2. r = [p EXCEPT !.refcount = rc] /\ rc \in [BlockId -> Nat]
  BY <1>1 DEF incref, PoolType
<1>3. r \in PoolType(H)
  BY <1>1, <1>2 DEF PoolType
<1>4. /\ r.refcount = rc /\ r.hash_of = p.hash_of /\ r.by_hash = p.by_hash
      /\ r.lru = p.lru /\ r.num_free = p.num_free
  BY <1>1, <1>2 DEF PoolType
<1>5. \A x \in BlockId : (r.refcount[x] = 0) <=> (p.refcount[x] = 0)
  BY <1>1, <1>4 DEF PoolType
<1> QED
  BY <1>3, <1>4, <1>5 DEF PoolOK, FreeListConsistent, IndexConsistent, EmptyBeforeCached

\* Evicting an unreferenced block's content: only the index changes.
LEMMA EvictShape ==
    ASSUME NEW H, NEW p, PoolOK(H, p), NEW b \in BlockId
    PROVE  /\ Evict(p, b) \in PoolType(H)
           /\ Evict(p, b).refcount = p.refcount
           /\ Evict(p, b).lru = p.lru
           /\ Evict(p, b).num_free = p.num_free
           /\ Evict(p, b).hash_of = [p.hash_of EXCEPT ![b] = NoHash]
           /\ Evict(p, b).by_hash = Unbind(p.by_hash, p.hash_of[b])
<1> DEFINE h == p.hash_of[b]
<1>1. p \in PoolType(H) /\ NoHash \notin H
  BY DEF PoolOK
<1>2. CASE h = NoHash
  <2>1. Evict(p, b) = p
    BY <1>2 DEF Evict
  <2>2. p.hash_of = [p.hash_of EXCEPT ![b] = NoHash]
    BY <1>1, <1>2 DEF PoolType
  <2>3. DOMAIN p.by_hash \subseteq H
    BY <1>1 DEF PoolType, HashIndex
  <2>4. p.by_hash = Unbind(p.by_hash, h)
    <3>1. p.by_hash = [x \in DOMAIN p.by_hash |-> p.by_hash[x]]
      BY <1>1 DEF PoolType, HashIndex
    <3> QED
      BY <1>1, <1>2, <2>3, <3>1 DEF Unbind
  <2> QED
    BY <1>1, <2>1, <2>2, <2>4
<1>3. CASE h # NoHash
  <2> DEFINE e == IF TrackEvictions THEN Append(p.evicted_content, <<h, b>>)
                                    ELSE p.evicted_content
             ho == [p.hash_of EXCEPT ![b] = NoHash]
             bh == Unbind(p.by_hash, h)
  <2>1. h \in H
    BY <1>1, <1>3 DEF PoolType
  <2>2. Evict(p, b) = [p EXCEPT !.hash_of = ho, !.by_hash = bh, !.evicted_content = e]
    BY <1>1, <1>3 DEF Evict, PoolType
  <2>3. /\ ho \in [BlockId -> H \cup {NoHash}]
        /\ e \in Seq(H \X BlockId)
        /\ bh \in HashIndex(H)
    <3>1. p.evicted_content \in Seq(H \X BlockId) /\ p.by_hash \in HashIndex(H)
      BY <1>1 DEF PoolType
    <3>2. <<h, b>> \in H \X BlockId
      BY <2>1
    <3>3. e \in Seq(H \X BlockId)
      BY <3>1, <3>2
    <3>4. bh \in HashIndex(H)
      BY <2>1, <3>1, MapTypes
    <3>5. ho \in [BlockId -> H \cup {NoHash}]
      BY <1>1 DEF PoolType
    <3> QED
      BY <3>3, <3>4, <3>5
  <2> HIDE DEF e, ho, bh
  <2> QED
    BY <1>1, <2>2, <2>3 DEF PoolType, e, ho, bh
<1> QED
  BY <1>2, <1>3

----------------------------------------------------------------------------
\* A block taken out of the free list, wherever it stands in it, together with
\* its first reference, leaves the list consistent and in order.
LEMMA TakeOut ==
    ASSUME NEW H, NEW p, PoolOK(H, p), NEW r, r \in PoolType(H), NEW m, Removed(r.lru, p.lru, m),
           r.num_free = p.num_free - 1,
           r.refcount[p.lru[m]] # 0,
           \A x \in BlockId : x # p.lru[m] =>
               r.refcount[x] = p.refcount[x] /\ r.hash_of[x] = p.hash_of[x]
    PROVE  /\ FreeListConsistent(r)
           /\ EmptyBeforeCached(r)
<1> DEFINE b == p.lru[m]
           old(i) == IF i < m THEN i ELSE i + 1
<1>1. p.lru \in Seq(BlockId) /\ r.lru \in Seq(BlockId)
  BY PoolFields DEF PoolOK
<1>2. /\ p.num_free = Len(p.lru) /\ NoRepeats(p.lru)
      /\ \A x \in BlockId : (p.refcount[x] = 0) <=> InList(p.lru, x)
  BY DEF PoolOK, FreeListConsistent
<1>3. m \in 1 .. Len(p.lru) /\ Len(r.lru) = Len(p.lru) - 1 /\ b \in BlockId
  BY <1>1 DEF Removed
<1>4. /\ NoRepeats(r.lru)
      /\ \A x \in BlockId : InList(r.lru, x) <=> (x # b /\ InList(p.lru, x))
  BY <1>1, <1>2, RemoveFacts
<1>5. \A i \in 1 .. Len(r.lru) : old(i) \in 1 .. Len(p.lru) /\ r.lru[i] = p.lru[old(i)]
  BY <1>3 DEF Removed
<1>6. \A i, j \in 1 .. Len(r.lru) : i < j => old(i) < old(j)
  BY <1>3
<1>7. \A i \in 1 .. Len(r.lru) : r.lru[i] \in BlockId /\ r.lru[i] # b
  BY <1>1, <1>4 DEF InList
<1> HIDE DEF old, b
<1>8. FreeListConsistent(r)
  BY <1>2, <1>3, <1>4 DEF FreeListConsistent, b
<1>9. \A i \in 1 .. Len(r.lru) : r.hash_of[r.lru[i]] = p.hash_of[p.lru[old(i)]]
  BY <1>5, <1>7 DEF b
<1>10. ASSUME NEW i \in 1 .. Len(r.lru), NEW j \in 1 .. Len(r.lru), i < j,
              r.hash_of[r.lru[i]] # NoHash
       PROVE  r.hash_of[r.lru[j]] # NoHash
  <2>1. old(i) \in 1 .. Len(p.lru) /\ old(j) \in 1 .. Len(p.lru) /\ old(i) < old(j)
    BY <1>5, <1>6, <1>10
  <2>2. p.hash_of[p.lru[old(i)]] # NoHash
    BY <1>9, <1>10
  <2>3. p.hash_of[p.lru[old(j)]] # NoHash
    BY <2>1, <2>2 DEF PoolOK, EmptyBeforeCached
  <2> QED
    BY <1>9, <2>3
<1>11. EmptyBeforeCached(r)
  BY <1>10 DEF EmptyBeforeCached
<1> QED
  BY <1>8, <1>11

\* A block put into the free list by its last holder, cached content at the
\* back and contentless blocks at the front, leaves it consistent and in order.
LEMMA PutBack ==
    ASSUME NEW H, NEW p, PoolOK(H, p), NEW r, r \in PoolType(H), NEW b \in BlockId, NEW m,
           Inserted(r.lru, p.lru, m, b),
           m = IF p.hash_of[b] # NoHash THEN Len(p.lru) + 1 ELSE 1,
           r.num_free = p.num_free + 1,
           p.refcount[b] # 0, r.refcount[b] = 0, r.hash_of = p.hash_of,
           \A x \in BlockId : x # b => r.refcount[x] = p.refcount[x]
    PROVE  /\ FreeListConsistent(r)
           /\ EmptyBeforeCached(r)
<1>1. p.lru \in Seq(BlockId) /\ r.lru \in Seq(BlockId)
  BY PoolFields DEF PoolOK
<1>2. /\ p.num_free = Len(p.lru) /\ NoRepeats(p.lru)
      /\ \A x \in BlockId : (p.refcount[x] = 0) <=> InList(p.lru, x)
  BY DEF PoolOK, FreeListConsistent
<1>3. /\ NoRepeats(r.lru)
      /\ \A x \in BlockId : InList(r.lru, x) <=> (x = b \/ InList(p.lru, x))
  BY <1>1, <1>2, InsertFacts
<1>4. /\ Len(r.lru) = Len(p.lru) + 1 /\ r.lru[m] = b
      /\ \A i \in 1 .. Len(r.lru) : i < m => r.lru[i] = p.lru[i]
      /\ \A i \in 1 .. Len(r.lru) : i > m => r.lru[i] = p.lru[i - 1]
  BY DEF Inserted
<1>5. FreeListConsistent(r)
  BY <1>2, <1>3, <1>4 DEF FreeListConsistent
<1>6. ASSUME NEW i \in 1 .. Len(r.lru), NEW j \in 1 .. Len(r.lru), i < j,
             p.hash_of[r.lru[i]] # NoHash
      PROVE  p.hash_of[r.lru[j]] # NoHash
  <2>1. CASE p.hash_of[b] # NoHash
    <3>1. CASE j = m
      BY <1>4, <2>1, <3>1
    <3>2. CASE j # m
      <4>1. /\ i \in 1 .. Len(p.lru) /\ j \in 1 .. Len(p.lru)
            /\ r.lru[i] = p.lru[i] /\ r.lru[j] = p.lru[j]
        BY <1>1, <1>4, <1>6, <2>1, <3>2
      <4> QED
        BY <1>6, <4>1 DEF PoolOK, EmptyBeforeCached
    <3> QED
      BY <3>1, <3>2
  <2>2. CASE p.hash_of[b] = NoHash
    <3>1. i # 1
      BY <1>4, <1>6, <2>2
    <3>2. /\ i - 1 \in 1 .. Len(p.lru) /\ j - 1 \in 1 .. Len(p.lru) /\ i - 1 < j - 1
          /\ r.lru[i] = p.lru[i - 1] /\ r.lru[j] = p.lru[j - 1]
      BY <1>1, <1>4, <1>6, <2>2, <3>1
    <3> QED
      BY <1>6, <3>2 DEF PoolOK, EmptyBeforeCached
  <2> QED
    BY <2>1, <2>2
<1>7. EmptyBeforeCached(r)
  BY <1>6 DEF EmptyBeforeCached
<1> QED
  BY <1>5, <1>7

\* allocate hands out an unreferenced block at one reference; at most that
\* block's hash leaves the index, and then no contentless block was free.
LEMMA AllocateOK ==
    ASSUME NEW H, NEW p, PoolOK(H, p), p.num_free # 0, NEW b, b = Head(p.lru)
    PROVE  /\ allocate(p).block = b
           /\ PoolOK(H, allocate(p).pool)
           /\ b \in BlockId
           /\ p.refcount[b] = 0
           /\ allocate(p).pool.refcount = [p.refcount EXCEPT ![b] = 1]
           /\ allocate(p).pool.by_hash = Unbind(p.by_hash, p.hash_of[b])
           /\ p.hash_of[b] # NoHash =>
                 \A x \in BlockId : p.refcount[x] = 0 => p.hash_of[x] # NoHash
<1> DEFINE e == Evict(p, b)
           r == allocate(p).pool
           rc == [p.refcount EXCEPT ![b] = 1]
           n == p.num_free - 1
           q == Tail(p.lru)
<1>1. p \in PoolType(H)
  BY DEF PoolOK
<1>2. p.lru \in Seq(BlockId) /\ p.num_free \in Nat /\ p.refcount \in [BlockId -> Nat]
  BY <1>1, PoolFields
<1>3. p.num_free = Len(p.lru) /\ p.lru # <<>>
  <2>1. p.num_free = Len(p.lru)
    BY DEF PoolOK, FreeListConsistent
  <2> QED
    BY <1>2, <2>1
<1>4. b \in BlockId /\ b = p.lru[1] /\ 1 \in 1 .. Len(p.lru)
  BY <1>2, <1>3
<1>5. q \in Seq(BlockId) /\ Removed(q, p.lru, 1)
  <2> HIDE DEF q
  <2>1. Tail(p.lru) \in Seq(BlockId) /\ Removed(Tail(p.lru), p.lru, 1)
    BY <1>2, <1>3, <1>4, EndShapes
  <2> QED
    BY <2>1 DEF q
<1>6. /\ e \in PoolType(H) /\ e.refcount = p.refcount /\ e.lru = p.lru /\ e.num_free = p.num_free
      /\ e.hash_of = [p.hash_of EXCEPT ![b] = NoHash]
      /\ e.by_hash = Unbind(p.by_hash, p.hash_of[b])
  BY <1>4, EvictShape
<1>7. rc \in [BlockId -> Nat] /\ n \in Nat
  <2>1. rc \in [BlockId -> Nat]
    BY <1>2
  <2>2. n \in Nat
    BY <1>2
  <2> QED
    BY <2>1, <2>2
<1>8. r = [e EXCEPT !.refcount = rc, !.lru = q, !.num_free = n]
  BY <1>6 DEF allocate, PoolType
<1>9. allocate(p).block = b
  BY DEF allocate
<1> HIDE DEF e, r, rc, n, q
<1>10. /\ r \in PoolType(H) /\ r.refcount = rc /\ r.lru = q /\ r.num_free = n
       /\ r.hash_of = e.hash_of /\ r.by_hash = e.by_hash
  <2>1. e \in PoolType(H) /\ q \in Seq(BlockId)
    BY <1>5, <1>6
  <2> QED
    BY <2>1, <1>7, <1>8 DEF PoolType
<1>11. p.hash_of \in [BlockId -> H \cup {NoHash}] /\ p.by_hash \in HashIndex(H)
  BY <1>1, PoolFields
<1>12. /\ r.refcount[b] = 1
       /\ \A x \in BlockId : x # b => r.refcount[x] = p.refcount[x] /\ r.hash_of[x] = p.hash_of[x]
       /\ r.hash_of[b] = NoHash
  BY <1>2, <1>4, <1>6, <1>10, <1>11 DEF rc
<1>13. FreeListConsistent(r) /\ EmptyBeforeCached(r)
  <2>1. r.refcount[p.lru[1]] # 0
    BY <1>4, <1>12
  <2>2. \A x \in BlockId : x # p.lru[1] => r.refcount[x] = p.refcount[x] /\ r.hash_of[x] = p.hash_of[x]
    BY <1>4, <1>12
  <2>3. r.num_free = p.num_free - 1 /\ Removed(r.lru, p.lru, 1)
    BY <1>5, <1>10 DEF n
  <2> QED
    BY <1>10, <2>1, <2>2, <2>3, TakeOut
<1>14. IndexConsistent(r)
  <2>1. /\ \A h \in DOMAIN p.by_hash : p.hash_of[p.by_hash[h]] = h /\ p.by_hash[h] \in BlockId
        /\ DOMAIN p.by_hash \subseteq H
    <3>1. \A h \in DOMAIN p.by_hash : p.hash_of[p.by_hash[h]] = h
      BY DEF PoolOK, IndexConsistent
    <3> QED
      BY <3>1, <1>11 DEF HashIndex
  <2>2. \A x \in BlockId : p.hash_of[x] # NoHash => /\ p.hash_of[x] \in DOMAIN p.by_hash
                                                    /\ p.by_hash[p.hash_of[x]] = x
    BY DEF PoolOK, IndexConsistent
  <2>3. /\ DOMAIN r.by_hash = DOMAIN p.by_hash \ {p.hash_of[b]}
        /\ \A h \in DOMAIN r.by_hash : r.by_hash[h] = p.by_hash[h]
    BY <1>6, <1>10 DEF Unbind
  <2>4. \A h \in DOMAIN r.by_hash : r.by_hash[h] # b /\ r.hash_of[r.by_hash[h]] = h
    BY <2>1, <2>3, <1>12
  <2>5. ASSUME NEW x \in BlockId, r.hash_of[x] # NoHash
        PROVE  r.hash_of[x] \in DOMAIN r.by_hash /\ r.by_hash[r.hash_of[x]] = x
    <3>1. x # b /\ r.hash_of[x] = p.hash_of[x]
      BY <1>12, <2>5
    <3>2. p.hash_of[x] # p.hash_of[b]
      BY <2>2, <2>5, <3>1, <1>4
    <3> QED
      BY <2>2, <2>3, <2>5, <3>1, <3>2
  <2> QED
    BY <2>4, <2>5 DEF IndexConsistent
<1>15. p.refcount[b] = 0
  <2>1. InList(p.lru, b)
    BY <1>4 DEF InList
  <2> QED
    BY <1>4, <2>1 DEF PoolOK, FreeListConsistent
<1>16. ASSUME p.hash_of[b] # NoHash, NEW x \in BlockId, p.refcount[x] = 0
       PROVE  p.hash_of[x] # NoHash
  <2>1. PICK i \in 1 .. Len(p.lru) : p.lru[i] = x
    BY <1>16 DEF PoolOK, FreeListConsistent, InList
  <2>2. i = 1 \/ 1 < i
    BY <1>2, <2>1
  <2> QED
    BY <1>4, <1>16, <2>1, <2>2 DEF PoolOK, EmptyBeforeCached
<1>17. r.by_hash = Unbind(p.by_hash, p.hash_of[b])
  BY <1>6, <1>10
<1>18. PoolOK(H, r)
  BY <1>10, <1>13, <1>14 DEF PoolOK
<1> QED
  BY <1>4, <1>9, <1>10, <1>15, <1>16, <1>17, <1>18 DEF r, rc

\* free drops one reference and touches neither hashes nor index.
LEMMA FreeOK ==
    ASSUME NEW H, NEW p, PoolOK(H, p), NEW b \in BlockId, p.refcount[b] # 0
    PROVE  /\ PoolOK(H, free(p, b))
           /\ free(p, b).refcount = [p.refcount EXCEPT ![b] = @ - 1]
           /\ free(p, b).by_hash = p.by_hash
<1> DEFINE r == free(p, b)
           rc == [p.refcount EXCEPT ![b] = @ - 1]
           n == p.num_free + 1
           q == IF p.hash_of[b] # NoHash THEN push_back(p.lru, b) ELSE push_front(p.lru, b)
           m == IF p.hash_of[b] # NoHash THEN Len(p.lru) + 1 ELSE 1
<1>1. p \in PoolType(H)
  BY DEF PoolOK
<1>2. p.lru \in Seq(BlockId) /\ p.num_free \in Nat /\ p.refcount \in [BlockId -> Nat]
  BY <1>1, PoolFields
<1>3. rc \in [BlockId -> Nat]
  <2>1. p.refcount[b] - 1 \in Nat
    BY <1>2
  <2> QED
    BY <1>2, <2>1
<1>4. n \in Nat
  BY <1>2
<1>5. q \in Seq(BlockId) /\ Inserted(q, p.lru, m, b)
  <2>1. /\ push_front(p.lru, b) \in Seq(BlockId) /\ Inserted(push_front(p.lru, b), p.lru, 1, b)
        /\ push_back(p.lru, b) \in Seq(BlockId)
        /\ Inserted(push_back(p.lru, b), p.lru, Len(p.lru) + 1, b)
    BY <1>2, EndShapes
  <2> QED
    BY <2>1
<1>6. \A x \in BlockId : rc[x] = IF x = b THEN p.refcount[b] - 1 ELSE p.refcount[x]
  BY <1>2
<1>7. CASE p.refcount[b] # 1
  <2>1. r = [p EXCEPT !.refcount = rc]
    BY <1>1, <1>7 DEF free, PoolType
  <2> HIDE DEF r, rc
  <2>2. /\ r \in PoolType(H) /\ r.refcount = rc /\ r.hash_of = p.hash_of /\ r.by_hash = p.by_hash
        /\ r.lru = p.lru /\ r.num_free = p.num_free
    BY <1>1, <1>3, <2>1 DEF PoolType
  <2>3. \A x \in BlockId : (rc[x] = 0) <=> (p.refcount[x] = 0)
    <3>1. p.refcount[b] - 1 # 0
      BY <1>2, <1>7
    <3> QED
      BY <1>6, <3>1
  <2>4. PoolOK(H, r)
    BY <2>2, <2>3 DEF PoolOK, FreeListConsistent, IndexConsistent, EmptyBeforeCached
  <2> QED
    BY <2>2, <2>4 DEF r, rc
<1>8. CASE p.refcount[b] = 1
  <2>1. rc = [p.refcount EXCEPT ![b] = 0]
    BY <1>2, <1>8
  <2>2. r = [p EXCEPT !.refcount = rc, !.lru = q, !.num_free = n]
    BY <1>1, <1>8, <2>1 DEF free, PoolType
  <2> HIDE DEF r, rc, q, n
  <2>3. /\ r \in PoolType(H) /\ r.refcount = rc /\ r.lru = q /\ r.num_free = n
        /\ r.hash_of = p.hash_of /\ r.by_hash = p.by_hash
    BY <1>1, <1>3, <1>4, <1>5, <2>2 DEF PoolType
  <2>4. /\ r.refcount[b] = 0 /\ r.num_free = p.num_free + 1 /\ Inserted(r.lru, p.lru, m, b)
        /\ \A x \in BlockId : x # b => r.refcount[x] = p.refcount[x]
    BY <1>5, <1>6, <1>8, <2>3 DEF n
  <2>5. FreeListConsistent(r) /\ EmptyBeforeCached(r)
    BY <2>3, <2>4, PutBack
  <2>6. IndexConsistent(r)
    BY <2>3 DEF PoolOK, IndexConsistent
  <2>7. PoolOK(H, r)
    BY <2>3, <2>5, <2>6 DEF PoolOK
  <2> QED
    BY <2>3, <2>7 DEF r, rc
<1> QED
  BY <1>7, <1>8

\* reference adds one reference, reviving the block from the list if needed.
LEMMA ReferenceOK ==
    ASSUME NEW H, NEW p, PoolOK(H, p), NEW b \in BlockId
    PROVE  /\ PoolOK(H, reference(p, b))
           /\ reference(p, b).refcount = [p.refcount EXCEPT ![b] = @ + 1]
           /\ reference(p, b).by_hash = p.by_hash
<1> DEFINE r == reference(p, b)
           rc == [p.refcount EXCEPT ![b] = @ + 1]
           n == p.num_free - 1
           q == unlink(p.lru, b)
<1>1. p \in PoolType(H)
  BY DEF PoolOK
<1>2. p.lru \in Seq(BlockId) /\ p.num_free \in Nat /\ p.refcount \in [BlockId -> Nat]
  BY <1>1, PoolFields
<1>3. CASE p.refcount[b] # 0
  <2>1. r = incref(p, b)
    BY <1>3 DEF reference, incref
  <2>2. p.refcount[b] > 0
    BY <1>2, <1>3
  <2> QED
    BY <2>1, <2>2, IncrefOK
<1>4. CASE p.refcount[b] = 0
  <2>1. PICK m \in 1 .. Len(p.lru) : p.lru[m] = b
    BY <1>4 DEF PoolOK, FreeListConsistent, InList
  <2>2. p.num_free = Len(p.lru) /\ NoRepeats(p.lru)
    BY DEF PoolOK, FreeListConsistent
  <2>3. q \in Seq(BlockId) /\ Removed(q, p.lru, m)
    <3>1. unlink(p.lru, p.lru[m]) \in Seq(BlockId) /\ Removed(unlink(p.lru, p.lru[m]), p.lru, m)
      BY <1>2, <2>1, <2>2, UnlinkShape
    <3> QED
      BY <2>1, <3>1
  <2>4. n \in Nat
    BY <1>2, <2>1, <2>2
  <2>5. rc \in [BlockId -> Nat]
    BY <1>2
  <2>6. r = [p EXCEPT !.refcount = rc, !.lru = q, !.num_free = n]
    BY <1>1, <1>4 DEF reference, PoolType
  <2>7. \A x \in BlockId : rc[x] = IF x = b THEN 1 ELSE p.refcount[x]
    BY <1>2, <1>4
  <2> HIDE DEF r, rc, q, n
  <2>8. /\ r \in PoolType(H) /\ r.refcount = rc /\ r.lru = q /\ r.num_free = n
        /\ r.hash_of = p.hash_of /\ r.by_hash = p.by_hash
    BY <1>1, <2>3, <2>4, <2>5, <2>6 DEF PoolType
  <2>9. /\ r.num_free = p.num_free - 1 /\ Removed(r.lru, p.lru, m)
        /\ r.refcount[p.lru[m]] # 0
        /\ \A x \in BlockId : x # p.lru[m] => /\ r.refcount[x] = p.refcount[x]
                                              /\ r.hash_of[x] = p.hash_of[x]
    BY <2>1, <2>3, <2>7, <2>8 DEF n
  <2>10. FreeListConsistent(r) /\ EmptyBeforeCached(r)
    BY <2>8, <2>9, TakeOut
  <2>11. IndexConsistent(r)
    BY <2>8 DEF PoolOK, IndexConsistent
  <2>12. PoolOK(H, r)
    BY <2>8, <2>10, <2>11 DEF PoolOK
  <2> QED
    BY <2>8, <2>12 DEF r, rc
<1> QED
  BY <1>3, <1>4

\* publish of a referenced block whose content nobody else has published, or
\* has published as this very block: b becomes the block of h, and the entry
\* of the hash it carried before is gone.
LEMMA PublishOK ==
    ASSUME NEW H, NEW p, PoolOK(H, p), NEW b \in BlockId, NEW h \in H, p.refcount[b] # 0,
           ~(contains(p, h) /\ p.by_hash[h] # b)
    PROVE  /\ publish(p, b, h).block = b
           /\ PoolOK(H, publish(p, b, h).pool)
           /\ publish(p, b, h).pool.refcount = p.refcount
           /\ DOMAIN publish(p, b, h).pool.by_hash = (DOMAIN p.by_hash \ {p.hash_of[b]}) \cup {h}
           /\ publish(p, b, h).pool.by_hash[h] = b
           /\ \A x \in DOMAIN publish(p, b, h).pool.by_hash :
                 x # h => publish(p, b, h).pool.by_hash[x] = p.by_hash[x]
<1> DEFINE r == publish(p, b, h).pool
           stale == p.hash_of[b]
           kept == IF stale # NoHash /\ stale # h THEN Unbind(p.by_hash, stale) ELSE p.by_hash
           bh == Bind(kept, h, b)
           ho == [p.hash_of EXCEPT ![b] = h]
<1>1. p \in PoolType(H) /\ NoHash \notin H
  BY DEF PoolOK
<1>2. /\ p.hash_of \in [BlockId -> H \cup {NoHash}] /\ p.by_hash \in HashIndex(H)
      /\ p.lru \in Seq(BlockId)
  BY <1>1, PoolFields
<1>3. DOMAIN p.by_hash \subseteq H /\ \A x \in DOMAIN p.by_hash : p.by_hash[x] \in BlockId
  BY <1>2, MapTypes
<1>4. /\ \A x \in DOMAIN p.by_hash : p.hash_of[p.by_hash[x]] = x
      /\ \A x \in BlockId : p.hash_of[x] # NoHash => /\ p.hash_of[x] \in DOMAIN p.by_hash
                                                     /\ p.by_hash[p.hash_of[x]] = x
  BY DEF PoolOK, IndexConsistent
<1>5. kept \in HashIndex(H)
  <2>1. CASE stale # NoHash /\ stale # h
    <3>1. stale \in H
      BY <1>2, <2>1
    <3>2. Unbind(p.by_hash, stale) \in HashIndex(H)
      BY <1>2, <3>1, MapTypes
    <3> QED
      BY <2>1, <3>2
  <2>2. CASE ~(stale # NoHash /\ stale # h)
    BY <1>2, <2>2
  <2> QED
    BY <2>1, <2>2
<1>6. /\ DOMAIN kept \cup {h} = (DOMAIN p.by_hash \ {stale}) \cup {h}
      /\ \A x \in DOMAIN kept : kept[x] = p.by_hash[x]
  BY <1>1, <1>3 DEF Unbind
<1>7. publish(p, b, h).block = b /\ r = [p EXCEPT !.hash_of = ho, !.by_hash = bh]
  BY <1>1 DEF publish, PoolType
<1>8. ho \in [BlockId -> H \cup {NoHash}]
  BY <1>2
<1>9. \A x \in BlockId : ho[x] = IF x = b THEN h ELSE p.hash_of[x]
  BY <1>2
<1> HIDE DEF kept
<1>10. bh \in HashIndex(H)
  BY <1>5, MapTypes
<1>11. DOMAIN bh = DOMAIN kept \cup {h} /\ bh[h] = b /\ \A x \in DOMAIN bh : x # h => bh[x] = kept[x]
  BY DEF Bind
<1> HIDE DEF r, bh, ho
<1>12. /\ r \in PoolType(H) /\ r.refcount = p.refcount /\ r.lru = p.lru /\ r.num_free = p.num_free
       /\ r.hash_of = ho /\ r.by_hash = bh
  BY <1>1, <1>7, <1>8, <1>10 DEF PoolType
<1>13. DOMAIN bh = (DOMAIN p.by_hash \ {stale}) \cup {h} /\ \A x \in DOMAIN bh : x # h => bh[x] = p.by_hash[x]
  BY <1>6, <1>11
<1>14. IndexConsistent(r)
  <2>1. ASSUME NEW x \in DOMAIN bh PROVE ho[bh[x]] = x
    <3>1. CASE x = h
      BY <1>9, <1>11, <3>1
    <3>2. CASE x # h
      <4>1. x \in DOMAIN p.by_hash /\ x # stale /\ bh[x] = p.by_hash[x]
        BY <1>13, <3>2
      <4>2. p.by_hash[x] \in BlockId /\ p.hash_of[p.by_hash[x]] = x
        BY <1>3, <1>4, <4>1
      <4> QED
        BY <1>9, <4>1, <4>2
    <3> QED
      BY <3>1, <3>2
  <2>2. ASSUME NEW x \in BlockId, ho[x] # NoHash
        PROVE  ho[x] \in DOMAIN bh /\ bh[ho[x]] = x
    <3>1. CASE x = b
      BY <1>9, <1>11, <3>1
    <3>2. CASE x # b
      <4>1. ho[x] = p.hash_of[x] /\ p.hash_of[x] \in DOMAIN p.by_hash /\ p.by_hash[p.hash_of[x]] = x
        BY <1>4, <1>9, <2>2, <3>2
      <4>2. p.hash_of[x] # stale
        BY <1>4, <4>1, <2>2, <3>2
      <4>3. p.hash_of[x] # h
        BY <4>1, <3>2 DEF contains
      <4> QED
        BY <1>13, <4>1, <4>2, <4>3
    <3> QED
      BY <3>1, <3>2
  <2> QED
    BY <1>12, <2>1, <2>2 DEF IndexConsistent
<1>15. FreeListConsistent(r)
  BY <1>12 DEF PoolOK, FreeListConsistent
<1>16. EmptyBeforeCached(r)
  <2>1. \A i \in 1 .. Len(p.lru) : p.lru[i] \in BlockId /\ p.lru[i] # b
    BY <1>2 DEF PoolOK, FreeListConsistent, InList
  <2>2. \A i \in 1 .. Len(p.lru) : r.hash_of[p.lru[i]] = p.hash_of[p.lru[i]]
    BY <1>9, <1>12, <2>1
  <2>3. EmptyBeforeCached(p)
    BY DEF PoolOK
  <2> QED
    BY <1>12, <2>2, <2>3 DEF EmptyBeforeCached
<1>17. PoolOK(H, r)
  BY <1>12, <1>14, <1>15, <1>16 DEF PoolOK
<1>18. r.by_hash[h] = b /\ DOMAIN r.by_hash = (DOMAIN p.by_hash \ {stale}) \cup {h}
  BY <1>11, <1>12, <1>13
<1>19. \A x \in DOMAIN r.by_hash : x # h => r.by_hash[x] = p.by_hash[x]
  BY <1>12, <1>13
<1> QED
  BY <1>7, <1>12, <1>17, <1>18, <1>19 DEF r
----------------------------------------------------------------------------
(***************************************************************************)
(* How often a block is in a block table.                                  *)
(***************************************************************************)
Occ(q, b) == Cardinality(PlacesOf(q, b))
One(x, b) == IF x = b THEN 1 ELSE 0

\* The number of places is a number, and nothing has a place in an empty list.
LEMMA OccType ==
    ASSUME NEW A, NEW q \in Seq(A), NEW b
    PROVE  /\ IsFiniteSet(PlacesOf(q, b))
           /\ Occ(q, b) \in Nat
           /\ Occ(q, b) = 0 <=> ~InList(q, b)
<1>1. IsFiniteSet(1 .. Len(q)) /\ PlacesOf(q, b) \in SUBSET (1 .. Len(q))
  BY FS_Interval DEF PlacesOf
<1>2. IsFiniteSet(PlacesOf(q, b))
  BY <1>1, FS_Subset
<1>3. Occ(q, b) \in Nat /\ (Occ(q, b) = 0 <=> PlacesOf(q, b) = {})
  BY <1>2, FS_CardinalityType, FS_EmptySet DEF Occ
<1>4. PlacesOf(q, b) = {} <=> ~InList(q, b)
  BY DEF PlacesOf, InList
<1> QED
  BY <1>2, <1>3, <1>4

\* One place more, and the empty list.
LEMMA OccAppend ==
    ASSUME NEW A, NEW q \in Seq(A), NEW x \in A, NEW b
    PROVE  /\ Occ(Append(q, x), b) = Occ(q, b) + One(x, b)
           /\ Occ(<<>>, b) = 0
<1> DEFINE r == Append(q, x)
           n == Len(q) + 1
<1>1. /\ r \in Seq(A) /\ Len(r) = n /\ n \in Nat /\ r[n] = x /\ n \notin 1 .. Len(q)
      /\ \A k \in 1 .. Len(q) : r[k] = q[k]
  OBVIOUS
<1>2. PlacesOf(r, b) = IF x = b THEN PlacesOf(q, b) \cup {n} ELSE PlacesOf(q, b)
  <2> HIDE DEF r
  <2>1. \A k : k \in 1 .. Len(r) <=> k \in 1 .. Len(q) \/ k = n
    BY <1>1
  <2> QED
    BY <1>1, <2>1 DEF PlacesOf
<1>3. IsFiniteSet(PlacesOf(q, b)) /\ n \notin PlacesOf(q, b) /\ Occ(q, b) \in Nat
  BY <1>1, OccType DEF PlacesOf
<1>4. Cardinality(PlacesOf(q, b) \cup {n}) = Cardinality(PlacesOf(q, b)) + 1
  BY <1>3, FS_AddElement
<1>5. PlacesOf(<<>>, b) = {}
  BY DEF PlacesOf
<1> HIDE DEF r, n
<1>6. Occ(<<>>, b) = 0
  BY <1>5, FS_EmptySet DEF Occ
<1>7. Occ(r, b) = Occ(q, b) + One(x, b)
  BY <1>2, <1>3, <1>4 DEF Occ, One
<1> QED
  BY <1>6, <1>7 DEF r

\* A list is its first n - 1 places and the next one.
LEMMA PrefixAppend ==
    ASSUME NEW A, NEW q \in Seq(A), NEW n \in 1 .. Len(q)
    PROVE  /\ SubSeq(q, 1, n) = Append(SubSeq(q, 1, n - 1), q[n])
           /\ SubSeq(q, 1, n - 1) \in Seq(A) /\ q[n] \in A
           /\ SubSeq(q, 1, 0) = <<>> /\ SubSeq(q, 1, Len(q)) = q
<1>1. /\ SubSeq(q, 1, n - 1) \in Seq(A) /\ q[n] \in A
      /\ Len(SubSeq(q, 1, n - 1)) = n - 1
      /\ \A k \in 1 .. (n - 1) : SubSeq(q, 1, n - 1)[k] = q[k]
  OBVIOUS
<1>2. /\ SubSeq(q, 1, n) \in Seq(A) /\ Len(SubSeq(q, 1, n)) = n
      /\ \A k \in 1 .. n : SubSeq(q, 1, n)[k] = q[k]
  OBVIOUS
<1>3. SubSeq(q, 1, n) = Append(SubSeq(q, 1, n - 1), q[n])
  <2> DEFINE u == SubSeq(q, 1, n)
             v == Append(SubSeq(q, 1, n - 1), q[n])
  <2>1. /\ v \in Seq(A) /\ Len(v) = n /\ v[n] = q[n]
        /\ \A k \in 1 .. (n - 1) : v[k] = q[k]
    BY <1>1
  <2> QED
    BY <1>2, <2>1
<1>4. SubSeq(q, 1, 0) = <<>> /\ SubSeq(q, 1, Len(q)) = q
  OBVIOUS
<1> QED
  BY <1>1, <1>3, <1>4

\* The places in a prefix, one by one.
LEMMA OccPrefix ==
    ASSUME NEW A, NEW q \in Seq(A), NEW b
    PROVE  /\ \A n \in 1 .. Len(q) : Occ(SubSeq(q, 1, n), b) = Occ(SubSeq(q, 1, n - 1), b) + One(q[n], b)
           /\ Occ(SubSeq(q, 1, 0), b) = 0 /\ Occ(SubSeq(q, 1, Len(q)), b) = Occ(q, b)
           /\ Occ(<<>>, b) = 0
<1>1. \A n \in 1 .. Len(q) : Occ(SubSeq(q, 1, n), b) = Occ(SubSeq(q, 1, n - 1), b) + One(q[n], b)
  <2> SUFFICES ASSUME NEW n \in 1 .. Len(q)
               PROVE  Occ(SubSeq(q, 1, n), b) = Occ(SubSeq(q, 1, n - 1), b) + One(q[n], b)
    OBVIOUS
  <2> DEFINE u == SubSeq(q, 1, n - 1)
             x == q[n]
  <2>1. SubSeq(q, 1, n) = Append(u, x) /\ u \in Seq(A) /\ x \in A
    BY PrefixAppend
  <2> HIDE DEF u, x
  <2>2. Occ(Append(u, x), b) = Occ(u, b) + One(x, b)
    BY <2>1, OccAppend
  <2> QED
    BY <2>1, <2>2 DEF u, x
<1>2. PlacesOf(<<>>, b) = {}
  BY DEF PlacesOf
<1>3. Occ(<<>>, b) = 0
  BY <1>2, FS_EmptySet DEF Occ
<1>4. SubSeq(q, 1, 0) = <<>> /\ SubSeq(q, 1, Len(q)) = q
  OBVIOUS
<1> QED
  BY <1>1, <1>3, <1>4

\* The places of a concatenation.
LEMMA OccConcat ==
    ASSUME NEW A, NEW q \in Seq(A), NEW r \in Seq(A), NEW b
    PROVE  Occ(q \o r, b) = Occ(q, b) + Occ(r, b)
<1> DEFINE Adds(u) == Occ(q \o u, b) = Occ(q, b) + Occ(u, b)
           P == {n \in Nat : n <= Len(r) => Adds(SubSeq(r, 1, n))}
<1>1. 0 \in P
  <2>1. SubSeq(r, 1, 0) = <<>> /\ q \o <<>> = q /\ Occ(<<>>, b) = 0 /\ Occ(q, b) \in Nat
    BY OccPrefix, OccType
  <2>2. Adds(<<>>)
    BY <2>1
  <2> HIDE DEF Adds
  <2> QED
    BY <2>1, <2>2
<1>2. ASSUME NEW n \in Nat, n \in P
      PROVE  n + 1 \in P
  <2> SUFFICES ASSUME n + 1 <= Len(r)
               PROVE  Adds(SubSeq(r, 1, n + 1))
    OBVIOUS
  <2> DEFINE u == SubSeq(r, 1, n)
             x == r[n + 1]
  <2>1. /\ SubSeq(r, 1, n + 1) = Append(u, x) /\ u \in Seq(A) /\ x \in A
    BY PrefixAppend
  <2>2. Adds(u)
    <3> HIDE DEF Adds
    <3> QED
      BY <1>2
  <2> HIDE DEF u, x
  <2>3. q \o Append(u, x) = Append(q \o u, x) /\ q \o u \in Seq(A)
    BY <2>1
  <2>4. /\ Occ(Append(q \o u, x), b) = Occ(q \o u, b) + One(x, b)
        /\ Occ(Append(u, x), b) = Occ(u, b) + One(x, b)
    BY <2>1, <2>3, OccAppend
  <2>5. Occ(q, b) \in Nat /\ Occ(u, b) \in Nat /\ One(x, b) \in Nat
    BY <2>1, OccType DEF One
  <2>6. Adds(Append(u, x))
    BY <2>2, <2>3, <2>4, <2>5
  <2> QED
    BY <2>1, <2>6
<1> HIDE DEF P, Adds
<1>3. Nat \subseteq P
  BY <1>1, <1>2, Induction
<1>4. Len(r) \in P /\ Len(r) <= Len(r) /\ SubSeq(r, 1, Len(r)) = r
  BY <1>3
<1>5. Adds(SubSeq(r, 1, Len(r)))
  BY <1>4 DEF P
<1>6. Adds(r)
  BY <1>4, <1>5, Zenon
<1> QED
  BY <1>6 DEF Adds

\* One place rewritten.
LEMMA OccExcept ==
    ASSUME NEW A, NEW q \in Seq(A), NEW k \in 1 .. Len(q), NEW y \in A, NEW b
    PROVE  Occ([q EXCEPT ![k] = y], b) = Occ(q, b) - One(q[k], b) + One(y, b)
<1> DEFINE r == [q EXCEPT ![k] = y]
           S == PlacesOf(q, b) \ {k}
<1>1. r \in Seq(A) /\ Len(r) = Len(q) /\ r[k] = y /\ \A i \in 1 .. Len(q) : i # k => r[i] = q[i]
  OBVIOUS
<1> HIDE DEF r
<1>2. /\ PlacesOf(q, b) = IF q[k] = b THEN S \cup {k} ELSE S
      /\ PlacesOf(r, b) = IF y = b THEN S \cup {k} ELSE S
  BY <1>1 DEF PlacesOf
<1>3. IsFiniteSet(S) /\ k \notin S
  BY OccType, FS_RemoveElement
<1> HIDE DEF S
<1>4. Cardinality(S \cup {k}) = Cardinality(S) + 1 /\ Cardinality(S) \in Nat
  BY <1>3, FS_AddElement, FS_CardinalityType
<1>5. Occ(r, b) = Occ(q, b) - One(q[k], b) + One(y, b)
  BY <1>2, <1>4 DEF Occ, One
<1> QED
  BY <1>5 DEF r

\* What a prefix holds, the list holds.
LEMMA OccBound ==
    ASSUME NEW A, NEW q \in Seq(A), NEW n \in 0 .. Len(q), NEW b
    PROVE  Occ(SubSeq(q, 1, n), b) \in Nat /\ Occ(SubSeq(q, 1, n), b) <= Occ(q, b)
<1> DEFINE u == SubSeq(q, 1, n)
           v == SubSeq(q, n + 1, Len(q))
<1>1. u \in Seq(A) /\ v \in Seq(A) /\ q = u \o v
  <2>1. /\ u \in Seq(A) /\ Len(u) = n /\ \A i \in 1 .. n : u[i] = q[i]
        /\ v \in Seq(A) /\ Len(v) = Len(q) - n /\ \A i \in 1 .. (Len(q) - n) : v[i] = q[n + i]
    OBVIOUS
  <2> HIDE DEF u, v
  <2>2. /\ u \o v \in Seq(A) /\ Len(u \o v) = Len(q)
        /\ \A i \in 1 .. Len(q) : (u \o v)[i] = q[i]
    <3>1. Len(q) \in Nat /\ n \in Nat /\ n <= Len(q)
      OBVIOUS
    <3>2. u \o v \in Seq(A) /\ Len(u \o v) = Len(q)
      BY <2>1, <3>1
    <3>3. ASSUME NEW i \in 1 .. Len(q) PROVE (u \o v)[i] = q[i]
      <4>1. (u \o v)[i] = IF i <= n THEN u[i] ELSE v[i - n]
        BY <2>1, <3>1
      <4>2. CASE i <= n
        BY <2>1, <3>1, <4>1, <4>2
      <4>3. CASE ~(i <= n)
        <5>1. i - n \in 1 .. (Len(q) - n) /\ n + (i - n) = i
          BY <3>1, <4>3
        <5>2. v[i - n] = q[n + (i - n)]
          BY <2>1, <5>1
        <5> QED
          BY <4>1, <4>3, <5>1, <5>2
      <4> QED
        BY <4>2, <4>3
    <3> QED
      BY <3>2, <3>3
  <2>3. q = [i \in 1 .. Len(q) |-> q[i]] /\ u \o v = [i \in 1 .. Len(q) |-> (u \o v)[i]]
    <3> DEFINE w == u \o v
    <3>1. w \in Seq(A) /\ Len(w) = Len(q)
      BY <2>2
    <3> HIDE DEF w
    <3>2. w = [i \in 1 .. Len(q) |-> w[i]]
      BY <3>1
    <3> QED
      BY <3>2 DEF w
  <2> QED
    BY <2>1, <2>2, <2>3
<1> HIDE DEF u, v
<1>2. Occ(u, b) \in Nat /\ Occ(v, b) \in Nat /\ Occ(u \o v, b) = Occ(u, b) + Occ(v, b)
  BY <1>1, OccType, OccConcat
<1>3. Occ(u, b) \in Nat /\ Occ(u, b) <= Occ(q, b)
  BY <1>1, <1>2
<1> QED
  BY <1>3 DEF u

\* The next place of a list.
LEMMA OccNext ==
    ASSUME NEW A, NEW q \in Seq(A), NEW n \in Nat, n + 1 <= Len(q), NEW b
    PROVE  /\ Occ(SubSeq(q, 1, n + 1), b) = Occ(SubSeq(q, 1, n), b) + One(q[n + 1], b)
           /\ Occ(SubSeq(q, 1, n + 1), b) \in Nat /\ Occ(SubSeq(q, 1, n), b) \in Nat
           /\ Occ(SubSeq(q, 1, n + 1), b) <= Occ(q, b) /\ Occ(q, b) \in Nat
<1> DEFINE k == n + 1
<1>1. k \in 1 .. Len(q) /\ k \in 0 .. Len(q) /\ n \in 0 .. Len(q) /\ k - 1 = n
  OBVIOUS
<1>2. Occ(SubSeq(q, 1, n), b) \in Nat
  BY <1>1, OccBound
<1> HIDE DEF k
<1>3. Occ(SubSeq(q, 1, k), b) = Occ(SubSeq(q, 1, k - 1), b) + One(q[k], b)
  BY <1>1, OccPrefix
<1>4. Occ(SubSeq(q, 1, k), b) \in Nat /\ Occ(SubSeq(q, 1, k), b) <= Occ(q, b) /\ Occ(q, b) \in Nat
  BY <1>1, OccBound, OccType
<1> QED
  BY <1>1, <1>2, <1>3, <1>4 DEF k

----------------------------------------------------------------------------
(***************************************************************************)
(* The loops of the callers: what they do to the reference counts and to   *)
(* the blocks' hashes.                                                     *)
(***************************************************************************)

\* The index determines the blocks' own hashes.
LEMMA SameIndex ==
    ASSUME NEW H, NEW p, PoolOK(H, p), NEW r, PoolOK(H, r), r.by_hash = p.by_hash
    PROVE  r.hash_of = p.hash_of
<1>1. /\ p.hash_of \in [BlockId -> H \cup {NoHash}] /\ r.hash_of \in [BlockId -> H \cup {NoHash}]
      /\ NoHash \notin H
  BY PoolFields DEF PoolOK
<1>2. /\ \A h \in DOMAIN p.by_hash : p.hash_of[p.by_hash[h]] = h /\ r.hash_of[p.by_hash[h]] = h
      /\ \A b \in BlockId : p.hash_of[b] # NoHash => /\ p.hash_of[b] \in DOMAIN p.by_hash
                                                     /\ p.by_hash[p.hash_of[b]] = b
      /\ \A b \in BlockId : r.hash_of[b] # NoHash => /\ r.hash_of[b] \in DOMAIN p.by_hash
                                                     /\ p.by_hash[r.hash_of[b]] = b
  BY DEF PoolOK, IndexConsistent
<1>3. \A b \in BlockId : r.hash_of[b] = p.hash_of[b]
  BY <1>1, <1>2
<1> QED
  BY <1>1, <1>3

\* free, block by block.
LEMMA FreeEach ==
    ASSUME NEW H, NEW p, PoolOK(H, p), NEW b \in BlockId, p.refcount[b] # 0
    PROVE  /\ PoolOK(H, free(p, b)) /\ free(p, b).hash_of = p.hash_of /\ free(p, b).by_hash = p.by_hash
           /\ \A x \in BlockId : free(p, b).refcount[x] = p.refcount[x] - One(b, x)
<1>1. /\ PoolOK(H, free(p, b)) /\ free(p, b).by_hash = p.by_hash
      /\ free(p, b).refcount = [p.refcount EXCEPT ![b] = @ - 1]
  BY FreeOK
<1>2. p.refcount \in [BlockId -> Nat]
  BY PoolFields DEF PoolOK
<1>3. free(p, b).hash_of = p.hash_of
  BY <1>1, SameIndex
<1>4. \A x \in BlockId : free(p, b).refcount[x] = p.refcount[x] - One(b, x)
  BY <1>1, <1>2 DEF One
<1> QED
  BY <1>1, <1>3, <1>4

\* reference, block by block.
LEMMA ReferenceEach ==
    ASSUME NEW H, NEW p, PoolOK(H, p), NEW b \in BlockId
    PROVE  /\ PoolOK(H, reference(p, b))
           /\ reference(p, b).hash_of = p.hash_of /\ reference(p, b).by_hash = p.by_hash
           /\ \A x \in BlockId : reference(p, b).refcount[x] = p.refcount[x] + One(b, x)
<1>1. /\ PoolOK(H, reference(p, b)) /\ reference(p, b).by_hash = p.by_hash
      /\ reference(p, b).refcount = [p.refcount EXCEPT ![b] = @ + 1]
  BY ReferenceOK
<1>2. p.refcount \in [BlockId -> Nat]
  BY PoolFields DEF PoolOK
<1>3. reference(p, b).hash_of = p.hash_of
  BY <1>1, SameIndex
<1>4. \A x \in BlockId : reference(p, b).refcount[x] = p.refcount[x] + One(b, x)
  BY <1>1, <1>2 DEF One
<1> QED
  BY <1>1, <1>3, <1>4

\* incref, block by block.
LEMMA IncrefEach ==
    ASSUME NEW H, NEW p, PoolOK(H, p), NEW b \in BlockId, p.refcount[b] > 0
    PROVE  /\ PoolOK(H, incref(p, b))
           /\ incref(p, b).hash_of = p.hash_of /\ incref(p, b).by_hash = p.by_hash
           /\ \A x \in BlockId : incref(p, b).refcount[x] = p.refcount[x] + One(b, x)
<1>1. /\ PoolOK(H, incref(p, b)) /\ incref(p, b).by_hash = p.by_hash
      /\ incref(p, b).refcount = [p.refcount EXCEPT ![b] = @ + 1]
  BY IncrefOK
<1>2. p.refcount \in [BlockId -> Nat]
  BY PoolFields DEF PoolOK
<1>3. incref(p, b).hash_of = p.hash_of
  BY <1>1, SameIndex
<1>4. \A x \in BlockId : incref(p, b).refcount[x] = p.refcount[x] + One(b, x)
  BY <1>1, <1>2 DEF One
<1> QED
  BY <1>1, <1>3, <1>4

\* allocate, block by block.
LEMMA AllocateEach ==
    ASSUME NEW H, NEW p, PoolOK(H, p), allocate(p).block # NoBlock
    PROVE  LET b == allocate(p).block
               r == allocate(p).pool
           IN  /\ PoolOK(H, r) /\ b \in BlockId /\ p.refcount[b] = 0 /\ r.hash_of[b] = NoHash
               /\ \A x \in BlockId : /\ r.refcount[x] = p.refcount[x] + One(b, x)
                                     /\ x # b => r.hash_of[x] = p.hash_of[x]
<1> DEFINE b == Head(p.lru)
           r == allocate(p).pool
<1>1. p.num_free # 0
  BY DEF allocate
<1>2. /\ allocate(p).block = b /\ PoolOK(H, r) /\ b \in BlockId /\ p.refcount[b] = 0
      /\ r.refcount = [p.refcount EXCEPT ![b] = 1]
  BY <1>1, AllocateOK
<1>3. p.refcount \in [BlockId -> Nat] /\ p.hash_of \in [BlockId -> H \cup {NoHash}] /\ p \in PoolType(H)
  BY PoolFields DEF PoolOK
<1>4. r.hash_of = [p.hash_of EXCEPT ![b] = NoHash]
  <2> DEFINE e == Evict(p, b)
  <2>1. e.hash_of = [p.hash_of EXCEPT ![b] = NoHash] /\ e \in PoolType(H)
    BY <1>2, EvictShape
  <2>2. r = [e EXCEPT !.lru = Tail(@), !.num_free = @ - 1, !.refcount[b] = 1]
    BY <1>1 DEF allocate
  <2> HIDE DEF e, r
  <2>3. r.hash_of = e.hash_of
    BY <2>1, <2>2 DEF PoolType
  <2> QED
    BY <2>1, <2>3
<1> HIDE DEF b, r
<1>5. \A x \in BlockId : /\ r.refcount[x] = p.refcount[x] + One(b, x)
                         /\ x # b => r.hash_of[x] = p.hash_of[x]
  BY <1>2, <1>3, <1>4 DEF One
<1> QED
  BY <1>2, <1>3, <1>4, <1>5 DEF r

\* The recursive function of free_all.
FreedUpTo(g, p, blocks, m) ==
    g = [n \in 0 .. m |-> IF n = 0 THEN p ELSE free(g[n - 1], blocks[n])]

\* There is one.
LEMMA FreedExists ==
    ASSUME NEW p, NEW blocks, NEW m \in Nat
    PROVE  \E g : FreedUpTo(g, p, blocks, m)
<1> DEFINE P == {n \in Nat : \E g : FreedUpTo(g, p, blocks, n)}
<1>1. 0 \in P
  <2>1. FreedUpTo([n \in 0 .. 0 |-> p], p, blocks, 0)
    BY DEF FreedUpTo
  <2> QED
    BY <2>1
<1>2. ASSUME NEW n \in Nat, n \in P
      PROVE  n + 1 \in P
  <2>1. PICK g : FreedUpTo(g, p, blocks, n)
    BY <1>2
  <2> DEFINE h == [k \in 0 .. (n + 1) |->
                      IF k <= n THEN g[k] ELSE free(g[k - 1], blocks[k])]
  <2>2. FreedUpTo(h, p, blocks, n + 1)
    BY <2>1 DEF FreedUpTo
  <2> QED
    BY <2>2
<1> HIDE DEF P
<1>3. Nat \subseteq P
  BY <1>1, <1>2, Induction
<1> QED
  BY <1>3 DEF P

\* free_all gives back one reference for each place of a block in the list.
LEMMA FreeAllOK ==
    ASSUME NEW H, NEW p, PoolOK(H, p), NEW q \in Seq(BlockId),
           \A b \in BlockId : p.refcount[b] >= Occ(q, b)
    PROVE  LET r == free_all(p, q)
           IN  /\ PoolOK(H, r) /\ r.by_hash = p.by_hash /\ r.hash_of = p.hash_of
               /\ \A b \in BlockId : r.refcount[b] = p.refcount[b] - Occ(q, b)
<1> DEFINE after == CHOOSE g : FreedUpTo(g, p, q, Len(q))
<1>1. FreedUpTo(after, p, q, Len(q))
  <2>1. Len(q) \in Nat
    OBVIOUS
  <2>2. \E g : FreedUpTo(g, p, q, Len(q))
    BY <2>1, FreedExists
  <2> QED
    BY <2>2, Zenon
<1>2. free_all(p, q) = after[Len(q)]
  BY DEF free_all, FreedUpTo
<1> HIDE DEF after
<1>3. after[0] = p /\ \A n \in 1 .. Len(q) : after[n] = free(after[n - 1], q[n])
  BY <1>1 DEF FreedUpTo
<1> DEFINE Good(r, u) == /\ PoolOK(H, r) /\ r.by_hash = p.by_hash
                         /\ \A b \in BlockId : r.refcount[b] = p.refcount[b] - Occ(u, b)
           P == {n \in Nat : n <= Len(q) => Good(after[n], SubSeq(q, 1, n))}
<1>4. p.refcount \in [BlockId -> Nat]
  BY PoolFields DEF PoolOK
<1>5. 0 \in P
  <2>1. \A b \in BlockId : Occ(SubSeq(q, 1, 0), b) = 0
    BY OccPrefix
  <2> QED
    BY <1>3, <1>4, <2>1
<1>6. ASSUME NEW n \in Nat, n \in P
      PROVE  n + 1 \in P
  <2> SUFFICES ASSUME n + 1 <= Len(q)
               PROVE  Good(after[n + 1], SubSeq(q, 1, n + 1))
    OBVIOUS
  <2> DEFINE a == after[n]
             x == q[n + 1]
             u == SubSeq(q, 1, n)
             v == SubSeq(q, 1, n + 1)
  <2>1. Good(a, u) /\ x \in BlockId /\ n \in 0 .. Len(q) /\ n + 1 \in 1 .. Len(q) /\ n + 1 \in 0 .. Len(q)
    BY <1>6
  <2>2. after[n + 1] = free(a, x)
    BY <1>3, <2>1
  <2>3. \A b \in BlockId : /\ Occ(v, b) = Occ(u, b) + One(x, b)
                           /\ Occ(v, b) \in Nat /\ Occ(u, b) \in Nat
                           /\ Occ(v, b) <= Occ(q, b) /\ Occ(q, b) \in Nat
    BY OccNext
  <2> HIDE DEF a, x, u, v
  <2>4. a.refcount[x] # 0
    <3>1. /\ a.refcount[x] = p.refcount[x] - Occ(u, x) /\ p.refcount[x] \in Nat /\ p.refcount[x] >= Occ(q, x)
          /\ Occ(v, x) = Occ(u, x) + 1 /\ Occ(v, x) <= Occ(q, x) /\ Occ(u, x) \in Nat /\ Occ(q, x) \in Nat
      BY <1>4, <2>1, <2>3 DEF One
    <3> QED
      BY <3>1
  <2>5. /\ PoolOK(H, free(a, x)) /\ free(a, x).by_hash = a.by_hash
        /\ \A b \in BlockId : free(a, x).refcount[b] = a.refcount[b] - One(x, b)
    <3>1. PoolOK(H, a) /\ x \in BlockId
      BY <2>1
    <3> QED
      BY <2>4, <3>1, FreeEach
  <2>7. ASSUME NEW b \in BlockId
        PROVE  free(a, x).refcount[b] = p.refcount[b] - Occ(v, b)
    <3>1. /\ a.refcount[b] = p.refcount[b] - Occ(u, b) /\ p.refcount[b] \in Nat /\ Occ(u, b) \in Nat
          /\ Occ(v, b) = Occ(u, b) + One(x, b)
      BY <1>4, <2>1, <2>3
    <3>2. free(a, x).refcount[b] = a.refcount[b] - One(x, b)
      BY <2>5
    <3> QED
      BY <3>1, <3>2 DEF One
  <2> QED
    BY <2>1, <2>2, <2>5, <2>7 DEF v
<1> HIDE DEF P, Good
<1>7. Nat \subseteq P
  BY <1>5, <1>6, Induction
<1>8. Len(q) \in P /\ Len(q) <= Len(q) /\ SubSeq(q, 1, Len(q)) = q
  BY <1>7
<1>9. Good(after[Len(q)], SubSeq(q, 1, Len(q)))
  BY <1>8 DEF P
<1>10. Good(free_all(p, q), q)
  BY <1>2, <1>8, <1>9, Zenon
<1>11. free_all(p, q).hash_of = p.hash_of
  BY <1>10, SameIndex DEF Good
<1> QED
  BY <1>10, <1>11 DEF Good

\* The recursive function of references.
ReferencedUpTo(g, p, blocks, m) ==
    g = [n \in 0 .. m |-> IF n = 0 THEN p ELSE reference(g[n - 1], blocks[n])]

\* There is one.
LEMMA ReferencedExists ==
    ASSUME NEW p, NEW blocks, NEW m \in Nat
    PROVE  \E g : ReferencedUpTo(g, p, blocks, m)
<1> DEFINE P == {n \in Nat : \E g : ReferencedUpTo(g, p, blocks, n)}
<1>1. 0 \in P
  <2>1. ReferencedUpTo([n \in 0 .. 0 |-> p], p, blocks, 0)
    BY DEF ReferencedUpTo
  <2> QED
    BY <2>1
<1>2. ASSUME NEW n \in Nat, n \in P
      PROVE  n + 1 \in P
  <2>1. PICK g : ReferencedUpTo(g, p, blocks, n)
    BY <1>2
  <2> DEFINE h == [k \in 0 .. (n + 1) |->
                      IF k <= n THEN g[k] ELSE reference(g[k - 1], blocks[k])]
  <2>2. ReferencedUpTo(h, p, blocks, n + 1)
    BY <2>1 DEF ReferencedUpTo
  <2> QED
    BY <2>2
<1> HIDE DEF P
<1>3. Nat \subseteq P
  BY <1>1, <1>2, Induction
<1> QED
  BY <1>3 DEF P

\* match_prefix takes one reference for each place of a block in the list.
LEMMA ReferencesOK ==
    ASSUME NEW H, NEW p, PoolOK(H, p), NEW q \in Seq(BlockId)
    PROVE  LET r == references(p, q)
           IN  /\ PoolOK(H, r) /\ r.by_hash = p.by_hash /\ r.hash_of = p.hash_of
               /\ \A b \in BlockId : r.refcount[b] = p.refcount[b] + Occ(q, b)
<1> DEFINE after == CHOOSE g : ReferencedUpTo(g, p, q, Len(q))
<1>1. ReferencedUpTo(after, p, q, Len(q))
  <2>1. Len(q) \in Nat
    OBVIOUS
  <2>2. \E g : ReferencedUpTo(g, p, q, Len(q))
    BY <2>1, ReferencedExists
  <2> QED
    BY <2>2, Zenon
<1>2. references(p, q) = after[Len(q)]
  BY DEF references, ReferencedUpTo
<1> HIDE DEF after
<1>3. after[0] = p /\ \A n \in 1 .. Len(q) : after[n] = reference(after[n - 1], q[n])
  BY <1>1 DEF ReferencedUpTo
<1> DEFINE Good(r, u) == /\ PoolOK(H, r) /\ r.by_hash = p.by_hash
                         /\ \A b \in BlockId : r.refcount[b] = p.refcount[b] + Occ(u, b)
           P == {n \in Nat : n <= Len(q) => Good(after[n], SubSeq(q, 1, n))}
<1>4. p.refcount \in [BlockId -> Nat]
  BY PoolFields DEF PoolOK
<1>5. 0 \in P
  <2>1. \A b \in BlockId : Occ(SubSeq(q, 1, 0), b) = 0
    BY OccPrefix
  <2> QED
    BY <1>3, <1>4, <2>1
<1>6. ASSUME NEW n \in Nat, n \in P
      PROVE  n + 1 \in P
  <2> SUFFICES ASSUME n + 1 <= Len(q)
               PROVE  Good(after[n + 1], SubSeq(q, 1, n + 1))
    OBVIOUS
  <2> DEFINE a == after[n]
             x == q[n + 1]
             u == SubSeq(q, 1, n)
             v == SubSeq(q, 1, n + 1)
  <2>1. Good(a, u) /\ x \in BlockId /\ n \in 0 .. Len(q) /\ n + 1 \in 1 .. Len(q)
    BY <1>6
  <2>2. after[n + 1] = reference(a, x)
    BY <1>3, <2>1
  <2>3. \A b \in BlockId : Occ(v, b) = Occ(u, b) + One(x, b) /\ Occ(u, b) \in Nat
    BY OccNext
  <2> HIDE DEF a, x, u, v
  <2>4. /\ PoolOK(H, reference(a, x)) /\ reference(a, x).by_hash = a.by_hash
        /\ \A b \in BlockId : reference(a, x).refcount[b] = a.refcount[b] + One(x, b)
    <3>1. PoolOK(H, a) /\ x \in BlockId
      BY <2>1
    <3> QED
      BY <3>1, ReferenceEach
  <2>5. ASSUME NEW b \in BlockId
        PROVE  reference(a, x).refcount[b] = p.refcount[b] + Occ(v, b)
    <3>1. /\ a.refcount[b] = p.refcount[b] + Occ(u, b) /\ p.refcount[b] \in Nat /\ Occ(u, b) \in Nat
          /\ Occ(v, b) = Occ(u, b) + One(x, b)
      BY <1>4, <2>1, <2>3
    <3>2. reference(a, x).refcount[b] = a.refcount[b] + One(x, b)
      BY <2>4
    <3> QED
      BY <3>1, <3>2 DEF One
  <2> QED
    BY <2>1, <2>2, <2>4, <2>5 DEF v
<1> HIDE DEF P, Good
<1>7. Nat \subseteq P
  BY <1>5, <1>6, Induction
<1>8. Len(q) \in P /\ Len(q) <= Len(q) /\ SubSeq(q, 1, Len(q)) = q
  BY <1>7
<1>9. Good(after[Len(q)], SubSeq(q, 1, Len(q)))
  BY <1>8 DEF P
<1>10. Good(references(p, q), q)
  BY <1>2, <1>8, <1>9, Zenon
<1>11. references(p, q).hash_of = p.hash_of
  BY <1>10, SameIndex DEF Good
<1> QED
  BY <1>10, <1>11 DEF Good

\* r is p after fresh blocks q were taken from it: unreferenced before, private
\* and without content now.
Taken(H, p, r, q) ==
    /\ PoolOK(H, r)
    /\ q \in Seq(BlockId)
    /\ \A b \in BlockId :
          /\ r.refcount[b] = p.refcount[b] + Occ(q, b)
          /\ InList(q, b) => p.refcount[b] = 0 /\ r.refcount[b] = 1 /\ r.hash_of[b] = NoHash
          /\ ~InList(q, b) => r.hash_of[b] = p.hash_of[b]

\* Nothing taken yet.
LEMMA TakenNothing ==
    ASSUME NEW H, NEW p, PoolOK(H, p)
    PROVE  Taken(H, p, p, <<>>)
<1>1. p.refcount \in [BlockId -> Nat]
  BY PoolFields DEF PoolOK
<1>2. <<>> \in Seq(BlockId) /\ \A b : ~InList(<<>>, b)
  BY DEF InList
<1>3. \A b : Occ(<<>>, b) = 0
  BY <1>2, OccPrefix
<1> QED
  BY <1>1, <1>2, <1>3 DEF Taken

\* One more block, or none.
LEMMA TakeOneOK ==
    ASSUME NEW H, NEW p, PoolOK(H, p), NEW acc, Taken(H, p, acc.pool, acc.blocks),
           NEW a, a = allocate(acc.pool) \/ a.block = NoBlock
    PROVE  LET t == TakeOne(acc, a)
           IN  /\ Taken(H, p, t.pool, t.blocks)
               /\ Len(acc.blocks) <= Len(t.blocks) /\ Len(t.blocks) <= Len(acc.blocks) + 1
<1>1. CASE a.block = NoBlock
  <2>1. Len(acc.blocks) \in Nat /\ TakeOne(acc, a) = acc
    BY <1>1 DEF TakeOne, Taken
  <2> QED
    BY <2>1
<1>2. CASE a.block # NoBlock
  <2> DEFINE o == acc.pool
             b == a.block
             r == a.pool
             q == acc.blocks
             t == Append(q, b)
  <2>1. TakeOne(acc, a).pool = r /\ TakeOne(acc, a).blocks = t
    BY <1>2 DEF TakeOne
  <2>2. PoolOK(H, o) /\ q \in Seq(BlockId) /\ p.refcount \in [BlockId -> Nat]
    BY PoolFields DEF Taken, PoolOK
  <2>3. /\ PoolOK(H, r) /\ b \in BlockId /\ o.refcount[b] = 0 /\ r.hash_of[b] = NoHash
        /\ \A x \in BlockId : /\ r.refcount[x] = o.refcount[x] + One(b, x)
                              /\ x # b => r.hash_of[x] = o.hash_of[x]
    BY <1>2, <2>2, AllocateEach
  <2>4. /\ t \in Seq(BlockId) /\ Len(t) = Len(q) + 1 /\ Len(q) \in Nat
        /\ \A x : InList(t, x) <=> InList(q, x) \/ x = b
    BY <2>2, <2>3, AppendFacts
  <2>5. \A x : Occ(t, x) = Occ(q, x) + One(b, x) /\ Occ(q, x) \in Nat
    BY <2>2, <2>3, OccAppend, OccType
  <2>6. \A x \in BlockId : /\ o.refcount[x] = p.refcount[x] + Occ(q, x)
                           /\ InList(q, x) => p.refcount[x] = 0 /\ o.refcount[x] = 1 /\ o.hash_of[x] = NoHash
                           /\ ~InList(q, x) => o.hash_of[x] = p.hash_of[x]
    BY DEF Taken
  <2> HIDE DEF o, b, r, q, t
  <2>7. ASSUME NEW x \in BlockId
        PROVE  /\ r.refcount[x] = p.refcount[x] + Occ(t, x)
               /\ InList(t, x) => p.refcount[x] = 0 /\ r.refcount[x] = 1 /\ r.hash_of[x] = NoHash
               /\ ~InList(t, x) => r.hash_of[x] = p.hash_of[x]
    <3>1. p.refcount[x] \in Nat /\ Occ(q, x) \in Nat /\ Occ(t, x) = Occ(q, x) + One(b, x)
          /\ o.refcount[x] = p.refcount[x] + Occ(q, x) /\ r.refcount[x] = o.refcount[x] + One(b, x)
      BY <2>2, <2>3, <2>5, <2>6
    <3>2. r.refcount[x] = p.refcount[x] + Occ(t, x)
      BY <3>1 DEF One
    <3>3. CASE x = b
      BY <2>3, <2>4, <3>1, <3>3 DEF One
    <3>4. CASE x # b
      BY <2>3, <2>4, <2>6, <3>1, <3>2, <3>4 DEF One
    <3> QED
      BY <3>2, <3>3, <3>4
  <2>8. Taken(H, p, r, t)
    BY <2>3, <2>4, <2>7 DEF Taken
  <2> QED
    BY <2>1, <2>4, <2>8 DEF q
<1> QED
  BY <1>1, <1>2

\* The recursive function of AllocateMany.
AllocatedUpTo(g, p, m) ==
    g = [n \in 0 .. m |-> IF n = 0 THEN [pool |-> p, blocks |-> <<>>] ELSE TakeOne(g[n - 1], allocate(g[n - 1].pool))]

\* There is one.
LEMMA AllocatedExists ==
    ASSUME NEW p, NEW m \in Nat
    PROVE  \E g : AllocatedUpTo(g, p, m)
<1> DEFINE P == {n \in Nat : \E g : AllocatedUpTo(g, p, n)}
<1>1. 0 \in P
  <2>1. AllocatedUpTo([n \in 0 .. 0 |-> [pool |-> p, blocks |-> <<>>]], p, 0)
    BY DEF AllocatedUpTo
  <2> QED
    BY <2>1
<1>2. ASSUME NEW n \in Nat, n \in P
      PROVE  n + 1 \in P
  <2>1. PICK g : AllocatedUpTo(g, p, n)
    BY <1>2
  <2> DEFINE h == [k \in 0 .. (n + 1) |->
                      IF k <= n THEN g[k] ELSE TakeOne(g[k - 1], allocate(g[k - 1].pool))]
  <2>2. AllocatedUpTo(h, p, n + 1)
    BY <2>1 DEF AllocatedUpTo
  <2> QED
    BY <2>2
<1> HIDE DEF P
<1>3. Nat \subseteq P
  BY <1>1, <1>2, Induction
<1> QED
  BY <1>3 DEF P

\* The allocation loop takes fresh blocks only, and at most as many as wanted.
LEMMA AllocateManyOK ==
    ASSUME NEW H, NEW p, PoolOK(H, p), NEW want \in Int
    PROVE  LET a == AllocateMany(p, want)
           IN  Taken(H, p, a.pool, a.blocks) /\ Len(a.blocks) <= (IF want > 0 THEN want ELSE 0)
<1> DEFINE none == [pool |-> p, blocks |-> <<>>]
<1>1. Taken(H, p, none.pool, none.blocks) /\ Len(none.blocks) = 0
  BY TakenNothing
<1>2. CASE ~(want > 0)
  BY <1>1, <1>2 DEF AllocateMany
<1>3. CASE want > 0
  <2> DEFINE after == CHOOSE g : AllocatedUpTo(g, p, want)
  <2>1. AllocatedUpTo(after, p, want)
    <3>1. want \in Nat
      BY <1>3
    <3>2. \E g : AllocatedUpTo(g, p, want)
      BY <3>1, AllocatedExists
    <3> QED
      BY <3>2, Zenon
  <2>2. AllocateMany(p, want) = after[want]
    BY <1>3 DEF AllocateMany, AllocatedUpTo
  <2> HIDE DEF after
  <2>3. after[0] = none /\ \A n \in 1 .. want : after[n] = TakeOne(after[n - 1], allocate(after[n - 1].pool))
    BY <1>3, <2>1 DEF AllocatedUpTo
  <2> HIDE DEF none
  <2> DEFINE Good(acc, n) == Taken(H, p, acc.pool, acc.blocks) /\ Len(acc.blocks) <= n
             P == {n \in Nat : n <= want => Good(after[n], n)}
  <2>4. 0 \in P
    BY <1>1, <2>3
  <2>5. ASSUME NEW n \in Nat, n \in P
        PROVE  n + 1 \in P
    <3> SUFFICES ASSUME n + 1 <= want
                 PROVE  Good(after[n + 1], n + 1)
      OBVIOUS
    <3> DEFINE acc == after[n]
               t == TakeOne(acc, allocate(acc.pool))
    <3>1. Good(acc, n) /\ n + 1 \in 1 .. want /\ n + 1 - 1 = n
      BY <2>5
    <3>2. after[n + 1] = t
      BY <2>3, <3>1
    <3> HIDE DEF acc
    <3>3. /\ Taken(H, p, t.pool, t.blocks) /\ Len(t.blocks) <= Len(acc.blocks) + 1
      BY <3>1, TakeOneOK
    <3> HIDE DEF t
    <3>4. Len(acc.blocks) \in Nat /\ Len(t.blocks) \in Nat
      BY <3>1, <3>3 DEF Taken
    <3> QED
      BY <3>1, <3>2, <3>3, <3>4
  <2> HIDE DEF P, Good
  <2>6. Nat \subseteq P
    BY <2>4, <2>5, Induction
  <2>7. Good(after[want], want)
    BY <1>3, <2>6 DEF P
  <2> QED
    BY <1>3, <2>2, <2>7 DEF Good
<1> QED
  BY <1>2, <1>3

\* publish, block by block: the canonical block, with a reference when it is
\* another one.
LEMMA PublishEach ==
    ASSUME NEW H, NEW p, PoolOK(H, p), NEW b \in BlockId, NEW h \in H, p.refcount[b] # 0
    PROVE  LET r == publish(p, b, h)
           IN  /\ PoolOK(H, r.pool) /\ r.block \in BlockId /\ r.pool.hash_of[r.block] = h
               /\ r.block # b => /\ r.pool.hash_of = p.hash_of
                                 /\ \A x \in BlockId : r.pool.refcount[x] = p.refcount[x] + One(r.block, x)
               /\ r.block = b => \A x \in BlockId : /\ r.pool.refcount[x] = p.refcount[x]
                                                    /\ x # b => r.pool.hash_of[x] = p.hash_of[x]
<1> DEFINE r == publish(p, b, h)
           c == p.by_hash[h]
<1>1. /\ p.by_hash \in HashIndex(H) /\ p.hash_of \in [BlockId -> H \cup {NoHash}] /\ NoHash \notin H
      /\ p \in PoolType(H)
      /\ \A x \in DOMAIN p.by_hash : p.hash_of[p.by_hash[x]] = x
  BY PoolFields DEF PoolOK, IndexConsistent
<1>2. CASE contains(p, h) /\ c # b
  <2>1. r.block = c /\ r.pool = reference(p, c)
    BY <1>2 DEF publish
  <2>2. c \in BlockId /\ p.hash_of[c] = h
    BY <1>1, <1>2, MapTypes DEF contains
  <2> HIDE DEF c, r
  <2>3. /\ PoolOK(H, reference(p, c)) /\ reference(p, c).hash_of = p.hash_of
        /\ \A x \in BlockId : reference(p, c).refcount[x] = p.refcount[x] + One(c, x)
    BY <2>2, ReferenceEach
  <2>4. /\ PoolOK(H, r.pool) /\ r.block \in BlockId /\ r.pool.hash_of[r.block] = h
        /\ r.pool.hash_of = p.hash_of /\ r.block # b
        /\ \A x \in BlockId : r.pool.refcount[x] = p.refcount[x] + One(r.block, x)
    BY <1>2, <2>1, <2>2, <2>3
  <2> QED
    BY <2>4 DEF r
<1>3. CASE ~(contains(p, h) /\ c # b)
  <2>1. r.block = b /\ PoolOK(H, r.pool) /\ r.pool.refcount = p.refcount
    BY <1>3, PublishOK
  <2>2. r.pool.hash_of = [p.hash_of EXCEPT ![b] = h]
    <3> DEFINE bh == Bind(IF p.hash_of[b] # NoHash /\ p.hash_of[b] # h
                          THEN Unbind(p.by_hash, p.hash_of[b]) ELSE p.by_hash, h, b)
    <3>1. r.pool = [p EXCEPT !.hash_of[b] = h, !.by_hash = bh]
      BY <1>3 DEF publish
    <3> HIDE DEF r, bh
    <3> QED
      BY <1>1, <3>1 DEF PoolType
  <2> HIDE DEF r
  <2>3. /\ r.pool.hash_of[b] = h
        /\ \A x \in BlockId : r.pool.refcount[x] = p.refcount[x] /\ (x # b => r.pool.hash_of[x] = p.hash_of[x])
    BY <1>1, <2>1, <2>2
  <2> QED
    BY <2>1, <2>3 DEF r
<1> QED
  BY <1>2, <1>3

=============================================================================
