-------------------------- MODULE BlockPoolProofs --------------------------
(***************************************************************************)
(* Proofs about the block pool under arbitrary callers (PoolClients), for  *)
(* every number of blocks, watermark, set of hashes and of handles.        *)
(***************************************************************************)
EXTENDS PoolClients, PoolProofs

\* The inductive invariant of PoolClients: the pool's own invariant, the
\* callers' types, the reference accounting and the contents.
IInv ==
    /\ TypeOK
    /\ PoolOK(Hashes, pool)
    /\ RefcountExact
    /\ IndexFaithful

----------------------------------------------------------------------------
(***************************************************************************)
(* The callers: reference accounting.                                      *)
(***************************************************************************)
Refs(f, b) == {s \in Handles : f[s] = b}
Count(f, b) == Cardinality(Refs(f, b))
SameButAt(g, f, r) == \A s \in Handles : s # r => g[s] = f[s]

\* Changing what one handle holds changes the number of holders of the block
\* it leaves and of the block it takes, and of no other.
LEMMA CountChange ==
    ASSUME NEW f \in [Handles -> BlockId \cup {NoBlock}], NEW r \in Handles,
           NEW g \in [Handles -> BlockId \cup {NoBlock}],
           SameButAt(g, f, r),
           NEW x
    PROVE  /\ Count(f, x) \in Nat
           /\ f[r] = x => Count(f, x) # 0
           /\ f[r] = x /\ g[r] # x => Count(g, x) = Count(f, x) - 1
           /\ f[r] # x /\ g[r] = x => Count(g, x) = Count(f, x) + 1
           /\ f[r] # x /\ g[r] # x => Count(g, x) = Count(f, x)
<1> DEFINE S == {s \in Handles \ {r} : f[s] = x}
           n == Cardinality(S)
<1>1. IsFiniteSet(S)
  <2>1. IsFiniteSet(Handles) /\ S \subseteq Handles
    BY ClientsAssumption
  <2> QED
    BY <2>1, FS_Subset
<1>2. n \in Nat /\ Cardinality(S \cup {r}) = n + 1
  <2>1. r \notin S
    OBVIOUS
  <2> QED
    BY <1>1, <2>1, FS_CardinalityType, FS_AddElement
<1>3. Refs(f, x) = IF f[r] = x THEN S \cup {r} ELSE S
  BY DEF Refs
<1>4. Refs(g, x) = IF g[r] = x THEN S \cup {r} ELSE S
  BY DEF Refs, SameButAt
<1> HIDE DEF S
<1>5. Count(f, x) = IF f[r] = x THEN n + 1 ELSE n
  BY <1>2, <1>3 DEF Count
<1>6. Count(g, x) = IF g[r] = x THEN n + 1 ELSE n
  BY <1>2, <1>4 DEF Count
<1> HIDE DEF n
<1> QED
  BY <1>2, <1>5, <1>6

\* A held block is referenced.
LEMMA HeldReferenced ==
    ASSUME IInv, NEW r \in Handles, ~Unused(r)
    PROVE  held[r] \in BlockId /\ pool.refcount[held[r]] # 0
<1>1. held \in [Handles -> BlockId \cup {NoBlock}]
  BY DEF IInv, TypeOK
<1>2. held[r] \in BlockId
  BY <1>1 DEF Unused
<1>3. pool.refcount[held[r]] = Count(held, held[r])
  BY <1>2 DEF IInv, RefcountExact, Count, Refs
<1>4. Count(held, held[r]) # 0
  BY <1>1, CountChange DEF SameButAt
<1> QED
  BY <1>2, <1>3, <1>4

\* When one handle changes what it holds, and the pool's counts of the block
\* left and of the block taken follow, the accounting stays exact.
LEMMA StaysExact ==
    ASSUME IInv, NEW r \in Handles, NEW c \in BlockId \cup {NoBlock}, c # held[r],
           held' = [held EXCEPT ![r] = c],
           held[r] \in BlockId => pool'.refcount[held[r]] = pool.refcount[held[r]] - 1,
           c \in BlockId => pool'.refcount[c] = pool.refcount[c] + 1,
           \A x \in BlockId : x # c /\ x # held[r] => pool'.refcount[x] = pool.refcount[x]
    PROVE  RefcountExact' /\ held' \in [Handles -> BlockId \cup {NoBlock}]
<1>1. /\ held \in [Handles -> BlockId \cup {NoBlock}]
      /\ held' \in [Handles -> BlockId \cup {NoBlock}]
      /\ SameButAt(held', held, r)
      /\ held'[r] = c
  BY DEF IInv, TypeOK, SameButAt
<1>2. ASSUME NEW x \in BlockId
      PROVE  pool'.refcount[x] = Count(held', x)
  <2>1. pool.refcount[x] = Count(held, x)
    BY DEF IInv, RefcountExact, Count, Refs
  <2>2. /\ held[r] = x /\ held'[r] # x => Count(held', x) = Count(held, x) - 1
        /\ held[r] # x /\ held'[r] = x => Count(held', x) = Count(held, x) + 1
        /\ held[r] # x /\ held'[r] # x => Count(held', x) = Count(held, x)
    <3>1. \A f, g \in [Handles -> BlockId \cup {NoBlock}] : SameButAt(g, f, r) =>
              /\ f[r] = x /\ g[r] # x => Count(g, x) = Count(f, x) - 1
              /\ f[r] # x /\ g[r] = x => Count(g, x) = Count(f, x) + 1
              /\ f[r] # x /\ g[r] # x => Count(g, x) = Count(f, x)
      BY CountChange
    <3> QED
      BY <1>1, <3>1
  <2> QED
    BY <1>1, <2>1, <2>2
<1>3. RefcountExact'
  BY <1>2 DEF RefcountExact, Count, Refs
<1> QED
  BY <1>1, <1>3

\* What IInv says of the pool, in the form the action lemmas use it.
LEMMA InvFacts ==
    ASSUME IInv
    PROVE  /\ PoolOK(Hashes, pool) /\ pool \in PoolType(Hashes)
           /\ pool.refcount \in [BlockId -> Nat]
           /\ content \in [BlockId -> Hashes \cup {NoHash}]
           /\ \A h \in DOMAIN pool.by_hash :
                 /\ h \in Hashes /\ pool.by_hash[h] \in BlockId
                 /\ pool.hash_of[pool.by_hash[h]] = h
                 /\ content[pool.by_hash[h]] = h
<1>1. PoolOK(Hashes, pool) /\ pool \in PoolType(Hashes) /\ content \in [BlockId -> Hashes \cup {NoHash}]
  BY DEF IInv, TypeOK
<1>2. pool.refcount \in [BlockId -> Nat] /\ pool.by_hash \in HashIndex(Hashes)
  BY <1>1, PoolFields
<1>3. \A h \in DOMAIN pool.by_hash : h \in Hashes /\ pool.by_hash[h] \in BlockId
  BY <1>2 DEF HashIndex
<1> QED
  BY <1>1, <1>2, <1>3 DEF IInv, IndexFaithful, PoolOK, IndexConsistent

\* A handle that takes a reference to b which the pool counts.
LEMMA TakeReference ==
    ASSUME IInv, NEW r \in Handles, Unused(r), NEW b \in BlockId, PoolOK(Hashes, pool'),
           held' = [held EXCEPT ![r] = b],
           pool'.refcount = [pool.refcount EXCEPT ![b] = @ + 1],
           DOMAIN pool'.by_hash \subseteq DOMAIN pool.by_hash,
           \A h \in DOMAIN pool'.by_hash : pool'.by_hash[h] = pool.by_hash[h],
           UNCHANGED content
    PROVE  IInv'
<1>1. RefcountExact' /\ held' \in [Handles -> BlockId \cup {NoBlock}]
  <2>1. held[r] = NoBlock /\ held[r] \notin BlockId /\ b # held[r]
    BY NoBlockAssumption DEF Unused
  <2>2. /\ pool'.refcount[b] = pool.refcount[b] + 1
        /\ \A x \in BlockId : x # b => pool'.refcount[x] = pool.refcount[x]
    BY InvFacts
  <2>3. /\ b \in BlockId \cup {NoBlock}
        /\ held[r] \in BlockId => pool'.refcount[held[r]] = pool.refcount[held[r]] - 1
        /\ \A x \in BlockId : x # b /\ x # held[r] => pool'.refcount[x] = pool.refcount[x]
    BY <2>1, <2>2
  <2> QED
    BY <2>1, <2>2, <2>3, StaysExact
<1>2. IndexFaithful'
  BY InvFacts DEF IndexFaithful
<1>3. TypeOK'
  BY <1>1, InvFacts DEF TypeOK, PoolOK
<1> QED
  BY <1>1, <1>2, <1>3 DEF IInv

\* Either way of allocating.
LEMMA AllocateStep ==
    ASSUME IInv, NEW r \in Handles, Unused(r), pool.num_free # 0,
           pool' = allocate(pool).pool, held' = [held EXCEPT ![r] = allocate(pool).block],
           UNCHANGED content
    PROVE  IInv' /\ EvictStep
<1> DEFINE b == Head(pool.lru)
<1>1. PoolOK(Hashes, pool)
  BY InvFacts
<1>2. /\ allocate(pool).block = b /\ PoolOK(Hashes, pool') /\ b \in BlockId /\ pool.refcount[b] = 0
      /\ pool'.refcount = [pool.refcount EXCEPT ![b] = 1]
      /\ pool'.by_hash = Unbind(pool.by_hash, pool.hash_of[b])
      /\ pool.hash_of[b] # NoHash =>
            \A x \in BlockId : pool.refcount[x] = 0 => pool.hash_of[x] # NoHash
  BY <1>1, AllocateOK
<1> HIDE DEF b
<1>3. pool'.refcount = [pool.refcount EXCEPT ![b] = @ + 1]
  BY <1>2, InvFacts
<1>4. /\ DOMAIN pool'.by_hash = DOMAIN pool.by_hash \ {pool.hash_of[b]}
      /\ \A h \in DOMAIN pool'.by_hash : pool'.by_hash[h] = pool.by_hash[h]
  BY <1>2 DEF Unbind
<1>5. IInv'
  BY <1>2, <1>3, <1>4, TakeReference
<1>6. ASSUME NEW h \in DOMAIN pool.by_hash, h \notin DOMAIN pool'.by_hash
      PROVE  /\ pool.refcount[pool.by_hash[h]] = 0
             /\ \A x \in BlockId : pool.refcount[x] = 0 => pool.hash_of[x] # NoHash
  <2>1. h = pool.hash_of[b] /\ h \in Hashes
    BY <1>4, <1>6, InvFacts
  <2>2. pool.hash_of[b] # NoHash
    BY <2>1, ClientsAssumption
  <2>3. pool.by_hash[h] = b
    BY <1>1, <1>2, <2>1, <2>2 DEF PoolOK, IndexConsistent
  <2> QED
    BY <1>2, <2>2, <2>3
<1>7. EvictStep
  BY <1>6 DEF EvictStep
<1> QED
  BY <1>5, <1>7

\* allocate fails exactly when nothing is free.
LEMMA AllocateFails ==
    ASSUME NEW p, p.num_free = 0
    PROVE  allocate(p).block = NoBlock
  BY DEF allocate

\* Both allocations keep the invariant and evict only under pressure.
LEMMA AllocateAction ==
    ASSUME IInv, NEW r \in Handles, Allocate(r) \/ AllocateGuarded(r)
    PROVE  IInv' /\ EvictStep
<1>1. CASE Allocate(r)
  <2>1. /\ Unused(r) /\ allocate(pool).block # NoBlock /\ pool' = allocate(pool).pool
        /\ held' = [held EXCEPT ![r] = allocate(pool).block] /\ UNCHANGED content
    BY <1>1 DEF Allocate
  <2> QED
    BY <2>1, AllocateFails, AllocateStep
<1>2. CASE AllocateGuarded(r)
  <2>1. /\ Unused(r) /\ allocate_guarded(pool).block # NoBlock /\ pool' = allocate_guarded(pool).pool
        /\ held' = [held EXCEPT ![r] = allocate_guarded(pool).block] /\ UNCHANGED content
    BY <1>2 DEF AllocateGuarded
  <2>2. allocate_guarded(pool) = allocate(pool)
    BY <2>1 DEF allocate_guarded
  <2> QED
    BY <2>1, <2>2, AllocateFails, AllocateStep
<1> QED
  BY <1>1, <1>2

\* A handle given up with free keeps the invariant; nothing is evicted.
LEMMA ReleaseAction ==
    ASSUME IInv, NEW r \in Handles, Release(r)
    PROVE  IInv' /\ EvictStep
<1> DEFINE b == held[r]
<1>1. ~Unused(r) /\ pool' = free(pool, b) /\ held' = [held EXCEPT ![r] = NoBlock] /\ UNCHANGED content
  BY DEF Release
<1>2. b \in BlockId /\ pool.refcount[b] # 0
  BY <1>1, HeldReferenced
<1>3. /\ PoolOK(Hashes, pool') /\ pool'.refcount = [pool.refcount EXCEPT ![b] = @ - 1]
      /\ pool'.by_hash = pool.by_hash
  BY <1>1, <1>2, InvFacts, FreeOK
<1>4. RefcountExact' /\ held' \in [Handles -> BlockId \cup {NoBlock}]
  <2>1. /\ pool'.refcount[b] = pool.refcount[b] - 1
        /\ \A x \in BlockId : x # b => pool'.refcount[x] = pool.refcount[x]
    BY <1>2, <1>3, InvFacts
  <2>2. NoBlock # b /\ NoBlock \notin BlockId
    BY <1>2, NoBlockAssumption
  <2> QED
    BY <1>1, <2>1, <2>2, StaysExact
<1>5. IndexFaithful'
  BY <1>1, <1>3, InvFacts DEF IndexFaithful
<1>6. TypeOK'
  BY <1>1, <1>3, <1>4, InvFacts DEF TypeOK, PoolOK
<1>7. EvictStep
  BY <1>3 DEF EvictStep
<1> QED
  BY <1>3, <1>4, <1>5, <1>6, <1>7 DEF IInv

\* incref for a second handle keeps the invariant; nothing is evicted.
LEMMA ShareAction ==
    ASSUME IInv, NEW r \in Handles, NEW s \in Handles, Share(r, s)
    PROVE  IInv' /\ EvictStep
<1> DEFINE b == held[r]
<1>1. /\ ~Unused(r) /\ Unused(s) /\ pool' = incref(pool, b)
      /\ held' = [held EXCEPT ![s] = b] /\ UNCHANGED content
  BY DEF Share
<1>2. b \in BlockId /\ pool.refcount[b] # 0
  BY <1>1, HeldReferenced
<1>3. pool.refcount[b] > 0
  BY <1>2, InvFacts
<1>4. /\ PoolOK(Hashes, pool') /\ pool'.refcount = [pool.refcount EXCEPT ![b] = @ + 1]
      /\ pool'.by_hash = pool.by_hash
  BY <1>1, <1>2, <1>3, InvFacts, IncrefOK
<1>5. IInv'
  BY <1>1, <1>2, <1>4, TakeReference
<1>6. EvictStep
  BY <1>4 DEF EvictStep
<1> QED
  BY <1>5, <1>6

\* A cache hit keeps the invariant; nothing is evicted.
LEMMA LookupAction ==
    ASSUME IInv, NEW r \in Handles, NEW h \in Hashes, Lookup(r, h)
    PROVE  IInv' /\ EvictStep
<1> DEFINE b == pool.by_hash[h]
<1>1. contains(pool, h)
  BY DEF Lookup, lookup
<1>2. /\ Unused(r) /\ pool' = reference(pool, b)
      /\ held' = [held EXCEPT ![r] = b] /\ UNCHANGED content
  BY <1>1 DEF Lookup, lookup
<1>3. b \in BlockId
  BY <1>1, InvFacts DEF contains
<1>4. /\ PoolOK(Hashes, pool') /\ pool'.refcount = [pool.refcount EXCEPT ![b] = @ + 1]
      /\ pool'.by_hash = pool.by_hash
  BY <1>2, <1>3, InvFacts, ReferenceOK
<1>5. IInv'
  BY <1>2, <1>3, <1>4, TakeReference
<1>6. EvictStep
  BY <1>4 DEF EvictStep
<1> QED
  BY <1>5, <1>6

\* A block written by its sole holder: it is in nobody's index entry.
LEMMA FillAction ==
    ASSUME IInv, NEW r \in Handles, NEW h \in Hashes, Fill(r, h)
    PROVE  IInv' /\ EvictStep
<1> DEFINE b == held[r]
<1>1. /\ ~Unused(r) /\ pool.hash_of[b] = NoHash /\ content' = [content EXCEPT ![b] = h]
      /\ pool' = pool /\ held' = held
  BY DEF Fill
<1>2. b \in BlockId
  BY <1>1, HeldReferenced
<1>3. \A x \in DOMAIN pool.by_hash : pool.by_hash[x] # b
  BY <1>1, InvFacts, ClientsAssumption
<1>4. IndexFaithful'
  BY <1>1, <1>3, InvFacts DEF IndexFaithful
<1>5. content' \in [BlockId -> Hashes \cup {NoHash}]
  BY <1>1, InvFacts
<1>6. TypeOK' /\ PoolOK(Hashes, pool)'
  BY <1>1, <1>5 DEF TypeOK, IInv
<1>7. RefcountExact'
  BY <1>1 DEF IInv, RefcountExact
<1>8. EvictStep
  BY <1>1 DEF EvictStep
<1> QED
  BY <1>4, <1>6, <1>7, <1>8 DEF IInv

\* publish, with adoption of the canonical block, keeps the invariant.
LEMMA PublishAction ==
    ASSUME IInv, NEW r \in Handles, Publish(r)
    PROVE  IInv' /\ EvictStep
<1> DEFINE b == held[r]
           h == content[b]
           a == publish(pool, b, h)
           c == pool.by_hash[h]
<1>1. ~Unused(r) /\ h # NoHash /\ UNCHANGED content
  BY DEF Publish
<1>2. b \in BlockId /\ pool.refcount[b] # 0
  BY <1>1, HeldReferenced
<1>3. h \in Hashes
  BY <1>1, <1>2, InvFacts
<1>4. CASE ~(contains(pool, h) /\ c # b)
  <2>1. /\ a.block = b /\ PoolOK(Hashes, a.pool) /\ a.pool.refcount = pool.refcount
        /\ DOMAIN a.pool.by_hash = (DOMAIN pool.by_hash \ {pool.hash_of[b]}) \cup {h}
        /\ a.pool.by_hash[h] = b
        /\ \A x \in DOMAIN a.pool.by_hash : x # h => a.pool.by_hash[x] = pool.by_hash[x]
    BY <1>2, <1>3, <1>4, InvFacts, PublishOK
  <2>2. pool' = a.pool /\ held' = held
    BY <2>1 DEF Publish
  <2> HIDE DEF a, h
  <2>3. TypeOK' /\ PoolOK(Hashes, pool')
    BY <1>1, <2>1, <2>2 DEF TypeOK, PoolOK, IInv
  <2>4. RefcountExact'
    BY <2>1, <2>2 DEF IInv, RefcountExact
  <2>5. IndexFaithful'
    BY <1>1, <2>1, <2>2, InvFacts DEF IndexFaithful, h
  <2>6. EvictStep
    <3>1. SUFFICES ASSUME NEW x \in DOMAIN pool.by_hash, x \notin DOMAIN pool'.by_hash
                   PROVE  content'[pool.by_hash[x]] # x
      BY DEF EvictStep
    <3>2. x = pool.hash_of[b] /\ x # h
      BY <2>1, <2>2, <3>1
    <3>3. x \in Hashes /\ content[pool.by_hash[x]] = x
      BY InvFacts
    <3>4. pool.by_hash[x] = b
      BY <1>2, <3>2, <3>3, ClientsAssumption DEF IInv, PoolOK, IndexConsistent
    <3> QED
      BY <1>1, <3>2, <3>4 DEF h
  <2> QED
    BY <2>3, <2>4, <2>5, <2>6 DEF IInv
<1>5. CASE contains(pool, h) /\ c # b
  <2> DEFINE p == reference(pool, c)
  <2>1. a.block = c /\ a.pool = p
    BY <1>5 DEF publish
  <2>2. c \in BlockId
    BY <1>5, InvFacts DEF contains
  <2>3. PoolOK(Hashes, p) /\ p.refcount = [pool.refcount EXCEPT ![c] = @ + 1] /\ p.by_hash = pool.by_hash
    BY <2>2, InvFacts, ReferenceOK
  <2>4. pool' = free(p, b) /\ held' = [held EXCEPT ![r] = c]
    BY <1>5, <2>1 DEF Publish
  <2> HIDE DEF a, p, c, h
  <2>5. p.refcount[b] = pool.refcount[b] /\ p.refcount[b] # 0
    BY <1>2, <1>5, <2>2, <2>3, InvFacts
  <2>6. PoolOK(Hashes, pool') /\ pool'.refcount = [p.refcount EXCEPT ![b] = @ - 1] /\ pool'.by_hash = p.by_hash
    <3>1. PoolOK(Hashes, free(p, b)) /\ free(p, b).refcount = [p.refcount EXCEPT ![b] = @ - 1]
          /\ free(p, b).by_hash = p.by_hash
      <4>1. \A y, x : (PoolOK(Hashes, y) /\ x \in BlockId /\ y.refcount[x] # 0) =>
                PoolOK(Hashes, free(y, x)) /\ free(y, x).refcount = [y.refcount EXCEPT ![x] = @ - 1]
                /\ free(y, x).by_hash = y.by_hash
        BY FreeOK
      <4> HIDE DEF b
      <4> QED
        BY <1>2, <2>3, <2>5, <4>1
    <3> QED
      BY <2>4, <3>1
  <2>7. /\ pool'.refcount[b] = pool.refcount[b] - 1
        /\ pool'.refcount[c] = pool.refcount[c] + 1
        /\ \A x \in BlockId : x # c /\ x # b => pool'.refcount[x] = pool.refcount[x]
    BY <1>2, <1>5, <2>2, <2>3, <2>6, InvFacts
  <2>8. RefcountExact' /\ held' \in [Handles -> BlockId \cup {NoBlock}]
    <3>1. c \in BlockId \cup {NoBlock} /\ c # held[r]
      BY <1>5, <2>2
    <3> QED
      BY <2>4, <2>7, <3>1, StaysExact
  <2>9. IndexFaithful' /\ EvictStep
    BY <1>1, <2>3, <2>6, InvFacts DEF IndexFaithful, EvictStep
  <2>10. TypeOK'
    BY <1>1, <2>6, <2>8, InvFacts DEF TypeOK, PoolOK
  <2> QED
    BY <2>6, <2>8, <2>9, <2>10 DEF IInv
<1> QED
  BY <1>4, <1>5

\* A block republished under another hash: the old entry goes with its content.
LEMMA RefillAction ==
    ASSUME IInv, NEW r \in Handles, NEW h \in Hashes, Refill(r, h)
    PROVE  IInv' /\ EvictStep
<1> DEFINE b == held[r]
           a == publish(pool, b, h)
<1>1. /\ ~Unused(r) /\ ~contains(pool, h) /\ pool.hash_of[b] # NoHash /\ pool' = a.pool
      /\ content' = [content EXCEPT ![b] = h] /\ held' = held
  BY DEF Refill
<1>2. b \in BlockId /\ pool.refcount[b] # 0
  BY <1>1, HeldReferenced
<1>3. /\ PoolOK(Hashes, pool') /\ pool'.refcount = pool.refcount
      /\ DOMAIN pool'.by_hash = (DOMAIN pool.by_hash \ {pool.hash_of[b]}) \cup {h}
      /\ pool'.by_hash[h] = b
      /\ \A x \in DOMAIN pool'.by_hash : x # h => pool'.by_hash[x] = pool.by_hash[x]
  BY <1>1, <1>2, InvFacts, PublishOK
<1> HIDE DEF a
<1>4. content' \in [BlockId -> Hashes \cup {NoHash}] /\ content'[b] = h
      /\ \A x \in BlockId : x # b => content'[x] = content[x]
  BY <1>1, <1>2, InvFacts
<1>5. \A x \in DOMAIN pool.by_hash : pool.by_hash[x] = b => x = pool.hash_of[b]
  BY InvFacts
<1>6. IndexFaithful'
  <2>1. ASSUME NEW x \in DOMAIN pool'.by_hash, x # h
        PROVE  content'[pool'.by_hash[x]] = x
    <3>1. x \in DOMAIN pool.by_hash /\ x # pool.hash_of[b] /\ pool'.by_hash[x] = pool.by_hash[x]
      BY <1>3, <2>1
    <3>2. pool.by_hash[x] \in BlockId /\ pool.by_hash[x] # b /\ content[pool.by_hash[x]] = x
      BY <1>5, <3>1, InvFacts
    <3> QED
      BY <1>4, <3>1, <3>2
  <2> QED
    BY <1>3, <1>4, <2>1 DEF IndexFaithful
<1>7. RefcountExact'
  BY <1>1, <1>3 DEF IInv, RefcountExact
<1>8. TypeOK'
  BY <1>1, <1>3, <1>4 DEF TypeOK, PoolOK, IInv
<1>9. EvictStep
  <2>1. ASSUME NEW x \in DOMAIN pool.by_hash, x \notin DOMAIN pool'.by_hash
        PROVE  content'[pool.by_hash[x]] # x
    <3>1. x = pool.hash_of[b] /\ x # h
      BY <1>3, <2>1
    <3>2. pool.by_hash[x] = b
      BY <1>1, <1>2, <3>1 DEF IInv, PoolOK, IndexConsistent
    <3> QED
      BY <1>4, <3>1, <3>2
  <2> QED
    BY <2>1 DEF EvictStep
<1> QED
  BY <1>3, <1>6, <1>7, <1>8, <1>9 DEF IInv

\* Draining the eviction record touches nothing else.
LEMMA TakeEvictedAction ==
    ASSUME IInv, TakeEvicted
    PROVE  IInv' /\ EvictStep
<1>1. pool' = [pool EXCEPT !.evicted_content = <<>>] /\ held' = held /\ content' = content
  BY DEF TakeEvicted, take_evicted
<1>2. pool \in PoolType(Hashes) /\ <<>> \in Seq(Hashes \X BlockId)
  BY InvFacts
<1>3. /\ pool' \in PoolType(Hashes) /\ pool'.refcount = pool.refcount /\ pool'.hash_of = pool.hash_of
      /\ pool'.by_hash = pool.by_hash /\ pool'.lru = pool.lru /\ pool'.num_free = pool.num_free
  BY <1>1, <1>2 DEF PoolType
<1>4. PoolOK(Hashes, pool')
  BY <1>3 DEF IInv, PoolOK, FreeListConsistent, IndexConsistent, EmptyBeforeCached
<1> QED
  BY <1>1, <1>3, <1>4 DEF IInv, TypeOK, RefcountExact, IndexFaithful, EvictStep

----------------------------------------------------------------------------
(***************************************************************************)
(* The theorems.                                                           *)
(***************************************************************************)

\* The empty pool with no references satisfies the invariant.
LEMMA InitInv == Init => IInv
<1> SUFFICES ASSUME Init PROVE IInv
  OBVIOUS
<1>1. PoolOK(Hashes, pool) /\ pool = NewPool
  BY NewPoolOK, ClientsAssumption DEF Init
<1>2. held \in [Handles -> BlockId \cup {NoBlock}] /\ content \in [BlockId -> Hashes \cup {NoHash}]
  BY DEF Init
<1>3. RefcountExact
  <2>1. \A b \in BlockId : {s \in Handles : held[s] = b} = {}
    BY NoBlockAssumption DEF Init
  <2>2. \A b \in BlockId : pool.refcount[b] = 0
    BY <1>1 DEF NewPool
  <2> QED
    BY <2>1, <2>2, FS_EmptySet DEF RefcountExact
<1>4. IndexFaithful
  BY <1>1 DEF IndexFaithful, NewPool
<1> QED
  BY <1>1, <1>2, <1>3, <1>4 DEF IInv, TypeOK, PoolOK

\* Every call keeps the invariant and evicts only under pressure.
LEMMA StepInv == IInv /\ [Next]_vars => IInv' /\ [EvictStep]_vars
<1> SUFFICES ASSUME IInv, [Next]_vars PROVE IInv' /\ [EvictStep]_vars
  OBVIOUS
<1>1. CASE Next
  <2>1. ASSUME NEW r \in Handles, Allocate(r) \/ AllocateGuarded(r) PROVE IInv' /\ EvictStep
    BY <2>1, AllocateAction
  <2>2. ASSUME NEW r \in Handles, Publish(r) PROVE IInv' /\ EvictStep
    BY <2>2, PublishAction
  <2>3. ASSUME NEW r \in Handles, Release(r) PROVE IInv' /\ EvictStep
    BY <2>3, ReleaseAction
  <2>4. ASSUME NEW r \in Handles, NEW h \in Hashes, Fill(r, h) PROVE IInv' /\ EvictStep
    BY <2>4, FillAction
  <2>5. ASSUME NEW r \in Handles, NEW h \in Hashes, Refill(r, h) PROVE IInv' /\ EvictStep
    BY <2>5, RefillAction
  <2>6. ASSUME NEW r \in Handles, NEW h \in Hashes, Lookup(r, h) PROVE IInv' /\ EvictStep
    BY <2>6, LookupAction
  <2>7. ASSUME NEW r \in Handles, NEW s \in Handles, Share(r, s) PROVE IInv' /\ EvictStep
    BY <2>7, ShareAction
  <2>8. ASSUME TakeEvicted PROVE IInv' /\ EvictStep
    BY <2>8, TakeEvictedAction
  <2> QED
    BY <1>1, <2>1, <2>2, <2>3, <2>4, <2>5, <2>6, <2>7, <2>8 DEF Next
<1>2. CASE UNCHANGED vars
  <2>1. pool' = pool /\ held' = held /\ content' = content
    BY <1>2 DEF vars
  <2>2. IInv'
    BY <2>1 DEF IInv, TypeOK, RefcountExact, IndexFaithful
  <2> QED
    BY <1>2, <2>2
<1> QED
  BY <1>1, <1>2

\* The inductive invariant holds throughout every behaviour of the callers.
THEOREM InvariantHolds == Spec => []IInv
<1>1. Init => IInv
  BY InitInv
<1>2. IInv /\ [Next]_vars => IInv'
  BY StepInv
<1> QED
  BY <1>1, <1>2, PTL DEF Spec

\* The pool's fields keep their types (struct BlockPool): in particular the
\* reference counts and num_free never go below zero.
THEOREM TypeCorrect == Spec => []TypeOK
<1>1. IInv => TypeOK
  BY DEF IInv
<1> QED
  BY <1>1, InvariantHolds, PTL

\* check_invariants holds after every sequence of calls: the free list holds
\* each unreferenced block once, and the index and the blocks' hashes agree.
THEOREM AlwaysConsistent == Spec => []PoolConsistent
<1>1. IInv => PoolConsistent
  BY DEF IInv, PoolOK, PoolConsistent
<1> QED
  BY <1>1, InvariantHolds, PTL

\* A block's reference count is the number of references callers hold.
THEOREM AlwaysExact == Spec => []RefcountExact
<1>1. IInv => RefcountExact
  BY DEF IInv
<1> QED
  BY <1>1, InvariantHolds, PTL

\* A hash in the index always leads to a block holding that content.
THEOREM AlwaysFaithful == Spec => []IndexFaithful
<1>1. IInv => IndexFaithful
  BY DEF IInv
<1> QED
  BY <1>1, InvariantHolds, PTL

\* Cached content is evicted only under pressure.
THEOREM EvictsUnderPressure == Spec => EvictOnlyUnderPressure
<1>1. IInv /\ [Next]_vars => [EvictStep]_vars
  BY StepInv
<1> QED
  BY <1>1, InvariantHolds, PTL DEF Spec, EvictOnlyUnderPressure

=============================================================================
