---------------------------- MODULE MemoryProofs ----------------------------
(***************************************************************************)
(* Proofs about the memory of the scheduler (Scheduler), for every number  *)
(* of blocks, block size, batch and chunk size, set of requests and        *)
(* vocabulary.  First the references: none is lost or taken twice.  Then   *)
(* what the blocks hold: the K/V of the tokens the scheduler takes them to *)
(* hold, for the sequence that owns the block and for whoever finds it in  *)
(* the index.                                                              *)
(***************************************************************************)
EXTENDS SchedulerProofs, PoolProofs

\* The hashes a block can have.
BlockHashes == Tenants \X Seq(Tokens)

----------------------------------------------------------------------------
(***************************************************************************)
(* Counting the holders of a block.                                        *)
(***************************************************************************)
HoldersIn(ss, S, b) == UNION {{i} \X PlacesOf(ss[i].blocks, b) : i \in S}
Count(ss, S, b) == Cardinality(HoldersIn(ss, S, b))

\* Every sequence of S has a block table.
Tabled(ss, S) == IsFiniteSet(S) /\ \A i \in S : ss[i].blocks \in Seq(BlockId)

\* Holders are pairs of a sequence and a place in its block table.
LEMMA HolderIs ==
    ASSUME NEW ss, NEW S, NEW b, NEW x
    PROVE  x \in HoldersIn(ss, S, b) <=> \E i \in S : x \in {i} \X PlacesOf(ss[i].blocks, b)
  BY DEF HoldersIn

\* The holders can be counted.
LEMMA CountType ==
    ASSUME NEW ss, NEW S, Tabled(ss, S), NEW b
    PROVE  IsFiniteSet(HoldersIn(ss, S, b)) /\ Count(ss, S, b) \in Nat
<1> DEFINE f == [i \in S |-> {i} \X PlacesOf(ss[i].blocks, b)]
           T == {f[i] : i \in S}
<1>1. IsFiniteSet(S) /\ \A i \in S : IsFiniteSet(PlacesOf(ss[i].blocks, b))
  BY OccType DEF Tabled
<1>2. \A i \in S : IsFiniteSet(f[i])
  <2> SUFFICES ASSUME NEW i \in S PROVE IsFiniteSet({i} \X PlacesOf(ss[i].blocks, b))
    OBVIOUS
  <2>1. IsFiniteSet({i}) /\ IsFiniteSet(PlacesOf(ss[i].blocks, b))
    BY <1>1, FS_Singleton
  <2> QED
    BY <2>1, FS_Product
<1>3. HoldersIn(ss, S, b) = UNION T
  BY DEF HoldersIn
<1> HIDE DEF f
<1>4. IsFiniteSet(T)
  <2> DEFINE g == [i \in S |-> f[i]]
  <2>1. g \in Surjection(S, T)
    BY DEF Surjection
  <2> HIDE DEF g, T
  <2> QED
    BY <1>1, <2>1, FS_Surjection
<1>5. \A t \in T : IsFiniteSet(t)
  BY <1>2
<1>6. IsFiniteSet(UNION T)
  BY <1>4, <1>5, FS_UNION
<1> QED
  BY <1>3, <1>6, FS_CardinalityType DEF Count

\* One sequence alone holds a block as often as it is in its table.
LEMMA CountOne ==
    ASSUME NEW ss, NEW i, ss[i].blocks \in Seq(BlockId), NEW b
    PROVE  Count(ss, {i}, b) = Occ(ss[i].blocks, b)
<1> DEFINE Q == PlacesOf(ss[i].blocks, b)
<1>1. HoldersIn(ss, {i}, b) = {i} \X Q
  BY DEF HoldersIn
<1>2. IsFiniteSet(Q) /\ Cardinality(Q) \in Nat /\ IsFiniteSet({i}) /\ Cardinality({i}) = 1
  BY OccType, FS_Singleton, FS_CardinalityType DEF Occ
<1> HIDE DEF Q
<1>3. Cardinality({i} \X Q) = 1 * Cardinality(Q)
  BY <1>2, FS_Product
<1>4. Cardinality({i} \X Q) = Cardinality(Q)
  BY <1>2, <1>3
<1> QED
  BY <1>1, <1>4 DEF Count, Occ, Q

\* The holders among two disjoint sets of sequences.
LEMMA CountUnion ==
    ASSUME NEW ss, NEW S, NEW T, Tabled(ss, S), Tabled(ss, T), S \cap T = {}, NEW b
    PROVE  Tabled(ss, S \cup T) /\ Count(ss, S \cup T, b) = Count(ss, S, b) + Count(ss, T, b)
<1> DEFINE X == HoldersIn(ss, S, b)
           Y == HoldersIn(ss, T, b)
<1>1. HoldersIn(ss, S \cup T, b) = X \cup Y
  BY DEF HoldersIn
<1>2. X \cap Y = {}
  <2> SUFFICES ASSUME NEW x \in X, x \in Y PROVE FALSE
    OBVIOUS
  <2>1. PICK i \in S : x \in {i} \X PlacesOf(ss[i].blocks, b)
    BY HolderIs
  <2>2. PICK k \in T : x \in {k} \X PlacesOf(ss[k].blocks, b)
    BY HolderIs
  <2>3. x[1] = i /\ x[1] = k
    BY <2>1, <2>2
  <2> QED
    BY <2>3
<1>3. IsFiniteSet(X) /\ IsFiniteSet(Y)
  BY CountType
<1> HIDE DEF X, Y
<1>4. Cardinality(X) \in Nat /\ Cardinality(Y) \in Nat /\ Cardinality(X \cap Y) = 0
  BY <1>2, <1>3, FS_CardinalityType, FS_EmptySet
<1>5. Cardinality(X \cup Y) = Cardinality(X) + Cardinality(Y)
  <2>1. Cardinality(X \cup Y) = Cardinality(X) + Cardinality(Y) - Cardinality(X \cap Y)
    BY <1>3, FS_Union
  <2> QED
    BY <1>4, <2>1
<1>6. IsFiniteSet(S \cup T)
  BY FS_Union DEF Tabled
<1> QED
  BY <1>1, <1>5, <1>6 DEF Count, X, Y, Tabled

\* The count depends on the block tables only.
LEMMA CountSame ==
    ASSUME NEW ss, NEW tt, NEW S, \A i \in S : tt[i].blocks = ss[i].blocks, NEW b
    PROVE  Count(tt, S, b) = Count(ss, S, b)
<1>1. \A i \in S : {i} \X PlacesOf(tt[i].blocks, b) = {i} \X PlacesOf(ss[i].blocks, b)
  OBVIOUS
<1>2. HoldersIn(tt, S, b) = HoldersIn(ss, S, b)
  BY <1>1 DEF HoldersIn
<1> QED
  BY <1>2 DEF Count

\* Sequences without blocks hold none.
LEMMA CountEmpty ==
    ASSUME NEW ss, NEW S, \A i \in S : ss[i].blocks = <<>>, NEW b
    PROVE  Count(ss, S, b) = 0
<1>1. PlacesOf(<<>>, b) = {}
  BY DEF PlacesOf
<1>2. HoldersIn(ss, S, b) = {}
  <2> SUFFICES ASSUME NEW x \in HoldersIn(ss, S, b) PROVE FALSE
    OBVIOUS
  <2>1. PICK i \in S : x \in {i} \X PlacesOf(ss[i].blocks, b)
    BY HolderIs
  <2> QED
    BY <1>1, <2>1
<1> QED
  BY <1>2, FS_EmptySet DEF Count

\* A part of the sequences, and the rest.
LEMMA CountSplit ==
    ASSUME NEW ss, NEW S, Tabled(ss, S), NEW T \in SUBSET S, NEW b
    PROVE  /\ Tabled(ss, T) /\ Tabled(ss, S \ T)
           /\ Count(ss, S, b) = Count(ss, S \ T, b) + Count(ss, T, b)
           /\ Count(ss, T, b) \in Nat /\ Count(ss, S \ T, b) \in Nat
           /\ Count(ss, T, b) <= Count(ss, S, b)
<1>1. IsFiniteSet(T) /\ IsFiniteSet(S \ T)
  BY FS_Subset, FS_Difference DEF Tabled
<1>2. Tabled(ss, T) /\ Tabled(ss, S \ T)
  BY <1>1 DEF Tabled
<1>3. (S \ T) \cap T = {} /\ (S \ T) \cup T = S
  OBVIOUS
<1>4. Count(ss, (S \ T) \cup T, b) = Count(ss, S \ T, b) + Count(ss, T, b)
  BY <1>2, <1>3, CountUnion
<1>5. Count(ss, T, b) \in Nat /\ Count(ss, S \ T, b) \in Nat
  BY <1>2, CountType
<1>6. Count(ss, S, b) = Count(ss, S \ T, b) + Count(ss, T, b)
  BY <1>3, <1>4
<1>7. Count(ss, T, b) <= Count(ss, S, b)
  BY <1>5, <1>6
<1> QED
  BY <1>2, <1>5, <1>6, <1>7

\* One sequence, and the others.
LEMMA CountBut ==
    ASSUME NEW ss, NEW S, Tabled(ss, S), NEW i \in S, NEW b
    PROVE  /\ Count(ss, S, b) = Count(ss, S \ {i}, b) + Occ(ss[i].blocks, b)
           /\ Count(ss, S \ {i}, b) \in Nat /\ Occ(ss[i].blocks, b) \in Nat
<1>1. {i} \in SUBSET S /\ ss[i].blocks \in Seq(BlockId)
  BY DEF Tabled
<1>2. /\ Count(ss, S, b) = Count(ss, S \ {i}, b) + Count(ss, {i}, b)
      /\ Count(ss, S \ {i}, b) \in Nat /\ Count(ss, {i}, b) \in Nat
  BY <1>1, CountSplit
<1> QED
  BY <1>1, <1>2, CountOne

\* NoLeak counts the holders among all live sequences.
LEMMA AllHolders == \A ss, b : Cardinality(Holders(ss, b)) = Count(ss, DOMAIN ss, b)
  BY DEF Holders, HoldersIn, Count

----------------------------------------------------------------------------
(***************************************************************************)
(* Freeing several sequences.                                              *)
(***************************************************************************)
\* The recursive function of FreeSequences.
SeqsFreedUpTo(g, p, ss, ids, m) ==
    g = [n \in 0 .. m |-> IF n = 0 THEN p ELSE free_all(g[n - 1], ss[ids[n]].blocks)]

\* There is one.
LEMMA SeqsFreedExists ==
    ASSUME NEW p, NEW ss, NEW ids, NEW m \in Nat
    PROVE  \E g : SeqsFreedUpTo(g, p, ss, ids, m)
<1> DEFINE P == {n \in Nat : \E g : SeqsFreedUpTo(g, p, ss, ids, n)}
<1>1. 0 \in P
  <2>1. SeqsFreedUpTo([n \in 0 .. 0 |-> p], p, ss, ids, 0)
    BY DEF SeqsFreedUpTo
  <2> QED
    BY <2>1
<1>2. ASSUME NEW n \in Nat, n \in P
      PROVE  n + 1 \in P
  <2>1. PICK g : SeqsFreedUpTo(g, p, ss, ids, n)
    BY <1>2
  <2> DEFINE h == [k \in 0 .. (n + 1) |->
                      IF k <= n THEN g[k] ELSE free_all(g[k - 1], ss[ids[k]].blocks)]
  <2>2. SeqsFreedUpTo(h, p, ss, ids, n + 1)
    BY <2>1 DEF SeqsFreedUpTo
  <2> QED
    BY <2>2
<1> HIDE DEF P
<1>3. Nat \subseteq P
  BY <1>1, <1>2, Induction
<1> QED
  BY <1>3 DEF P

\* r is p after the references the sequences of T hold were given back.
GivenBack(p, r, ss, T) ==
    /\ PoolOK(BlockHashes, r) /\ r.by_hash = p.by_hash /\ r.hash_of = p.hash_of
    /\ \A b \in BlockId : r.refcount[b] = p.refcount[b] - Count(ss, T, b)

\* Nothing given back yet.
LEMMA GivenNothing ==
    ASSUME NEW p, PoolOK(BlockHashes, p), NEW ss
    PROVE  GivenBack(p, p, ss, {})
<1>1. p.refcount \in [BlockId -> Nat]
  BY PoolFields DEF PoolOK
<1>2. \A b : Count(ss, {}, b) = 0
  BY CountEmpty
<1> QED
  BY <1>1, <1>2 DEF GivenBack

\* The blocks of one more sequence.
LEMMA GiveBackOne ==
    ASSUME NEW p, PoolOK(BlockHashes, p), NEW ss, NEW T, NEW i, i \notin T, Tabled(ss, T \cup {i}),
           \A b \in BlockId : p.refcount[b] >= Count(ss, T \cup {i}, b),
           NEW r, GivenBack(p, r, ss, T)
    PROVE  GivenBack(p, free_all(r, ss[i].blocks), ss, T \cup {i})
<1> DEFINE U == T \cup {i}
           q == ss[i].blocks
<1>1. i \in U /\ U \ {i} = T /\ Tabled(ss, U) /\ q \in Seq(BlockId)
  BY DEF Tabled
<1>2. \A b \in BlockId : p.refcount[b] \in Nat /\ p.refcount[b] >= Count(ss, U, b)
  BY PoolFields DEF PoolOK
<1>3. \A b \in BlockId : r.refcount[b] = p.refcount[b] - Count(ss, T, b)
  BY DEF GivenBack
<1>4. PoolOK(BlockHashes, r) /\ r.by_hash = p.by_hash /\ r.hash_of = p.hash_of
  BY DEF GivenBack
<1> HIDE DEF U, q
<1>5. ASSUME NEW b \in BlockId
      PROVE  /\ Count(ss, U, b) = Count(ss, T, b) + Occ(q, b)
             /\ Count(ss, T, b) \in Nat /\ Occ(q, b) \in Nat
  <2>1. /\ Count(ss, U, b) = Count(ss, U \ {i}, b) + Occ(ss[i].blocks, b)
        /\ Count(ss, U \ {i}, b) \in Nat /\ Occ(ss[i].blocks, b) \in Nat
    BY ONLY <1>1, CountBut
  <2> QED
    BY <1>1, <2>1 DEF q
<1>6. \A b \in BlockId : r.refcount[b] >= Occ(q, b)
  BY <1>2, <1>3, <1>5
<1> DEFINE f == free_all(r, q)
<1>7. /\ PoolOK(BlockHashes, f) /\ f.by_hash = r.by_hash /\ f.hash_of = r.hash_of
      /\ \A b \in BlockId : f.refcount[b] = r.refcount[b] - Occ(q, b)
  BY <1>1, <1>4, <1>6, FreeAllOK
<1> HIDE DEF f
<1>8. ASSUME NEW b \in BlockId
      PROVE  f.refcount[b] = p.refcount[b] - Count(ss, U, b)
  BY <1>2, <1>3, <1>5, <1>7
<1>9. GivenBack(p, f, ss, U)
  BY <1>4, <1>7, <1>8 DEF GivenBack
<1> QED
  BY <1>9 DEF f, q, U

\* finish, cancel: each sequence's references are given back once.
LEMMA FreeSequencesOK ==
    ASSUME NEW p, PoolOK(BlockHashes, p), NEW ss, NEW ids \in Seq(Nat), NoRepeats(ids),
           Tabled(ss, ToSet(ids)),
           \A b \in BlockId : p.refcount[b] >= Count(ss, ToSet(ids), b)
    PROVE  GivenBack(p, FreeSequences(p, ss, ids), ss, ToSet(ids))
<1> DEFINE after == CHOOSE g : SeqsFreedUpTo(g, p, ss, ids, Len(ids))
<1>1. SeqsFreedUpTo(after, p, ss, ids, Len(ids))
  <2>1. Len(ids) \in Nat
    OBVIOUS
  <2>2. \E g : SeqsFreedUpTo(g, p, ss, ids, Len(ids))
    BY <2>1, SeqsFreedExists
  <2> QED
    BY <2>2, Zenon
<1>2. FreeSequences(p, ss, ids) = after[Len(ids)]
  BY DEF FreeSequences, SeqsFreedUpTo
<1> HIDE DEF after
<1>3. after[0] = p /\ \A n \in 1 .. Len(ids) : after[n] = free_all(after[n - 1], ss[ids[n]].blocks)
  <2> DEFINE F(n) == free_all(after[n - 1], ss[ids[n]].blocks)
  <2>1. after = [n \in 0 .. Len(ids) |-> IF n = 0 THEN p ELSE F(n)]
    BY ONLY <1>1, Zenon DEF SeqsFreedUpTo
  <2>3. Len(ids) \in Nat
    OBVIOUS
  <2> HIDE DEF F
  <2>2. after[0] = p /\ \A n \in 1 .. Len(ids) : after[n] = F(n)
    BY ONLY <2>1, <2>3
  <2> QED
    BY <2>2 DEF F
<1> DEFINE T(n) == {ids[k] : k \in 1 .. n}
           P == {n \in Nat : n <= Len(ids) => GivenBack(p, after[n], ss, T(n))}
<1>4. \A n \in 0 .. Len(ids) : T(n) \subseteq ToSet(ids)
  BY DEF ToSet
<1>5. T(0) = {} /\ T(Len(ids)) = ToSet(ids)
  BY DEF ToSet
<1>6. 0 \in P
  BY <1>3, <1>5, GivenNothing
<1>7. ASSUME NEW n \in Nat, n \in P
      PROVE  n + 1 \in P
  <2> SUFFICES ASSUME n + 1 <= Len(ids)
               PROVE  GivenBack(p, after[n + 1], ss, T(n + 1))
    OBVIOUS
  <2> DEFINE i == ids[n + 1]
  <2>1. T(n + 1) = T(n) \cup {i} /\ i \notin T(n) /\ n + 1 \in 1 .. Len(ids) /\ n + 1 \in 0 .. Len(ids)
    BY DEF NoRepeats
  <2>2. GivenBack(p, after[n], ss, T(n))
    BY <1>7
  <2>3. after[n + 1] = free_all(after[n], ss[i].blocks)
    BY <1>3, <2>1
  <2>4. T(n + 1) \in SUBSET ToSet(ids)
    BY <1>4, <2>1
  <2> HIDE DEF T, i
  <2>5. /\ Tabled(ss, T(n + 1))
        /\ \A b \in BlockId : /\ Count(ss, T(n + 1), b) <= Count(ss, ToSet(ids), b)
                              /\ Count(ss, T(n + 1), b) \in Nat
    BY <2>4, CountSplit
  <2>6. \A b \in BlockId : p.refcount[b] \in Nat /\ Count(ss, ToSet(ids), b) \in Nat
    BY CountType, PoolFields DEF PoolOK
  <2>7. \A b \in BlockId : p.refcount[b] >= Count(ss, T(n + 1), b)
    BY <2>5, <2>6
  <2>8. GivenBack(p, free_all(after[n], ss[i].blocks), ss, T(n) \cup {i})
    BY <2>1, <2>2, <2>5, <2>7, GiveBackOne
  <2> QED
    BY <2>1, <2>3, <2>8
<1> HIDE DEF P, T
<1>8. Nat \subseteq P
  BY <1>6, <1>7, Induction
<1>9. GivenBack(p, after[Len(ids)], ss, T(Len(ids)))
  <2>1. Len(ids) \in Nat /\ Len(ids) <= Len(ids)
    OBVIOUS
  <2> QED
    BY <1>8, <2>1 DEF P
<1> QED
  BY <1>2, <1>5, <1>9, Zenon

\* The references of several more sequences.
LEMMA GiveBackMany ==
    ASSUME NEW p, PoolOK(BlockHashes, p), NEW ss, NEW T, NEW ids \in Seq(Nat), NoRepeats(ids),
           ToSet(ids) \cap T = {}, Tabled(ss, T \cup ToSet(ids)),
           \A b \in BlockId : p.refcount[b] >= Count(ss, T \cup ToSet(ids), b),
           NEW r, GivenBack(p, r, ss, T)
    PROVE  GivenBack(p, FreeSequences(r, ss, ids), ss, T \cup ToSet(ids))
<1> DEFINE S == ToSet(ids)
           U == T \cup S
           f == FreeSequences(r, ss, ids)
<1>1. T \in SUBSET U /\ U \ T = S /\ Tabled(ss, U)
  OBVIOUS
<1>2. \A b \in BlockId : p.refcount[b] \in Nat /\ p.refcount[b] >= Count(ss, U, b)
  BY PoolFields DEF PoolOK
<1>3. /\ PoolOK(BlockHashes, r) /\ r.by_hash = p.by_hash /\ r.hash_of = p.hash_of
      /\ \A b \in BlockId : r.refcount[b] = p.refcount[b] - Count(ss, T, b)
  BY DEF GivenBack
<1> HIDE DEF S, U
<1>4. ASSUME NEW b \in BlockId
      PROVE  /\ Count(ss, U, b) = Count(ss, S, b) + Count(ss, T, b)
             /\ Count(ss, T, b) \in Nat /\ Count(ss, S, b) \in Nat
  <2>1. /\ Count(ss, U, b) = Count(ss, U \ T, b) + Count(ss, T, b)
        /\ Count(ss, T, b) \in Nat /\ Count(ss, U \ T, b) \in Nat
    BY ONLY <1>1, CountSplit, ZenonT(40)
  <2> QED
    BY <1>1, <2>1
<1>5. Tabled(ss, S)
  <2>1. Tabled(ss, U \ T)
    BY ONLY <1>1, CountSplit
  <2> QED
    BY <1>1, <2>1
<1>6. \A b \in BlockId : r.refcount[b] >= Count(ss, S, b)
  BY <1>2, <1>3, <1>4
<1>7. GivenBack(r, f, ss, S)
  BY <1>3, <1>5, <1>6, FreeSequencesOK DEF S
<1> HIDE DEF f
<1>8. /\ PoolOK(BlockHashes, f) /\ f.by_hash = r.by_hash /\ f.hash_of = r.hash_of
      /\ \A b \in BlockId : f.refcount[b] = r.refcount[b] - Count(ss, S, b)
  BY <1>7 DEF GivenBack
<1>9. ASSUME NEW b \in BlockId
      PROVE  f.refcount[b] = p.refcount[b] - Count(ss, U, b)
  <2>1. f.refcount[b] = r.refcount[b] - Count(ss, S, b) /\ r.refcount[b] = p.refcount[b] - Count(ss, T, b)
    BY <1>3, <1>8
  <2>2. /\ p.refcount[b] \in Nat /\ Count(ss, T, b) \in Nat /\ Count(ss, S, b) \in Nat
        /\ Count(ss, U, b) = Count(ss, S, b) + Count(ss, T, b)
    BY <1>2, <1>4
  <2> QED
    BY ONLY <2>1, <2>2
<1>10. GivenBack(p, f, ss, U)
  BY <1>3, <1>8, <1>9 DEF GivenBack
<1> QED
  BY <1>10 DEF f, S, U

\* by_request lists every sequence of a request.
LEMMA SequencesOfAll ==
    ASSUME NEW rid, next_id \in Nat, DOMAIN seqs \subseteq 0 .. (next_id - 1)
    PROVE  ToSet(sequences_of(rid)) = {i \in DOMAIN seqs : seqs[i].rid = rid}
<1> DEFINE q == [k \in 1 .. next_id |-> k - 1]
           S == {i \in 0 .. (next_id - 1) : i \notin DOMAIN seqs \/ seqs[i].rid # rid}
<1>1. q \in Seq(Nat) /\ Len(q) = next_id /\ \A k \in 1 .. next_id : q[k] = k - 1
  OBVIOUS
<1>2. ASSUME NEW i \in 0 .. (next_id - 1) PROVE i \in ToSet(q)
  <2>1. i + 1 \in 1 .. next_id /\ q[i + 1] = i
    BY <1>1
  <2> QED
    BY <1>1, <2>1 DEF ToSet
<1>3. \A i \in ToSet(q) : i \in 0 .. (next_id - 1)
  BY <1>1 DEF ToSet
<1>4. sequences_of(rid) = Without(q, S)
  BY DEF sequences_of
<1>5. \A i \in 0 .. (next_id - 1) : i \notin S <=> i \in DOMAIN seqs /\ seqs[i].rid = rid
  OBVIOUS
<1> HIDE DEF q, S
<1>6. ToSet(Without(q, S)) = ToSet(q) \ S
  BY <1>1, WithoutSet
<1> QED
  BY <1>2, <1>3, <1>4, <1>5, <1>6

\* The recursive function of FreeRequests.
RequestsFreedUpTo(g, p, order, m) ==
    g = [n \in 0 .. m |-> IF n = 0 THEN p ELSE FreeSequences(g[n - 1], seqs, sequences_of(order[n]))]

\* There is one.
LEMMA RequestsFreedExists ==
    ASSUME NEW p, NEW order, NEW m \in Nat
    PROVE  \E g : RequestsFreedUpTo(g, p, order, m)
<1> DEFINE P == {n \in Nat : \E g : RequestsFreedUpTo(g, p, order, n)}
<1>1. 0 \in P
  <2>1. RequestsFreedUpTo([n \in 0 .. 0 |-> p], p, order, 0)
    BY DEF RequestsFreedUpTo
  <2> QED
    BY <2>1
<1>2. ASSUME NEW n \in Nat, n \in P
      PROVE  n + 1 \in P
  <2>1. PICK g : RequestsFreedUpTo(g, p, order, n)
    BY <1>2
  <2> DEFINE h == [k \in 0 .. (n + 1) |->
                      IF k <= n THEN g[k] ELSE FreeSequences(g[k - 1], seqs, sequences_of(order[k]))]
  <2>2. RequestsFreedUpTo(h, p, order, n + 1)
    BY <2>1 DEF RequestsFreedUpTo
  <2> QED
    BY <2>2
<1> HIDE DEF P
<1>3. Nat \subseteq P
  BY <1>1, <1>2, Induction
<1> QED
  BY <1>3 DEF P

\* fail_all: the references of every sequence of every request it cancels.
LEMMA FreeRequestsOK ==
    ASSUME next_id \in Nat, DOMAIN seqs \subseteq 0 .. (next_id - 1),
           PoolOK(BlockHashes, pool), Tabled(seqs, DOMAIN seqs),
           \A b \in BlockId : pool.refcount[b] >= Count(seqs, DOMAIN seqs, b),
           NEW R, NEW order \in Seq(R), NoRepeats(order)
    PROVE  GivenBack(pool, FreeRequests(order), seqs, {i \in DOMAIN seqs : seqs[i].rid \in ToSet(order)})
<1> DEFINE after == CHOOSE g : RequestsFreedUpTo(g, pool, order, Len(order))
<1>1. RequestsFreedUpTo(after, pool, order, Len(order))
  <2>1. Len(order) \in Nat
    OBVIOUS
  <2>2. \E g : RequestsFreedUpTo(g, pool, order, Len(order))
    BY <2>1, RequestsFreedExists
  <2> QED
    BY <2>2, Zenon
<1>2. FreeRequests(order) = after[Len(order)]
  BY DEF FreeRequests, RequestsFreedUpTo
<1> HIDE DEF after
<1>3. /\ after[0] = pool
      /\ \A n \in 1 .. Len(order) : after[n] = FreeSequences(after[n - 1], seqs, sequences_of(order[n]))
  <2> DEFINE F(n) == FreeSequences(after[n - 1], seqs, sequences_of(order[n]))
  <2>1. after = [n \in 0 .. Len(order) |-> IF n = 0 THEN pool ELSE F(n)]
    BY ONLY <1>1, Zenon DEF RequestsFreedUpTo
  <2>2. Len(order) \in Nat
    OBVIOUS
  <2> HIDE DEF F
  <2>3. after[0] = pool /\ \A n \in 1 .. Len(order) : after[n] = F(n)
    BY ONLY <2>1, <2>2
  <2> QED
    BY <2>3 DEF F
<1> DEFINE T(n) == {i \in DOMAIN seqs : \E k \in 1 .. n : seqs[i].rid = order[k]}
           P == {n \in Nat : n <= Len(order) => GivenBack(pool, after[n], seqs, T(n))}
<1>4. \A n \in Nat : T(n) \subseteq DOMAIN seqs
  OBVIOUS
<1>5. T(0) = {} /\ T(Len(order)) = {i \in DOMAIN seqs : seqs[i].rid \in ToSet(order)}
  BY DEF ToSet
<1>10. ASSUME NEW n \in Nat
       PROVE  T(n + 1) = T(n) \cup {i \in DOMAIN seqs : seqs[i].rid = order[n + 1]}
  <2>1. \A k : k \in 1 .. (n + 1) <=> k \in 1 .. n \/ k = n + 1
    OBVIOUS
  <2> QED
    BY <2>1, Zenon
<1>11. ASSUME NEW n \in Nat, n + 1 <= Len(order)
       PROVE  T(n) \cap {i \in DOMAIN seqs : seqs[i].rid = order[n + 1]} = {}
  <2>1. \A k \in 1 .. n : order[k] # order[n + 1]
    BY <1>11 DEF NoRepeats
  <2> QED
    BY <2>1
<1> HIDE DEF T
<1>6. 0 \in P
  BY <1>3, <1>5, GivenNothing
<1>7. ASSUME NEW n \in Nat, n \in P
      PROVE  n + 1 \in P
  <2> SUFFICES ASSUME n + 1 <= Len(order)
               PROVE  GivenBack(pool, after[n + 1], seqs, T(n + 1))
    OBVIOUS
  <2> DEFINE ids == sequences_of(order[n + 1])
  <2>1. ids \in Seq(Nat) /\ NoRepeats(ids) /\ ToSet(ids) = {i \in DOMAIN seqs : seqs[i].rid = order[n + 1]}
    BY SequencesOf, SequencesOfAll
  <2>2. GivenBack(pool, after[n], seqs, T(n))
    BY <1>7
  <2>3. n + 1 \in 1 .. Len(order) /\ n + 1 - 1 = n
    OBVIOUS
  <2>4. after[n + 1] = FreeSequences(after[n], seqs, ids)
    BY <1>3, <2>3
  <2> HIDE DEF ids
  <2>5. T(n + 1) = T(n) \cup ToSet(ids)
    BY <1>10, <2>1
  <2>6. ToSet(ids) \cap T(n) = {}
    BY <1>11, <2>1
  <2>7. T(n + 1) \in SUBSET DOMAIN seqs
    BY <1>4
  <2>8. /\ Tabled(seqs, T(n + 1))
        /\ \A b \in BlockId : /\ Count(seqs, T(n + 1), b) <= Count(seqs, DOMAIN seqs, b)
                              /\ Count(seqs, T(n + 1), b) \in Nat
    BY <2>7, CountSplit
  <2>9. \A b \in BlockId : pool.refcount[b] \in Nat /\ Count(seqs, DOMAIN seqs, b) \in Nat
    BY CountType, PoolFields DEF PoolOK
  <2>10. \A b \in BlockId : pool.refcount[b] >= Count(seqs, T(n + 1), b)
    BY <2>8, <2>9
  <2>11. GivenBack(pool, FreeSequences(after[n], seqs, ids), seqs, T(n) \cup ToSet(ids))
    BY <2>1, <2>2, <2>5, <2>6, <2>8, <2>10, GiveBackMany
  <2> QED
    BY <2>4, <2>5, <2>11
<1> HIDE DEF P
<1>8. Nat \subseteq P
  BY <1>6, <1>7, Induction
<1>9. GivenBack(pool, after[Len(order)], seqs, T(Len(order)))
  <2>1. Len(order) \in Nat /\ Len(order) <= Len(order)
    OBVIOUS
  <2> QED
    BY <1>8, <2>1 DEF P
<1> QED
  BY <1>2, <1>5, <1>9, Zenon

\* An order of a set lists each of its members once.
LEMMA OrderOf ==
    ASSUME NEW R, IsFiniteSet(R), NEW order \in SetToSeqs(R)
    PROVE  order \in Seq(R) /\ NoRepeats(order) /\ ToSet(order) = R
<1> DEFINE n == Cardinality(R)
           D == 1 .. n
<1>1. n \in Nat /\ IsFiniteSet(D) /\ Cardinality(D) = n
  BY FS_CardinalityType, FS_Interval
<1>2. order \in [D -> R] /\ \A i, j \in D : i # j => order[i] # order[j]
  BY DEF SetToSeqs
<1> HIDE DEF n
<1>3. order \in Seq(R) /\ Len(order) = n
  BY <1>1, <1>2
<1>4. order \in Injection(D, R)
  BY <1>2 DEF Injection, IsInjective
<1>5. order \in Surjection(D, R)
  BY <1>1, <1>4, FS_Injection DEF n
<1>6. \A x \in R : \E i \in D : order[i] = x
  BY <1>5 DEF Surjection
<1>7. ToSet(order) = R
  BY <1>2, <1>3, <1>6 DEF ToSet
<1>8. NoRepeats(order)
  BY <1>2, <1>3 DEF NoRepeats
<1> QED
  BY <1>3, <1>7, <1>8

----------------------------------------------------------------------------
(***************************************************************************)
(* Taking blocks: for a fork, and for a prompt whose prefix is cached.     *)
(***************************************************************************)
\* The recursive function of GuardedMany.
GuardedUpTo(g, p, m) ==
    g = [n \in 0 .. m |-> IF n = 0 THEN [pool |-> p, blocks |-> <<>>] ELSE TakeOne(g[n - 1], allocate_guarded(g[n - 1].pool))]

\* There is one.
LEMMA GuardedExists ==
    ASSUME NEW p, NEW m \in Nat
    PROVE  \E g : GuardedUpTo(g, p, m)
<1> DEFINE P == {n \in Nat : \E g : GuardedUpTo(g, p, n)}
<1>1. 0 \in P
  <2>1. GuardedUpTo([n \in 0 .. 0 |-> [pool |-> p, blocks |-> <<>>]], p, 0)
    BY DEF GuardedUpTo
  <2> QED
    BY <2>1
<1>2. ASSUME NEW n \in Nat, n \in P
      PROVE  n + 1 \in P
  <2>1. PICK g : GuardedUpTo(g, p, n)
    BY <1>2
  <2> DEFINE h == [k \in 0 .. (n + 1) |->
                      IF k <= n THEN g[k] ELSE TakeOne(g[k - 1], allocate_guarded(g[k - 1].pool))]
  <2>2. GuardedUpTo(h, p, n + 1)
    BY <2>1 DEF GuardedUpTo
  <2> QED
    BY <2>2
<1> HIDE DEF P
<1>3. Nat \subseteq P
  BY <1>1, <1>2, Induction
<1> QED
  BY <1>3 DEF P

\* allocate_guarded is allocate, or refuses.
LEMMA GuardedIs ==
    ASSUME NEW p
    PROVE  allocate_guarded(p) = allocate(p) \/ (allocate_guarded(p).block = NoBlock /\ allocate_guarded(p).pool = p)
  BY DEF allocate_guarded

\* seed_fork: what was taken before a refusal is fresh too.
LEMMA GuardedManyOK ==
    ASSUME NEW H, NEW p, PoolOK(H, p), NEW want \in Int
    PROVE  LET a == GuardedMany(p, want) IN Taken(H, p, a.pool, a.blocks)
<1> DEFINE none == [pool |-> p, blocks |-> <<>>]
<1>1. Taken(H, p, none.pool, none.blocks)
  BY TakenNothing
<1>2. CASE ~(want > 0)
  BY <1>1, <1>2 DEF GuardedMany
<1>3. CASE want > 0
  <2> DEFINE after == CHOOSE g : GuardedUpTo(g, p, want)
  <2>1. GuardedUpTo(after, p, want)
    <3>1. want \in Nat
      BY <1>3
    <3>2. \E g : GuardedUpTo(g, p, want)
      BY <3>1, GuardedExists
    <3> QED
      BY <3>2, Zenon
  <2>2. GuardedMany(p, want) = after[want]
    BY <1>3 DEF GuardedMany, GuardedUpTo
  <2> HIDE DEF after
  <2>3. /\ after[0] = none
        /\ \A n \in 1 .. want : after[n] = TakeOne(after[n - 1], allocate_guarded(after[n - 1].pool))
    BY <1>3, <2>1 DEF GuardedUpTo
  <2> HIDE DEF none
  <2> DEFINE Good(acc) == Taken(H, p, acc.pool, acc.blocks)
             P == {n \in Nat : n <= want => Good(after[n])}
  <2>4. 0 \in P
    BY <1>1, <2>3
  <2>5. ASSUME NEW n \in Nat, n \in P
        PROVE  n + 1 \in P
    <3> SUFFICES ASSUME n + 1 <= want
                 PROVE  Good(after[n + 1])
      OBVIOUS
    <3> DEFINE acc == after[n]
               a == allocate_guarded(acc.pool)
               t == TakeOne(acc, a)
    <3>1. Good(acc) /\ n + 1 \in 1 .. want /\ n + 1 - 1 = n
      BY <2>5
    <3>2. after[n + 1] = t
      BY <2>3, <3>1
    <3>3. a = allocate(acc.pool) \/ a.block = NoBlock
      BY GuardedIs
    <3> HIDE DEF acc, a
    <3>4. Taken(H, p, t.pool, t.blocks)
      BY <3>1, <3>3, TakeOneOK
    <3> QED
      BY <3>2, <3>4
  <2> HIDE DEF P, Good
  <2>6. Nat \subseteq P
    BY <2>4, <2>5, Induction
  <2>7. Good(after[want])
    BY <1>3, <2>6 DEF P
  <2> QED
    BY <1>3, <2>2, <2>7 DEF Good
<1> QED
  BY <1>2, <1>3

\* The recursive function of ForkPool.
SharedUpTo(g, p, q, m) ==
    g = [n \in 0 .. m |-> IF n = 0 THEN p ELSE incref(g[n - 1], q[n])]

\* There is one.
LEMMA SharedExists ==
    ASSUME NEW p, NEW q, NEW m \in Nat
    PROVE  \E g : SharedUpTo(g, p, q, m)
<1> DEFINE P == {n \in Nat : \E g : SharedUpTo(g, p, q, n)}
<1>1. 0 \in P
  <2>1. SharedUpTo([n \in 0 .. 0 |-> p], p, q, 0)
    BY DEF SharedUpTo
  <2> QED
    BY <2>1
<1>2. ASSUME NEW n \in Nat, n \in P
      PROVE  n + 1 \in P
  <2>1. PICK g : SharedUpTo(g, p, q, n)
    BY <1>2
  <2> DEFINE h == [k \in 0 .. (n + 1) |->
                      IF k <= n THEN g[k] ELSE incref(g[k - 1], q[k])]
  <2>2. SharedUpTo(h, p, q, n + 1)
    BY <2>1 DEF SharedUpTo
  <2> QED
    BY <2>2
<1> HIDE DEF P
<1>3. Nat \subseteq P
  BY <1>1, <1>2, Induction
<1> QED
  BY <1>3 DEF P

\* fork: one more reference to each of the shared blocks.
LEMMA ForkPoolOK ==
    ASSUME PoolOK(BlockHashes, pool), ForkShared \in Seq(BlockId),
           \A b \in BlockId : InList(ForkShared, b) => pool.refcount[b] > 0
    PROVE  /\ PoolOK(BlockHashes, ForkPool)
           /\ \A b \in BlockId : ForkPool.refcount[b] = pool.refcount[b] + Occ(ForkShared, b)
<1> DEFINE q == ForkShared
           p == pool
           after == CHOOSE g : SharedUpTo(g, p, q, Len(q))
<1> HIDE DEF q, p
<1>0. PoolOK(BlockHashes, p) /\ q \in Seq(BlockId) /\ \A b \in BlockId : InList(q, b) => p.refcount[b] > 0
  BY DEF p, q
<1>1. SharedUpTo(after, p, q, Len(q))
  <2>1. Len(q) \in Nat
    BY <1>0
  <2>2. \E g : SharedUpTo(g, p, q, Len(q))
    BY <2>1, SharedExists
  <2> QED
    BY <2>2, Zenon
<1>2. ForkPool = after[Len(q)]
  BY DEF ForkPool, SharedUpTo, p, q
<1> HIDE DEF after
<1>3. after[0] = p /\ \A n \in 1 .. Len(q) : after[n] = incref(after[n - 1], q[n])
  <2> DEFINE F(n) == incref(after[n - 1], q[n])
  <2>1. after = [n \in 0 .. Len(q) |-> IF n = 0 THEN p ELSE F(n)]
    BY ONLY <1>1, Zenon DEF SharedUpTo
  <2>2. Len(q) \in Nat
    BY <1>0
  <2> HIDE DEF F
  <2>3. after[0] = p /\ \A n \in 1 .. Len(q) : after[n] = F(n)
    BY ONLY <2>1, <2>2
  <2> QED
    BY <2>3 DEF F
<1> DEFINE Good(r, u) == /\ PoolOK(BlockHashes, r)
                         /\ \A b \in BlockId : r.refcount[b] = p.refcount[b] + Occ(u, b)
           P == {n \in Nat : n <= Len(q) => Good(after[n], SubSeq(q, 1, n))}
<1>4. p.refcount \in [BlockId -> Nat]
  BY <1>0, PoolFields DEF PoolOK
<1>5. 0 \in P
  <2>1. \A b \in BlockId : Occ(SubSeq(q, 1, 0), b) = 0
    BY <1>0, OccPrefix
  <2> QED
    BY <1>0, <1>3, <1>4, <2>1
<1>6. ASSUME NEW n \in Nat, n \in P
      PROVE  n + 1 \in P
  <2> SUFFICES ASSUME n + 1 <= Len(q)
               PROVE  Good(after[n + 1], SubSeq(q, 1, n + 1))
    OBVIOUS
  <2> DEFINE a == after[n]
             x == q[n + 1]
             u == SubSeq(q, 1, n)
             v == SubSeq(q, 1, n + 1)
  <2>1. Good(a, u) /\ x \in BlockId /\ n \in 0 .. Len(q) /\ n + 1 \in 1 .. Len(q) /\ p.refcount[x] > 0
    <3>1. x \in BlockId /\ n + 1 \in 1 .. Len(q) /\ Len(q) \in Nat
      BY <1>0
    <3>2. InList(q, x)
      BY <3>1 DEF InList
    <3> QED
      BY <1>0, <1>6, <3>1, <3>2
  <2>2. after[n + 1] = incref(a, x)
    BY <1>3, <2>1
  <2>3. \A b \in BlockId : Occ(v, b) = Occ(u, b) + One(x, b) /\ Occ(u, b) \in Nat
    BY <1>0, OccNext
  <2> HIDE DEF a, x, u, v
  <2>4. a.refcount[x] > 0
    <3>1. a.refcount[x] = p.refcount[x] + Occ(u, x) /\ p.refcount[x] \in Nat /\ Occ(u, x) \in Nat
      BY <1>4, <2>1, <2>3
    <3> QED
      BY <2>1, <3>1
  <2>5. /\ PoolOK(BlockHashes, incref(a, x))
        /\ \A b \in BlockId : incref(a, x).refcount[b] = a.refcount[b] + One(x, b)
    <3>1. PoolOK(BlockHashes, a) /\ x \in BlockId
      BY <2>1
    <3> QED
      BY <2>4, <3>1, IncrefEach
  <2>6. ASSUME NEW b \in BlockId
        PROVE  incref(a, x).refcount[b] = p.refcount[b] + Occ(v, b)
    <3>1. /\ a.refcount[b] = p.refcount[b] + Occ(u, b) /\ p.refcount[b] \in Nat /\ Occ(u, b) \in Nat
          /\ Occ(v, b) = Occ(u, b) + One(x, b)
      BY <1>4, <2>1, <2>3
    <3>2. incref(a, x).refcount[b] = a.refcount[b] + One(x, b)
      BY <2>5
    <3>3. One(x, b) \in Nat
      BY DEF One
    <3> HIDE DEF One
    <3> QED
      BY ONLY <3>1, <3>2, <3>3
  <2> QED
    BY <2>2, <2>5, <2>6 DEF v
<1> HIDE DEF P, Good
<1>7. Nat \subseteq P
  BY <1>5, <1>6, Induction
<1>8. Len(q) \in P /\ Len(q) <= Len(q) /\ SubSeq(q, 1, Len(q)) = q
  BY <1>0, <1>7
<1>9. Good(after[Len(q)], SubSeq(q, 1, Len(q)))
  BY <1>8 DEF P
<1>10. Good(ForkPool, q)
  BY <1>2, <1>8, <1>9, Zenon
<1> QED
  BY <1>10 DEF Good, p, q

\* match_prefix finds how many of the leading hashes are indexed.
LEMMA HitsExist ==
    ASSUME NEW p, NEW hashes, Len(hashes) \in Nat
    PROVE  \E n \in 0 .. Len(hashes) : /\ \A i \in 1 .. n : contains(p, hashes[i])
                                       /\ n < Len(hashes) => ~contains(p, hashes[n + 1])
<1> DEFINE T == {n \in Nat : n < Len(hashes) /\ ~contains(p, hashes[n + 1])}
<1>1. CASE T = {}
  <2>1. ASSUME NEW i \in 1 .. Len(hashes) PROVE contains(p, hashes[i])
    <3>1. i - 1 \in Nat /\ i - 1 < Len(hashes) /\ i - 1 + 1 = i
      OBVIOUS
    <3> QED
      BY <1>1, <3>1
  <2>2. Len(hashes) \in 0 .. Len(hashes) /\ ~(Len(hashes) < Len(hashes))
    OBVIOUS
  <2> QED
    BY <2>1, <2>2
<1>2. CASE T # {}
  <2>1. PICK n \in T : \A y \in T : n <= y
    BY <1>2, LeastNat
  <2>2. n \in 0 .. Len(hashes) /\ ~contains(p, hashes[n + 1])
    OBVIOUS
  <2>3. ASSUME NEW i \in 1 .. n PROVE contains(p, hashes[i])
    <3>1. i - 1 \in Nat /\ i - 1 < Len(hashes) /\ i - 1 + 1 = i /\ ~(n <= i - 1)
      BY <2>2
    <3> QED
      BY <2>1, <3>1
  <2> QED
    BY <2>2, <2>3
<1> QED
  BY <1>1, <1>2

\* match_prefix takes a reference to each block of the longest indexed prefix.
LEMMA MatchOK ==
    ASSUME NEW H, NEW p, PoolOK(H, p), NEW hashes, Len(hashes) \in Nat
    PROVE  LET m == match_prefix(p, hashes)
           IN  /\ PoolOK(H, m.pool) /\ m.pool.hash_of = p.hash_of
               /\ m.blocks \in Seq(BlockId) /\ Len(m.blocks) <= Len(hashes)
               /\ \A i \in 1 .. Len(m.blocks) : p.hash_of[m.blocks[i]] = hashes[i] /\ hashes[i] \in H
               /\ \A b \in BlockId : m.pool.refcount[b] = p.refcount[b] + Occ(m.blocks, b)
<1> DEFINE Hit(n) == /\ \A i \in 1 .. n : contains(p, hashes[i])
                     /\ n < Len(hashes) => ~contains(p, hashes[n + 1])
           hits == CHOOSE n \in 0 .. Len(hashes) : Hit(n)
           found == [i \in 1 .. hits |-> p.by_hash[hashes[i]]]
<1>1. \E n \in 0 .. Len(hashes) : Hit(n)
  BY HitsExist
<1>2. match_prefix(p, hashes).pool = references(p, found) /\ match_prefix(p, hashes).blocks = found
  BY DEF match_prefix
<1> HIDE DEF Hit
<1>3. hits \in 0 .. Len(hashes) /\ Hit(hits)
  BY <1>1, Zenon
<1> HIDE DEF hits
<1>4. \A i \in 1 .. hits : hashes[i] \in DOMAIN p.by_hash
  BY <1>3 DEF Hit, contains
<1>5. /\ p.by_hash \in HashIndex(H)
      /\ \A h \in DOMAIN p.by_hash : p.hash_of[p.by_hash[h]] = h
  BY PoolFields DEF PoolOK, IndexConsistent
<1>6. \A h \in DOMAIN p.by_hash : p.by_hash[h] \in BlockId /\ h \in H
  BY <1>5 DEF HashIndex
<1>7. /\ found \in Seq(BlockId) /\ Len(found) = hits /\ hits \in Nat
      /\ \A i \in 1 .. hits : found[i] = p.by_hash[hashes[i]]
  BY <1>3, <1>4, <1>6
<1> HIDE DEF found
<1>8. \A i \in 1 .. Len(found) : p.hash_of[found[i]] = hashes[i] /\ hashes[i] \in H
  BY <1>4, <1>5, <1>6, <1>7
<1>9. /\ PoolOK(H, references(p, found)) /\ references(p, found).hash_of = p.hash_of
      /\ \A b \in BlockId : references(p, found).refcount[b] = p.refcount[b] + Occ(found, b)
  BY <1>7, ReferencesOK
<1> QED
  BY <1>2, <1>3, <1>7, <1>8, <1>9

----------------------------------------------------------------------------
(***************************************************************************)
(* Positions, blocks and prefixes.                                         *)
(***************************************************************************)

\* Division.
LEMMA DivFacts ==
    ASSUME NEW n \in Nat, NEW d \in Nat, d > 0
    PROVE  /\ n \div d \in Nat /\ n % d \in 0 .. (d - 1)
           /\ n = (n \div d) * d + (n % d)
           /\ (n \div d) * d <= n /\ n < (n \div d) * d + d
           /\ (n \div d) * d \in Nat
<1>1. n \div d \in Nat
  BY SMTT(30)
<1>2. n % d \in 0 .. (d - 1)
  BY SMTT(30)
<1>3. n = (n \div d) * d + (n % d)
  BY SMTT(30)
<1> DEFINE q == n \div d
           r == n % d
           m == q * d
<1>4. m \in Nat
  BY <1>1
<1> HIDE DEF q, r, m
<1>5. n = m + r /\ r \in 0 .. (d - 1)
  BY <1>2, <1>3 DEF q, r, m
<1>6. m <= n /\ n < m + d
  BY <1>4, <1>5
<1> QED
  BY <1>1, <1>2, <1>3, <1>4, <1>6 DEF q, r, m

\* Multiples of the block size.
LEMMA MulMono ==
    ASSUME NEW a \in Nat, NEW b \in Nat, NEW d \in Nat, a <= b
    PROVE  a * d <= b * d /\ a * d \in Nat
  OBVIOUS

\* One block more, one block less.
LEMMA MulSucc ==
    ASSUME NEW a \in Nat, NEW d \in Nat
    PROVE  /\ (a + 1) * d = a * d + d /\ (a - 1) * d = a * d - d
           /\ a * d \in Nat
  OBVIOUS

\* A multiple at most n is one of the quotient's.
LEMMA MulDiv ==
    ASSUME NEW n \in Nat, NEW d \in Nat, d > 0, NEW k \in Nat
    PROVE  k <= n \div d <=> k * d <= n
<1> DEFINE q == n \div d
<1>1. q \in Nat /\ q * d \in Nat /\ q * d <= n /\ n < q * d + d
  BY DivFacts
<1> HIDE DEF q
<1>2. ASSUME k <= q PROVE k * d <= n
  <2>1. k * d <= q * d /\ k * d \in Nat
    BY <1>1, <1>2, MulMono
  <2> QED
    BY <1>1, <2>1
<1>3. ASSUME ~(k <= q) PROVE ~(k * d <= n)
  <2>1. (q + 1) * d <= k * d /\ k * d \in Nat
    BY <1>1, <1>3, MulMono
  <2>2. (q + 1) * d = q * d + d
    BY <1>1, MulSucc
  <2> QED
    BY <1>1, <2>1, <2>2
<1> QED
  BY <1>2, <1>3 DEF q

\* A prefix of a prefix.
LEMMA PrefixPrefix ==
    ASSUME NEW A, NEW q \in Seq(A), NEW n \in 0 .. Len(q), NEW m \in 0 .. n
    PROVE  /\ SubSeq(SubSeq(q, 1, n), 1, m) = SubSeq(q, 1, m)
           /\ SubSeq(q, 1, n) \in Seq(A) /\ Len(SubSeq(q, 1, n)) = n
           /\ \A i \in 1 .. n : SubSeq(q, 1, n)[i] = q[i]
  OBVIOUS

\* The hashes of a sequence's leading blocks.
LEMMA ChainIs ==
    ASSUME NEW ns \in Tenants, NEW q \in Seq(Tokens), NEW n \in 0 .. Len(q)
    PROVE  LET hashes == hash_block_chain(ns, SubSeq(q, 1, n))
           IN  /\ Len(hashes) = n \div BlockSize /\ Len(hashes) \in Nat
               /\ \A k \in 1 .. (n \div BlockSize) : /\ hashes[k] = <<ns, SubSeq(q, 1, k * BlockSize)>>
                                                     /\ hashes[k] \in BlockHashes
                                                     /\ k * BlockSize \in 0 .. n
<1> DEFINE u == SubSeq(q, 1, n)
           m == n \div BlockSize
           hashes == hash_block_chain(ns, u)
<1>0. BlockSize \in Nat /\ BlockSize > 0
  BY PoolAssumption
<1>1. Len(u) = n /\ n \in Nat
  BY PrefixPrefix
<1>2. m \in Nat
  BY <1>0, <1>1, DivFacts
<1>3. hashes = [k \in 1 .. m |-> <<ns, SubSeq(u, 1, k * BlockSize)>>]
  BY <1>1 DEF hash_block_chain
<1>4. ASSUME NEW k \in 1 .. m
      PROVE  /\ k * BlockSize \in 0 .. n
             /\ SubSeq(u, 1, k * BlockSize) = SubSeq(q, 1, k * BlockSize)
             /\ <<ns, SubSeq(q, 1, k * BlockSize)>> \in BlockHashes
  <2>1. k \in Nat /\ k * BlockSize \in Nat /\ k * BlockSize <= n
    BY <1>0, <1>1, <1>2, MulDiv
  <2> DEFINE w == k * BlockSize
  <2>2. w \in 0 .. n /\ w \in 0 .. Len(q)
    BY <2>1
  <2> HIDE DEF w
  <2>3. SubSeq(u, 1, w) = SubSeq(q, 1, w) /\ SubSeq(q, 1, w) \in Seq(Tokens)
    BY <2>2, PrefixPrefix
  <2> QED
    BY <2>2, <2>3 DEF w, BlockHashes
<1> HIDE DEF m, u
<1>5. Len(hashes) = m /\ \A k \in 1 .. m : hashes[k] = <<ns, SubSeq(u, 1, k * BlockSize)>>
  BY <1>2, <1>3
<1> QED
  BY <1>2, <1>4, <1>5 DEF m, u

\* None of those is NoHash.
LEMMA HashesReal == NoHash \notin BlockHashes
  BY HashAssumption DEF BlockHashes

----------------------------------------------------------------------------
(***************************************************************************)
(* try_start.                                                              *)
(***************************************************************************)

\* What struct Sequence holds: tokens, a tenant, progress and a block table,
\* which only a running sequence has anything in.
SeqOK(s) ==
    /\ s.blocks \in Seq(BlockId) /\ s.tokens \in Seq(Tokens) /\ s.ns \in Tenants
    /\ s.num_computed \in Nat /\ s.num_cached_blocks \in Nat
    /\ s.prompt_len \in 0 .. Len(s.tokens) /\ s.prefill_target \in 0 .. Len(s.tokens)
    /\ ~Active(s) => s.blocks = <<>>

\* r is p with references to the blocks q, which are indexed under the leading
\* tokens of s.
Matched(s, p, r, q) ==
    /\ PoolOK(BlockHashes, r) /\ r.hash_of = p.hash_of
    /\ q \in Seq(BlockId) /\ Len(q) * BlockSize <= s.prefill_target
    /\ \A k \in 1 .. Len(q) : p.hash_of[q[k]] = <<s.ns, SubSeq(s.tokens, 1, k * BlockSize)>>
    /\ \A k \in 1 .. Len(q) : p.hash_of[q[k]] # NoHash
    /\ \A b \in BlockId : r.refcount[b] = p.refcount[b] + Occ(q, b)

\* The match of a prompt's hashes.
LEMMA MatchedOK ==
    ASSUME PoolOK(BlockHashes, pool), NEW s, SeqOK(s)
    PROVE  Matched(s, pool, MatchedBlocks(s).pool, MatchedBlocks(s).blocks)
<1> DEFINE n == s.prefill_target
           hashes == hash_block_chain(s.ns, SubSeq(s.tokens, 1, n))
           m == MatchedBlocks(s)
<1>0. BlockSize \in Nat /\ BlockSize > 0
  BY PoolAssumption
<1>1. s.ns \in Tenants /\ s.tokens \in Seq(Tokens) /\ n \in 0 .. Len(s.tokens) /\ n \in Nat
  BY DEF SeqOK
<1>2. CASE PrefixCache
  <2>1. m = match_prefix(pool, hashes)
    BY <1>2 DEF MatchedBlocks
  <2>2. /\ Len(hashes) = n \div BlockSize /\ Len(hashes) \in Nat
        /\ \A k \in 1 .. (n \div BlockSize) : /\ hashes[k] = <<s.ns, SubSeq(s.tokens, 1, k * BlockSize)>>
                                              /\ hashes[k] \in BlockHashes
    BY <1>1, ChainIs
  <2> HIDE DEF hashes, m, n
  <2>3. /\ PoolOK(BlockHashes, m.pool) /\ m.pool.hash_of = pool.hash_of
        /\ m.blocks \in Seq(BlockId) /\ Len(m.blocks) <= Len(hashes)
        /\ \A i \in 1 .. Len(m.blocks) : pool.hash_of[m.blocks[i]] = hashes[i]
        /\ \A b \in BlockId : m.pool.refcount[b] = pool.refcount[b] + Occ(m.blocks, b)
    BY <2>1, <2>2, MatchOK
  <2>4. Len(m.blocks) \in Nat /\ Len(m.blocks) <= n \div BlockSize
    BY <2>2, <2>3
  <2>5. Len(m.blocks) * BlockSize <= n
    BY <1>0, <1>1, <2>4, MulDiv
  <2>6. ASSUME NEW k \in 1 .. Len(m.blocks)
        PROVE  /\ pool.hash_of[m.blocks[k]] = <<s.ns, SubSeq(s.tokens, 1, k * BlockSize)>>
               /\ pool.hash_of[m.blocks[k]] # NoHash
    <3>1. k \in 1 .. (n \div BlockSize)
      BY <2>2, <2>4
    <3> QED
      BY <2>2, <2>3, <3>1, HashesReal
  <2> QED
    BY <2>3, <2>5, <2>6 DEF Matched, n, m
<1>3. CASE ~PrefixCache
  <2>1. m.pool = pool /\ m.blocks = <<>>
    BY <1>3 DEF MatchedBlocks
  <2>2. \A b \in BlockId : Occ(<<>>, b) = 0 /\ pool.refcount[b] \in Nat
    BY OccPrefix, PoolFields DEF PoolOK
  <2>3. <<>> \in Seq(BlockId) /\ Len(<<>>) = 0 /\ 0 * BlockSize = 0
    BY <1>0
  <2>4. Matched(s, pool, pool, <<>>)
    BY <1>1, <2>2, <2>3 DEF Matched
  <2> HIDE DEF m
  <2> QED
    BY <2>1, <2>4 DEF m
<1> QED
  BY <1>2, <1>3

\* Giving back the last block of a match.
LEMMA UnmatchLast ==
    ASSUME NEW s, SeqOK(s), NEW p, PoolOK(BlockHashes, p), NEW r, NEW q, Matched(s, p, r, q), Len(q) > 0
    PROVE  Matched(s, p, free(r, Last(q)), Front(q))
<1> DEFINE n == Len(q)
           x == q[n]
           u == SubSeq(q, 1, n - 1)
           f == free(r, x)
<1>0. BlockSize \in Nat /\ BlockSize > 0 /\ s.prefill_target \in Nat
  BY PoolAssumption DEF SeqOK
<1>1. Last(q) = x /\ Front(q) = u
  BY DEF Last, Front
<1>2. n \in 1 .. Len(q) /\ q \in Seq(BlockId) /\ n * BlockSize <= s.prefill_target /\ n \in Nat
  BY DEF Matched
<1>3. /\ u \in Seq(BlockId) /\ Len(u) = n - 1 /\ x \in BlockId
      /\ \A k \in 1 .. (n - 1) : u[k] = q[k]
  <2>1. n - 1 \in 0 .. Len(q) /\ 0 \in 0 .. (n - 1) /\ x \in BlockId
    BY <1>2
  <2> QED
    BY <1>2, <2>1, PrefixPrefix
<1>4. \A b : Occ(q, b) = Occ(u, b) + One(x, b) /\ Occ(u, b) \in Nat
  <2>1. \A b : Occ(SubSeq(q, 1, n), b) = Occ(SubSeq(q, 1, n - 1), b) + One(q[n], b)
    BY <1>2, OccPrefix
  <2>2. SubSeq(q, 1, n) = q
    BY <1>2
  <2> QED
    BY <1>3, <2>1, <2>2, OccType
<1>5. /\ PoolOK(BlockHashes, r) /\ r.hash_of = p.hash_of
      /\ \A b \in BlockId : r.refcount[b] = p.refcount[b] + Occ(q, b) /\ p.refcount[b] \in Nat
      /\ \A k \in 1 .. n : /\ p.hash_of[q[k]] = <<s.ns, SubSeq(s.tokens, 1, k * BlockSize)>>
                           /\ p.hash_of[q[k]] # NoHash
  BY PoolFields DEF Matched, PoolOK
<1> HIDE DEF x, u, n
<1>6. r.refcount[x] # 0
  <2>1. r.refcount[x] = p.refcount[x] + Occ(q, x) /\ p.refcount[x] \in Nat
    BY <1>3, <1>5
  <2>2. Occ(q, x) = Occ(u, x) + 1 /\ Occ(u, x) \in Nat
    BY <1>4 DEF One
  <2> QED
    BY <2>1, <2>2
<1>7. /\ PoolOK(BlockHashes, f) /\ f.hash_of = r.hash_of
      /\ \A b \in BlockId : f.refcount[b] = r.refcount[b] - One(x, b)
  BY <1>3, <1>5, <1>6, FreeEach
<1> HIDE DEF f
<1>8. ASSUME NEW b \in BlockId
      PROVE  f.refcount[b] = p.refcount[b] + Occ(u, b)
  <2>1. f.refcount[b] = r.refcount[b] - One(x, b) /\ r.refcount[b] = p.refcount[b] + Occ(q, b) /\ p.refcount[b] \in Nat
    BY <1>5, <1>7
  <2>2. Occ(q, b) = Occ(u, b) + One(x, b) /\ Occ(u, b) \in Nat
    BY <1>4
  <2> QED
    BY <2>1, <2>2 DEF One
<1>9. (n - 1) * BlockSize <= s.prefill_target
  <2>1. n \in Nat /\ n * BlockSize \in Nat /\ (n - 1) * BlockSize = n * BlockSize - BlockSize
    BY <1>0, <1>2, MulSucc
  <2> QED
    BY <1>0, <1>2, <2>1
<1>10. Matched(s, p, f, u)
  <2>1. \A k \in 1 .. Len(u) : k \in 1 .. n /\ u[k] = q[k]
    BY <1>2, <1>3
  <2> QED
    BY <1>3, <1>5, <1>7, <1>8, <1>9, <2>1 DEF Matched
<1> QED
  BY <1>1, <1>10 DEF f, u, x, n

\* The cached prefix leaves at least one token to forward.
LEMMA CachedPrefixOK ==
    ASSUME PoolOK(BlockHashes, pool), NEW s, SeqOK(s)
    PROVE  LET m == CachedPrefix(s)
           IN  /\ Matched(s, pool, m.pool, m.blocks)
               /\ m.tokens = Len(m.blocks) * BlockSize /\ m.tokens \in Nat
               /\ s.prefill_target > 0 => m.tokens < s.prefill_target
<1> DEFINE c == MatchedBlocks(s)
           n == Len(c.blocks)
           t == s.prefill_target
           m == CachedPrefix(s)
<1>0. BlockSize \in Nat /\ BlockSize > 0 /\ t \in Nat
  BY PoolAssumption DEF SeqOK
<1>1. Matched(s, pool, c.pool, c.blocks)
  BY MatchedOK
<1>2. n \in Nat /\ n * BlockSize <= t /\ c.blocks \in Seq(BlockId)
  BY <1>1 DEF Matched
<1>3. n * BlockSize \in Nat /\ (n - 1) * BlockSize = n * BlockSize - BlockSize
  BY <1>0, <1>2, MulSucc
<1>4. CASE n > 0 /\ n * BlockSize >= t
  <2>1. m.pool = free(c.pool, Last(c.blocks)) /\ m.blocks = Front(c.blocks) /\ m.tokens = (n - 1) * BlockSize
    BY <1>4 DEF CachedPrefix
  <2>2. Len(Front(c.blocks)) = n - 1
    BY <1>2, <1>4 DEF Front
  <2>3. Matched(s, pool, m.pool, m.blocks)
    BY <1>1, <1>4, <2>1, UnmatchLast
  <2>4. m.tokens = Len(m.blocks) * BlockSize
    BY <2>1, <2>2
  <2>5. (n - 1) * BlockSize \in Nat
    <3>1. n - 1 \in Nat
      BY <1>2, <1>4
    <3> QED
      BY <1>0, <3>1
  <2> HIDE DEF m, c, n
  <2>6. m.tokens \in Nat /\ m.tokens < t
    BY <1>0, <1>2, <1>3, <2>1, <2>5
  <2> QED
    BY <2>3, <2>4, <2>6 DEF m
<1>5. CASE ~(n > 0 /\ n * BlockSize >= t)
  <2>1. m.pool = c.pool /\ m.blocks = c.blocks /\ m.tokens = n * BlockSize
    BY <1>5 DEF CachedPrefix
  <2>2. t > 0 => n * BlockSize < t
    <3>1. CASE n = 0
      BY <1>0, <3>1
    <3>2. CASE n # 0
      BY <1>0, <1>2, <1>3, <1>5, <3>2
    <3> QED
      BY <3>1, <3>2
  <2> QED
    BY <1>1, <1>3, <2>1, <2>2
<1> QED
  BY <1>4, <1>5

\* try_start: references to the cached prefix and fresh blocks for the rest,
\* or nothing but the order of the free list.
LEMMA TryStartOK ==
    ASSUME PoolOK(BlockHashes, pool), NEW s, SeqOK(s)
    PROVE  LET m == CachedPrefix(s)
               t == try_start(s)
           IN  /\ Matched(s, pool, m.pool, m.blocks)
               /\ t.ok \in BOOLEAN
               /\ t.ok => \E q : /\ Taken(BlockHashes, m.pool, t.pool, q)
                                 /\ t.seq = [s EXCEPT !.blocks = m.blocks \o q, !.num_computed = m.tokens,
                                                      !.num_cached_blocks = Len(m.blocks),
                                                      !.status = "prefilling"]
               /\ ~t.ok => /\ PoolOK(BlockHashes, t.pool) /\ t.pool.hash_of = pool.hash_of
                           /\ \A b \in BlockId : t.pool.refcount[b] = pool.refcount[b]
<1> DEFINE m == CachedPrefix(s)
           fresh == BlocksToReserve(s, Len(m.blocks))
           a == AllocateMany(m.pool, fresh)
           t == try_start(s)
           u == [s EXCEPT !.blocks = m.blocks \o a.blocks, !.num_computed = m.tokens,
                          !.num_cached_blocks = Len(m.blocks), !.status = "prefilling"]
           f == free_all(m.pool, m.blocks)
<1>0. BlockSize \in Nat /\ BlockSize > 0 /\ s.prefill_target \in Nat
  BY PoolAssumption DEF SeqOK
<1>1. Matched(s, pool, m.pool, m.blocks)
  BY CachedPrefixOK
<1>2. t = IF can_allocate(m.pool, fresh) THEN [ok |-> TRUE, pool |-> a.pool, seq |-> u]
                                         ELSE [ok |-> FALSE, pool |-> f, seq |-> s]
  BY DEF try_start
<1>3. fresh \in Int
  <2>1. s.prefill_target + 1 + BlockSize - 1 \in Nat /\ Len(m.blocks) \in Nat
    BY <1>0, <1>1 DEF Matched
  <2>2. (s.prefill_target + 1 + BlockSize - 1) \div BlockSize \in Nat
    BY <1>0, <2>1, DivFacts
  <2> QED
    BY <2>1, <2>2 DEF BlocksToReserve, blocks_for
<1>4. PoolOK(BlockHashes, m.pool) /\ m.blocks \in Seq(BlockId)
  BY <1>1 DEF Matched
<1> HIDE DEF m, fresh
<1>5. Taken(BlockHashes, m.pool, a.pool, a.blocks)
  BY <1>3, <1>4, AllocateManyOK
<1>6. /\ PoolOK(BlockHashes, f) /\ f.hash_of = pool.hash_of
      /\ \A b \in BlockId : f.refcount[b] = pool.refcount[b]
  <2>1. \A b \in BlockId : /\ m.pool.refcount[b] = pool.refcount[b] + Occ(m.blocks, b)
                           /\ pool.refcount[b] \in Nat /\ Occ(m.blocks, b) \in Nat
    BY <1>1, <1>4, PoolFields, OccType DEF Matched, PoolOK
  <2>2. \A b \in BlockId : m.pool.refcount[b] >= Occ(m.blocks, b)
    BY <2>1
  <2>3. /\ PoolOK(BlockHashes, f) /\ f.hash_of = m.pool.hash_of
        /\ \A b \in BlockId : f.refcount[b] = m.pool.refcount[b] - Occ(m.blocks, b)
    BY <1>4, <2>2, FreeAllOK
  <2> HIDE DEF f
  <2>4. ASSUME NEW b \in BlockId PROVE f.refcount[b] = pool.refcount[b]
    BY <2>1, <2>3
  <2> QED
    BY <1>1, <2>3, <2>4 DEF Matched
<1> HIDE DEF a, f
<1>7. CASE can_allocate(m.pool, fresh)
  <2>1. t.ok = TRUE /\ t.pool = a.pool /\ t.seq = u
    BY <1>2, <1>7
  <2> QED
    BY <1>1, <1>5, <2>1 DEF m
<1>8. CASE ~can_allocate(m.pool, fresh)
  <2>1. t.ok = FALSE /\ t.pool = f
    BY <1>2, <1>8
  <2> QED
    BY <1>1, <1>6, <2>1 DEF m
<1> QED
  BY <1>7, <1>8

----------------------------------------------------------------------------
(***************************************************************************)
(* publish_full_blocks.                                                    *)
(***************************************************************************)

\* The recursive function of PublishBlocks.
PublishedUpTo(g, p, blocks, hashes, first, last) ==
    g = [i \in first .. last |->
            IF i = first THEN [pool |-> p, blocks |-> blocks, old |-> <<>>]
                         ELSE PublishOne(g[i - 1], i, hashes[i])]

\* There is one.
LEMMA PublishedExists ==
    ASSUME NEW p, NEW blocks, NEW hashes, NEW first \in Nat, NEW m \in Nat
    PROVE  \E g : PublishedUpTo(g, p, blocks, hashes, first, first + m)
<1> DEFINE base == [pool |-> p, blocks |-> blocks, old |-> <<>>]
           P == {n \in Nat : \E g : PublishedUpTo(g, p, blocks, hashes, first, first + n)}
<1>1. 0 \in P
  <2>1. PublishedUpTo([n \in first .. (first + 0) |-> base], p, blocks, hashes, first, first + 0)
    BY DEF PublishedUpTo
  <2> QED
    BY <2>1
<1>2. ASSUME NEW n \in Nat, n \in P
      PROVE  n + 1 \in P
  <2>1. PICK g : PublishedUpTo(g, p, blocks, hashes, first, first + n)
    BY <1>2
  <2> DEFINE last == first + n
             h == [k \in first .. (first + (n + 1)) |->
                      IF k <= last THEN g[k] ELSE PublishOne(g[k - 1], k, hashes[k])]
  <2>2. PublishedUpTo(h, p, blocks, hashes, first, first + (n + 1))
    <3>1. ASSUME NEW k \in first .. (first + (n + 1))
          PROVE  h[k] = IF k = first THEN base ELSE PublishOne(h[k - 1], k, hashes[k])
      <4>1. CASE k = first
        BY <2>1, <4>1 DEF PublishedUpTo
      <4>2. CASE k # first
        <5>1. k - 1 \in first .. (first + n) /\ h[k - 1] = g[k - 1]
          BY <4>2
        <5>2. k <= last => g[k] = PublishOne(g[k - 1], k, hashes[k])
          BY <2>1, <4>2 DEF PublishedUpTo
        <5>3. h[k] = PublishOne(g[k - 1], k, hashes[k])
          BY <5>2
        <5> QED
          BY <4>2, <5>1, <5>3
      <4> QED
        BY <4>1, <4>2
    <3>2. h = [k \in first .. (first + (n + 1)) |-> h[k]]
      OBVIOUS
    <3> HIDE DEF h, base
    <3>3. h = [k \in first .. (first + (n + 1)) |->
                 IF k = first THEN base ELSE PublishOne(h[k - 1], k, hashes[k])]
      BY <3>1, <3>2, Zenon
    <3> QED
      BY <3>3 DEF PublishedUpTo, base
  <2> QED
    BY <2>2
<1> HIDE DEF P
<1>3. Nat \subseteq P
  BY <1>1, <1>2, Induction
<1> QED
  BY <1>3 DEF P

\* The references after the blocks up to place i were published: those the
\* table has now, and those to the duplicates still to be freed.
Accounted(p, blocks, acc) ==
    /\ PoolOK(BlockHashes, acc.pool)
    /\ acc.blocks \in Seq(BlockId) /\ Len(acc.blocks) = Len(blocks)
    /\ acc.old \in Seq(BlockId)
    /\ \A b \in BlockId : acc.pool.refcount[b] =
          p.refcount[b] - Occ(blocks, b) + Occ(acc.blocks, b) + Occ(acc.old, b)

\* The places after first hold blocks of their own, without content.
Unpublished(p, blocks, first) ==
    /\ \A k \in 1 .. Len(blocks) : k > first => p.hash_of[blocks[k]] = NoHash
    /\ \A k, l \in 1 .. Len(blocks) : (k > first /\ l > first /\ blocks[k] = blocks[l]) => k = l

\* The index after the blocks up to place i were published.
Indexed(p, blocks, hashes, first, acc, i) ==
    /\ \A k \in 1 .. Len(blocks) : (k <= first \/ k > i) => acc.blocks[k] = blocks[k]
    /\ \A k \in (first + 1) .. i : acc.pool.hash_of[acc.blocks[k]] = hashes[k]
    /\ \A b \in BlockId : p.hash_of[b] # NoHash => acc.pool.hash_of[b] = p.hash_of[b]
    /\ \A b \in BlockId : acc.pool.hash_of[b] = p.hash_of[b]
          \/ \E k \in (first + 1) .. i : b = blocks[k] /\ acc.pool.hash_of[b] = hashes[k]
    /\ \A b \in BlockId : acc.pool.hash_of[b] = NoHash => acc.pool.refcount[b] = p.refcount[b]
    /\ \A j \in 1 .. Len(acc.old) : \E k \in (first + 1) .. i : acc.old[j] = blocks[k]

\* Publishing one block keeps the account.
LEMMA PublishOneAccounted ==
    ASSUME NEW p, PoolOK(BlockHashes, p), NEW blocks \in Seq(BlockId),
           \A b \in BlockId : p.refcount[b] >= Occ(blocks, b),
           NEW acc, Accounted(p, blocks, acc), NEW i \in 1 .. Len(blocks), NEW h \in BlockHashes
    PROVE  /\ Accounted(p, blocks, PublishOne(acc, i, h))
           /\ acc.blocks[i] \in BlockId /\ acc.pool.refcount[acc.blocks[i]] # 0
<1> DEFINE b0 == acc.blocks[i]
           r == publish(acc.pool, b0, h)
           bs == [acc.blocks EXCEPT ![i] = r.block]
           old == IF r.block = b0 THEN acc.old ELSE Append(acc.old, b0)
           out == PublishOne(acc, i, h)
<1>1. out.pool = r.pool /\ out.blocks = bs /\ out.old = old
  BY DEF PublishOne
<1>2. /\ PoolOK(BlockHashes, acc.pool)
      /\ acc.blocks \in Seq(BlockId) /\ Len(acc.blocks) = Len(blocks) /\ acc.old \in Seq(BlockId)
      /\ b0 \in BlockId /\ i \in 1 .. Len(acc.blocks)
  BY DEF Accounted
<1>3. \A b \in BlockId : /\ acc.pool.refcount[b] =
                               p.refcount[b] - Occ(blocks, b) + Occ(acc.blocks, b) + Occ(acc.old, b)
                         /\ p.refcount[b] \in Nat /\ Occ(blocks, b) \in Nat
                         /\ Occ(acc.blocks, b) \in Nat /\ Occ(acc.old, b) \in Nat
                         /\ p.refcount[b] >= Occ(blocks, b)
  BY <1>2, PoolFields, OccType DEF Accounted, PoolOK
<1>4. acc.pool.refcount[b0] # 0
  <2>1. InList(acc.blocks, b0)
    BY <1>2 DEF InList
  <2>2. Occ(acc.blocks, b0) # 0
    BY <1>2, <2>1, OccType
  <2> HIDE DEF b0
  <2>3. /\ acc.pool.refcount[b0] =
              p.refcount[b0] - Occ(blocks, b0) + Occ(acc.blocks, b0) + Occ(acc.old, b0)
        /\ p.refcount[b0] \in Nat /\ Occ(blocks, b0) \in Nat
        /\ Occ(acc.blocks, b0) \in Nat /\ Occ(acc.old, b0) \in Nat
        /\ p.refcount[b0] >= Occ(blocks, b0)
    BY <1>2, <1>3
  <2> QED
    BY <2>2, <2>3
<1> HIDE DEF b0
<1>5. /\ PoolOK(BlockHashes, r.pool) /\ r.block \in BlockId
      /\ r.block # b0 => \A x \in BlockId : r.pool.refcount[x] = acc.pool.refcount[x] + One(r.block, x)
      /\ r.block = b0 => \A x \in BlockId : r.pool.refcount[x] = acc.pool.refcount[x]
  <2>1. PoolOK(BlockHashes, acc.pool) /\ b0 \in BlockId /\ h \in BlockHashes /\ acc.pool.refcount[b0] # 0
    BY <1>2, <1>4
  <2> DEFINE q == acc.pool
  <2> HIDE DEF q
  <2>2. PoolOK(BlockHashes, q) /\ q.refcount[b0] # 0
    BY <2>1 DEF q
  <2>3. LET u == publish(q, b0, h)
        IN  /\ PoolOK(BlockHashes, u.pool) /\ u.block \in BlockId
            /\ u.block # b0 => \A x \in BlockId : u.pool.refcount[x] = q.refcount[x] + One(u.block, x)
            /\ u.block = b0 => \A x \in BlockId : u.pool.refcount[x] = q.refcount[x]
    <3> DEFINE u == publish(q, b0, h)
    <3>1. /\ PoolOK(BlockHashes, u.pool) /\ u.block \in BlockId /\ u.pool.hash_of[u.block] = h
          /\ u.block # b0 => /\ u.pool.hash_of = q.hash_of
                             /\ \A x \in BlockId : u.pool.refcount[x] = q.refcount[x] + One(u.block, x)
          /\ u.block = b0 => \A x \in BlockId : /\ u.pool.refcount[x] = q.refcount[x]
                                                /\ x # b0 => u.pool.hash_of[x] = q.hash_of[x]
      BY <2>1, <2>2, PublishEach
    <3> HIDE DEF u
    <3> QED
      BY <3>1 DEF u
  <2> QED
    BY <2>3 DEF q
<1> HIDE DEF r
<1>6. /\ bs \in Seq(BlockId) /\ Len(bs) = Len(blocks)
      /\ \A b : Occ(bs, b) = Occ(acc.blocks, b) - One(b0, b) + One(r.block, b)
  <2> DEFINE q == acc.blocks
             y == r.block
  <2>1. q \in Seq(BlockId) /\ i \in 1 .. Len(q) /\ y \in BlockId /\ Len(q) = Len(blocks) /\ q[i] = b0
    BY <1>2, <1>5 DEF b0
  <2> HIDE DEF q, y
  <2>2. [q EXCEPT ![i] = y] \in Seq(BlockId) /\ Len([q EXCEPT ![i] = y]) = Len(blocks)
    BY ONLY <2>1
  <2>3. \A b : Occ([q EXCEPT ![i] = y], b) = Occ(q, b) - One(b0, b) + One(y, b)
    BY ONLY <2>1, OccExcept
  <2> QED
    BY <2>2, <2>3 DEF q, y
<1>7. old \in Seq(BlockId) /\ \A b : Occ(old, b) = IF r.block = b0 THEN Occ(acc.old, b)
                                                                   ELSE Occ(acc.old, b) + One(b0, b)
  BY <1>2, OccAppend
<1> HIDE DEF bs, old
<1>8. ASSUME NEW b \in BlockId
      PROVE  r.pool.refcount[b] = p.refcount[b] - Occ(blocks, b) + Occ(bs, b) + Occ(old, b)
  <2>1. /\ acc.pool.refcount[b] =
              p.refcount[b] - Occ(blocks, b) + Occ(acc.blocks, b) + Occ(acc.old, b)
        /\ p.refcount[b] \in Nat /\ Occ(blocks, b) \in Nat
        /\ Occ(acc.blocks, b) \in Nat /\ Occ(acc.old, b) \in Nat
    BY <1>3
  <2>2. Occ(bs, b) = Occ(acc.blocks, b) - One(b0, b) + One(r.block, b)
    BY <1>6
  <2>3. One(b0, b) \in Nat /\ One(r.block, b) \in Nat
    BY DEF One
  <2>4. CASE r.block = b0
    <3>1. Occ(old, b) = Occ(acc.old, b)
      BY <1>7, <2>4
    <3>3. r.pool.refcount[b] = acc.pool.refcount[b]
      BY <1>5, <2>4
    <3>2. Occ(bs, b) = Occ(acc.blocks, b)
      BY <2>1, <2>2, <2>3, <2>4
    <3> QED
      BY ONLY <2>1, <3>1, <3>2, <3>3
  <2>5. CASE r.block # b0
    <3>1. Occ(old, b) = Occ(acc.old, b) + One(b0, b) /\ r.pool.refcount[b] = acc.pool.refcount[b] + One(r.block, b)
      BY <1>5, <1>7, <2>5
    <3> DEFINE v == One(b0, b)
               w == One(r.block, b)
    <3> HIDE DEF v, w
    <3>2. v \in Nat /\ w \in Nat /\ Occ(old, b) = Occ(acc.old, b) + v
          /\ Occ(bs, b) = Occ(acc.blocks, b) - v + w
          /\ r.pool.refcount[b] = acc.pool.refcount[b] + w
      BY <2>2, <2>3, <3>1 DEF v, w
    <3>3. Occ(bs, b) + Occ(old, b) = Occ(acc.blocks, b) + Occ(acc.old, b) + w
      BY ONLY <2>1, <3>2
    <3>4. Occ(bs, b) \in Int /\ Occ(old, b) \in Int
      BY ONLY <2>1, <3>2
    <3>5. p.refcount[b] - Occ(blocks, b) \in Int
          /\ acc.pool.refcount[b] = (p.refcount[b] - Occ(blocks, b)) + (Occ(acc.blocks, b) + Occ(acc.old, b))
      BY ONLY <2>1
    <3> DEFINE c == p.refcount[b] - Occ(blocks, b)
               x == Occ(acc.blocks, b)
               y == Occ(acc.old, b)
               X == Occ(bs, b)
               Y == Occ(old, b)
               a == acc.pool.refcount[b]
               z == r.pool.refcount[b]
    <3>6. /\ c \in Int /\ x \in Int /\ y \in Int /\ X \in Int /\ Y \in Int /\ w \in Int
          /\ a = c + (x + y) /\ X + Y = x + y + w /\ z = a + w
      BY ONLY <2>1, <3>2, <3>3, <3>4, <3>5
    <3> HIDE DEF c, x, y, X, Y, a, z
    <3>7. z = c + X + Y
      BY ONLY <3>6
    <3> QED
      BY ONLY <3>7 DEF c, X, Y, z
  <2> QED
    BY <2>4, <2>5
<1>9. Accounted(p, blocks, out)
  BY <1>1, <1>5, <1>6, <1>7, <1>8 DEF Accounted
<1> QED
  BY <1>2, <1>4, <1>9 DEF b0

\* Publishing one block more, of a table whose open blocks are its own.
LEMMA PublishOneIndexed ==
    ASSUME NEW p, PoolOK(BlockHashes, p), NEW blocks \in Seq(BlockId),
           \A b \in BlockId : p.refcount[b] >= Occ(blocks, b),
           NEW hashes, NEW first \in Nat, Unpublished(p, blocks, first),
           NEW acc, Accounted(p, blocks, acc), NEW i \in (first + 1) .. Len(blocks),
           \A k \in (first + 1) .. i : hashes[k] \in BlockHashes,
           Indexed(p, blocks, hashes, first, acc, i - 1)
    PROVE  Indexed(p, blocks, hashes, first, PublishOne(acc, i, hashes[i]), i)
<1> DEFINE b0 == blocks[i]
           h == hashes[i]
           q == acc.pool
           r == publish(q, b0, h)
           bs == [acc.blocks EXCEPT ![i] = r.block]
           old == IF r.block = b0 THEN acc.old ELSE Append(acc.old, b0)
           out == PublishOne(acc, i, h)
<1>0. i \in 1 .. Len(blocks) /\ i \in Nat /\ Len(blocks) \in Nat /\ i <= Len(blocks) /\ first < i
  OBVIOUS
<1>1. /\ \A k \in 1 .. Len(blocks) : (k <= first \/ k > i - 1) => acc.blocks[k] = blocks[k]
      /\ \A k \in (first + 1) .. (i - 1) : q.hash_of[acc.blocks[k]] = hashes[k]
      /\ \A b \in BlockId : p.hash_of[b] # NoHash => q.hash_of[b] = p.hash_of[b]
      /\ \A b \in BlockId : q.hash_of[b] = p.hash_of[b]
            \/ \E k \in (first + 1) .. (i - 1) : b = blocks[k] /\ q.hash_of[b] = hashes[k]
      /\ \A b \in BlockId : q.hash_of[b] = NoHash => q.refcount[b] = p.refcount[b]
      /\ \A j \in 1 .. Len(acc.old) : \E k \in (first + 1) .. (i - 1) : acc.old[j] = blocks[k]
  BY DEF Indexed
<1>2. acc.blocks[i] = b0 /\ b0 \in BlockId /\ h \in BlockHashes
  BY <1>0, <1>1
<1>3. q.refcount[b0] # 0 /\ PoolOK(BlockHashes, q)
  <2>1. acc.pool.refcount[acc.blocks[i]] # 0
    BY <1>0, <1>2, PublishOneAccounted
  <2> QED
    BY <1>2, <2>1 DEF Accounted
<1>4. out.pool = r.pool /\ out.blocks = bs /\ out.old = old
  BY <1>2 DEF PublishOne
<1>5. /\ acc.blocks \in Seq(BlockId) /\ Len(acc.blocks) = Len(blocks) /\ acc.old \in Seq(BlockId)
  BY DEF Accounted
<1>6. p.hash_of[b0] = NoHash /\ q.hash_of[b0] = NoHash
  <2>1. p.hash_of[b0] = NoHash
    BY <1>0 DEF Unpublished
  <2>2. ASSUME NEW k \in (first + 1) .. (i - 1), b0 = blocks[k] PROVE FALSE
    BY <1>0, <2>2 DEF Unpublished
  <2> QED
    BY <1>1, <1>2, <2>1, <2>2
<1>7. q.refcount \in [BlockId -> Nat]
  BY <1>3, PoolFields DEF PoolOK
<1> HIDE DEF q, b0, h
<1>8. /\ PoolOK(BlockHashes, r.pool) /\ r.block \in BlockId /\ r.pool.hash_of[r.block] = h
      /\ r.block # b0 => /\ r.pool.hash_of = q.hash_of
                         /\ \A x \in BlockId : r.pool.refcount[x] = q.refcount[x] + One(r.block, x)
      /\ r.block = b0 => \A x \in BlockId : /\ r.pool.refcount[x] = q.refcount[x]
                                            /\ x # b0 => r.pool.hash_of[x] = q.hash_of[x]
  BY <1>2, <1>3, PublishEach
<1> HIDE DEF r
<1>9. \A x \in BlockId : x # b0 => r.pool.hash_of[x] = q.hash_of[x]
  BY <1>8
<1>10. /\ bs[i] = r.block
       /\ \A k \in 1 .. Len(blocks) : k # i => bs[k] = acc.blocks[k]
  BY <1>0, <1>5
<1>11. \A k \in (first + 1) .. i : hashes[k] # NoHash
  BY HashesReal
<1> HIDE DEF bs
<1>12. \A k \in 1 .. Len(blocks) : (k <= first \/ k > i) => bs[k] = blocks[k]
  BY <1>0, <1>1, <1>10
<1>13. ASSUME NEW k \in (first + 1) .. i PROVE r.pool.hash_of[bs[k]] = hashes[k]
  <2>1. CASE k = i
    BY <1>8, <1>10, <2>1 DEF h
  <2>2. CASE k # i
    <3>1. k \in (first + 1) .. (i - 1) /\ k \in 1 .. Len(blocks)
      BY <1>0, <2>2
    <3>2. q.hash_of[acc.blocks[k]] = hashes[k] /\ bs[k] = acc.blocks[k] /\ acc.blocks[k] \in BlockId
      BY <1>1, <1>5, <1>10, <2>2, <3>1
    <3>3. acc.blocks[k] # b0
      BY <1>6, <1>11, <3>2
    <3> QED
      BY <1>9, <3>2, <3>3
  <2> QED
    BY <2>1, <2>2
<1>14. \A b \in BlockId : p.hash_of[b] # NoHash => r.pool.hash_of[b] = p.hash_of[b]
  BY <1>1, <1>6, <1>9
<1>15. ASSUME NEW b \in BlockId
       PROVE  r.pool.hash_of[b] = p.hash_of[b]
                \/ \E k \in (first + 1) .. i : b = blocks[k] /\ r.pool.hash_of[b] = hashes[k]
  <2>1. CASE b = b0
    <3>1. CASE r.block = b0
      BY <1>0, <1>8, <2>1, <3>1 DEF b0, h
    <3>2. CASE r.block # b0
      BY <1>6, <1>8, <2>1, <3>2
    <3> QED
      BY <3>1, <3>2
  <2>2. CASE b # b0
    <3>1. r.pool.hash_of[b] = q.hash_of[b]
      BY <1>9, <2>2
    <3>2. CASE q.hash_of[b] = p.hash_of[b]
      BY <3>1, <3>2
    <3>3. CASE q.hash_of[b] # p.hash_of[b]
      <4>1. PICK k \in (first + 1) .. (i - 1) : b = blocks[k] /\ q.hash_of[b] = hashes[k]
        BY <1>1, <3>3
      <4> QED
        BY <1>0, <3>1, <4>1
    <3> QED
      BY <3>2, <3>3
  <2> QED
    BY <2>1, <2>2
<1>16. ASSUME NEW b \in BlockId, r.pool.hash_of[b] = NoHash PROVE r.pool.refcount[b] = p.refcount[b]
  <2>1. h # NoHash
    BY <1>0, <1>11 DEF h
  <2>2. b # r.block
    BY <1>8, <1>16, <2>1
  <2>3. q.hash_of[b] = NoHash
    BY <1>6, <1>9, <1>16
  <2>4. r.pool.refcount[b] = q.refcount[b]
    <3>1. One(r.block, b) = 0
      BY <2>2 DEF One
    <3> QED
      BY <1>7, <1>8, <3>1
  <2> QED
    BY <1>1, <2>3, <2>4
<1>17. ASSUME NEW j \in 1 .. Len(old) PROVE \E k \in (first + 1) .. i : old[j] = blocks[k]
  <2>1. CASE r.block = b0
    BY <1>0, <1>1, <2>1
  <2>2. CASE r.block # b0
    <3>1. CASE j = Len(acc.old) + 1
      BY <1>0, <1>2, <1>5, <2>2, <3>1 DEF b0
    <3>2. CASE j # Len(acc.old) + 1
      <4>1. j \in 1 .. Len(acc.old) /\ old[j] = acc.old[j]
        BY <1>2, <1>5, <2>2, <3>2
      <4> QED
        BY <1>0, <1>1, <4>1
    <3> QED
      BY <3>1, <3>2
  <2> QED
    BY <2>1, <2>2
<1> HIDE DEF old, out
<1> QED
  BY <1>4, <1>12, <1>13, <1>14, <1>15, <1>16, <1>17 DEF Indexed, out, h

\* The account and the index after the blocks from place first + 1 up to last.
Published(p, blocks, hashes, first, acc, i) ==
    /\ Accounted(p, blocks, acc)
    /\ Unpublished(p, blocks, first) => Indexed(p, blocks, hashes, first, acc, i)

\* Nothing published yet.
LEMMA PublishNothing ==
    ASSUME NEW p, PoolOK(BlockHashes, p), NEW blocks \in Seq(BlockId), NEW hashes, NEW first \in Nat
    PROVE  Published(p, blocks, hashes, first, [pool |-> p, blocks |-> blocks, old |-> <<>>], first)
<1> DEFINE acc == [pool |-> p, blocks |-> blocks, old |-> <<>>]
<1>1. acc.pool = p /\ acc.blocks = blocks /\ acc.old = <<>> /\ <<>> \in Seq(BlockId) /\ Len(<<>>) = 0
  OBVIOUS
<1> HIDE DEF acc
<1>2. ASSUME NEW b \in BlockId
      PROVE  p.refcount[b] = p.refcount[b] - Occ(blocks, b) + Occ(blocks, b) + Occ(<<>>, b)
  <2>1. p.refcount[b] \in Nat /\ Occ(blocks, b) \in Nat /\ Occ(<<>>, b) = 0
    BY PoolFields, OccType, OccPrefix DEF PoolOK
  <2> QED
    BY ONLY <2>1
<1>3. Accounted(p, blocks, acc)
  BY <1>1, <1>2 DEF Accounted
<1>4. Indexed(p, blocks, hashes, first, acc, first)
  BY <1>1 DEF Indexed
<1> QED
  BY <1>3, <1>4 DEF Published, acc

\* publish_full_blocks, before the duplicates are freed.
LEMMA PublishBlocksOK ==
    ASSUME NEW p, PoolOK(BlockHashes, p), NEW blocks \in Seq(BlockId),
           \A b \in BlockId : p.refcount[b] >= Occ(blocks, b),
           NEW hashes, NEW first \in Nat, NEW last \in Nat, last <= Len(blocks),
           \A k \in (first + 1) .. last : hashes[k] \in BlockHashes
    PROVE  /\ last > first =>
                Published(p, blocks, hashes, first, PublishBlocks(p, blocks, hashes, first, last), last)
           /\ ~(last > first) =>
                Published(p, blocks, hashes, first, PublishBlocks(p, blocks, hashes, first, last), first)
<1> DEFINE none == [pool |-> p, blocks |-> blocks, old |-> <<>>]
           Good(acc, i) == Published(p, blocks, hashes, first, acc, i)
<1>1. Good(none, first)
  BY PublishNothing
<1>2. CASE ~(last > first)
  BY <1>1, <1>2 DEF PublishBlocks
<1>3. CASE last > first
  <2> DEFINE after == CHOOSE g : PublishedUpTo(g, p, blocks, hashes, first, last)
             m == last - first
  <2>0. m \in Nat /\ last = first + m
    BY <1>3
  <2>1. PublishedUpTo(after, p, blocks, hashes, first, last)
    <3>1. \E g : PublishedUpTo(g, p, blocks, hashes, first, first + m)
      BY <2>0, PublishedExists
    <3> QED
      BY <2>0, <3>1
  <2>2. PublishBlocks(p, blocks, hashes, first, last) = after[last]
    BY <1>3 DEF PublishBlocks, PublishedUpTo
  <2> HIDE DEF after, none, Good
  <2>3. /\ after[first] = none
        /\ \A i \in (first + 1) .. last : after[i] = PublishOne(after[i - 1], i, hashes[i])
    <3> DEFINE F(i) == PublishOne(after[i - 1], i, hashes[i])
    <3>1. after = [i \in first .. last |-> IF i = first THEN none ELSE F(i)]
      BY ONLY <2>1, Zenon DEF PublishedUpTo, none
    <3>2. first \in first .. last /\ \A i \in (first + 1) .. last : i \in first .. last /\ i # first
      BY <1>3
    <3> HIDE DEF F
    <3>3. after[first] = none /\ \A i \in (first + 1) .. last : after[i] = F(i)
      BY ONLY <3>1, <3>2
    <3> QED
      BY <3>3 DEF F
  <2> DEFINE P == {n \in Nat : n <= m => Good(after[first + n], first + n)}
  <2>4. 0 \in P
    BY <1>1, <2>3
  <2>5. ASSUME NEW n \in Nat, n \in P
        PROVE  n + 1 \in P
    <3> SUFFICES ASSUME n + 1 <= m PROVE Good(after[first + (n + 1)], first + (n + 1))
      OBVIOUS
    <3> DEFINE i == first + (n + 1)
               acc == after[first + n]
    <3>1. i \in (first + 1) .. last /\ i - 1 = first + n /\ i \in 1 .. Len(blocks) /\ i \in (first + 1) .. Len(blocks)
      BY <2>0
    <3>2. after[i] = PublishOne(acc, i, hashes[i]) /\ Good(acc, i - 1)
      BY <2>0, <2>3, <2>5, <3>1
    <3>3. hashes[i] \in BlockHashes /\ \A k \in (first + 1) .. i : hashes[k] \in BlockHashes
      BY <3>1
    <3> HIDE DEF i, acc
    <3>4. Accounted(p, blocks, acc)
      BY <3>2 DEF Good, Published
    <3>5. Accounted(p, blocks, PublishOne(acc, i, hashes[i]))
      BY <3>1, <3>3, <3>4, PublishOneAccounted
    <3>6. Unpublished(p, blocks, first) => Indexed(p, blocks, hashes, first, PublishOne(acc, i, hashes[i]), i)
      BY <3>1, <3>2, <3>3, <3>4, PublishOneIndexed DEF Good, Published
    <3>7. Good(after[i], i)
      BY <3>2, <3>5, <3>6 DEF Good, Published
    <3> QED
      BY <3>7 DEF i
  <2> HIDE DEF P
  <2>6. Nat \subseteq P
    BY <2>4, <2>5, Induction
  <2>7. Good(after[first + m], first + m)
    BY <2>0, <2>6 DEF P
  <2>8. Good(after[last], last)
    BY <2>0, <2>7
  <2> QED
    BY <1>3, <2>2, <2>8 DEF Good
<1> QED
  BY <1>2, <1>3

----------------------------------------------------------------------------
(***************************************************************************)
(* The books: the references the pool counts are those of the block tables *)
(* and the lost ones.                                                      *)
(***************************************************************************)
Books(ss, p, lost) ==
    /\ PoolOK(BlockHashes, p)
    /\ Tabled(ss, DOMAIN ss)
    /\ lost \in [BlockId -> Nat]
    /\ \A b \in BlockId : p.refcount[b] = lost[b] + Count(ss, DOMAIN ss, b)

\* r is p once a sequence has exchanged its blocks u for v.
Exchanged(p, r, u, v) ==
    /\ PoolOK(BlockHashes, r)
    /\ \A b \in BlockId : r.refcount[b] = p.refcount[b] - Occ(u, b) + Occ(v, b)

\* Every table's references are in the pool.
LEMMA BooksHold ==
    ASSUME NEW ss, NEW p, NEW lost, Books(ss, p, lost), NEW T \in SUBSET (DOMAIN ss)
    PROVE  /\ Tabled(ss, T)
           /\ \A b \in BlockId : p.refcount[b] >= Count(ss, T, b)
           /\ \A i \in T : /\ ss[i].blocks \in Seq(BlockId)
                           /\ \A b \in BlockId : p.refcount[b] >= Occ(ss[i].blocks, b)
<1> DEFINE D == DOMAIN ss
<1> HIDE DEF D
<1>0. Tabled(ss, D) /\ T \in SUBSET D /\ \A b \in BlockId : p.refcount[b] = lost[b] + Count(ss, D, b) /\ lost[b] \in Nat
  BY DEF Books, D
<1>1. Tabled(ss, T)
  BY <1>0, CountSplit
<1>2. ASSUME NEW b \in BlockId PROVE p.refcount[b] >= Count(ss, T, b)
  <2>1. /\ Count(ss, D, b) = Count(ss, D \ T, b) + Count(ss, T, b)
        /\ Count(ss, T, b) \in Nat /\ Count(ss, D \ T, b) \in Nat
    BY <1>0, CountSplit, ZenonT(40)
  <2> QED
    BY <1>0, <2>1
<1>3. ASSUME NEW i \in T, NEW b \in BlockId PROVE p.refcount[b] >= Occ(ss[i].blocks, b)
  <2>1. /\ Count(ss, D, b) = Count(ss, D \ {i}, b) + Occ(ss[i].blocks, b)
        /\ Count(ss, D \ {i}, b) \in Nat /\ Occ(ss[i].blocks, b) \in Nat
    BY <1>0, CountBut
  <2> QED
    BY <1>0, <2>1
<1>4. \A i \in T : ss[i].blocks \in Seq(BlockId)
  BY <1>1 DEF Tabled
<1> QED
  BY <1>1, <1>2, <1>3, <1>4

\* A step that leaves the tables alone.
LEMMA BooksSame ==
    ASSUME NEW ss, NEW p, NEW lost, Books(ss, p, lost),
           NEW tt, DOMAIN tt = DOMAIN ss, \A i \in DOMAIN ss : tt[i].blocks = ss[i].blocks,
           NEW r, PoolOK(BlockHashes, r), \A b \in BlockId : r.refcount[b] = p.refcount[b]
    PROVE  Books(tt, r, lost)
<1> DEFINE D == DOMAIN ss
<1>1. Tabled(tt, D)
  BY DEF Books, Tabled
<1>2. \A b \in BlockId : Count(tt, D, b) = Count(ss, D, b)
  BY CountSame
<1> QED
  BY <1>1, <1>2 DEF Books

\* One sequence exchanges its blocks.
LEMMA BooksChange ==
    ASSUME NEW ss, NEW p, NEW lost, Books(ss, p, lost), NEW id \in DOMAIN ss,
           NEW t, t.blocks \in Seq(BlockId), NEW r, Exchanged(p, r, ss[id].blocks, t.blocks)
    PROVE  Books([ss EXCEPT ![id] = t], r, lost)
<1> DEFINE D == DOMAIN ss
           tt == [ss EXCEPT ![id] = t]
<1>0. Tabled(ss, D) /\ lost \in [BlockId -> Nat]
  BY DEF Books
<1>1. DOMAIN tt = D /\ tt[id] = t /\ \A k \in D \ {id} : tt[k] = ss[k]
  OBVIOUS
<1>5. id \in D
  OBVIOUS
<1> HIDE DEF tt, D
<1>2. ASSUME NEW b \in BlockId
      PROVE  /\ Tabled(tt, D)
             /\ Count(tt, D, b) = Count(ss, D, b) - Occ(ss[id].blocks, b) + Occ(t.blocks, b)
             /\ Count(ss, D, b) \in Nat /\ Occ(ss[id].blocks, b) \in Nat /\ Occ(t.blocks, b) \in Nat
  <2>1. tt[id].blocks \in Seq(BlockId) /\ \A k \in D \ {id} : tt[k].blocks = ss[k].blocks
    BY <1>1
  <2>2. Tabled(tt, D)
    BY <1>0, <1>1, <2>1 DEF Tabled
  <2>3. Count(tt, D \ {id}, b) = Count(ss, D \ {id}, b)
    BY ONLY <2>1, CountSame
  <2>4. /\ Count(ss, D, b) = Count(ss, D \ {id}, b) + Occ(ss[id].blocks, b)
        /\ Count(ss, D \ {id}, b) \in Nat /\ Occ(ss[id].blocks, b) \in Nat
    BY ONLY <1>0, <1>5, CountBut
  <2>5. Count(tt, D, b) = Count(tt, D \ {id}, b) + Occ(tt[id].blocks, b) /\ Occ(tt[id].blocks, b) \in Nat
    BY ONLY <1>5, <2>2, CountBut
  <2> QED
    BY <1>1, <2>2, <2>3, <2>4, <2>5
<1>3. ASSUME NEW b \in BlockId PROVE r.refcount[b] = lost[b] + Count(tt, D, b)
  <2> DEFINE x == p.refcount[b]
             y == Occ(ss[id].blocks, b)
             z == Occ(t.blocks, b)
             c == Count(ss, D, b)
  <2>1. /\ r.refcount[b] = x - y + z /\ x = lost[b] + c /\ Count(tt, D, b) = c - y + z
        /\ lost[b] \in Nat /\ c \in Nat /\ y \in Nat /\ z \in Nat
    BY <1>0, <1>2 DEF Books, Exchanged, D
  <2> HIDE DEF x, y, z, c
  <2>2. r.refcount[b] = lost[b] + c - y + z
    BY ONLY <2>1
  <2>3. lost[b] + (c - y + z) = lost[b] + c - y + z
    BY ONLY <2>1
  <2> QED
    BY ONLY <2>1, <2>2, <2>3
<1>4. Tabled(tt, D)
  <2>1. 0 \in BlockId
    BY PoolAssumption DEF BlockId
  <2> QED
    BY <1>2, <2>1
<1> QED
  BY <1>0, <1>1, <1>3, <1>4 DEF Books, Exchanged, tt, D

\* A new sequence, with references taken for it.
LEMMA BooksNew ==
    ASSUME NEW ss, NEW p, NEW lost, Books(ss, p, lost), NEW n, n \notin DOMAIN ss,
           NEW t, t.blocks \in Seq(BlockId), NEW r, PoolOK(BlockHashes, r),
           \A b \in BlockId : r.refcount[b] = p.refcount[b] + Occ(t.blocks, b)
    PROVE  Books(Bind(ss, n, t), r, lost)
<1> DEFINE D == DOMAIN ss
           tt == Bind(ss, n, t)
<1>0. Tabled(ss, D) /\ lost \in [BlockId -> Nat]
  BY DEF Books
<1>1. DOMAIN tt = D \cup {n} /\ tt[n] = t /\ \A k \in D : tt[k] = ss[k]
  BY DEF Bind
<1> HIDE DEF tt
<1>2. Tabled(tt, D) /\ Tabled(tt, {n}) /\ D \cap {n} = {}
  BY <1>0, <1>1, FS_Singleton DEF Tabled
<1>3. Tabled(tt, D \cup {n})
  BY <1>2, CountUnion
<1>4. ASSUME NEW b \in BlockId PROVE r.refcount[b] = lost[b] + Count(tt, D \cup {n}, b)
  <2>1. Count(tt, D \cup {n}, b) = Count(tt, D, b) + Count(tt, {n}, b)
    <3> DEFINE U == D \cup {n}
    <3>1. Tabled(tt, U) /\ n \in U /\ U \ {n} = D /\ tt[n].blocks \in Seq(BlockId)
      BY <1>1, <1>2, <1>3
    <3> HIDE DEF D, U
    <3>2. Count(tt, U, b) = Count(tt, U \ {n}, b) + Occ(tt[n].blocks, b)
      BY ONLY <3>1, CountBut
    <3>3. Count(tt, {n}, b) = Occ(tt[n].blocks, b)
      BY ONLY <3>1, CountOne
    <3> QED
      BY <3>1, <3>2, <3>3 DEF U
  <2>2. Count(tt, D, b) = Count(ss, D, b) /\ Count(ss, D, b) \in Nat
    BY <1>0, <1>1, CountSame, CountType
  <2>3. Count(tt, {n}, b) = Occ(t.blocks, b) /\ Occ(t.blocks, b) \in Nat
    BY <1>1, CountOne, OccType
  <2>4. r.refcount[b] = p.refcount[b] + Occ(t.blocks, b) /\ p.refcount[b] = lost[b] + Count(ss, D, b) /\ lost[b] \in Nat
    BY <1>0 DEF Books
  <2> QED
    BY <2>1, <2>2, <2>3, <2>4
<1> QED
  BY <1>0, <1>1, <1>3, <1>4 DEF Books, tt

\* The sequences of T lose their blocks, which are given back, and some are
\* forgotten.
LEMMA BooksGone ==
    ASSUME NEW ss, NEW p, NEW lost, Books(ss, p, lost), NEW T \in SUBSET (DOMAIN ss), NEW r,
           GivenBack(p, r, ss, T),
           NEW tt, \A i \in DOMAIN tt : i \in DOMAIN ss,
           \A i \in DOMAIN ss : i \in DOMAIN tt \/ i \in T \/ ss[i].blocks = <<>>,
           \A i \in DOMAIN tt : tt[i].blocks = IF i \in T THEN <<>> ELSE ss[i].blocks
    PROVE  Books(tt, r, lost)
<1> DEFINE D == DOMAIN ss
           E == DOMAIN tt
           gone == D \ E
           F == D \ T
<1>0. /\ Tabled(ss, D) /\ lost \in [BlockId -> Nat] /\ T \in SUBSET D
      /\ \A i \in E : tt[i].blocks = IF i \in T THEN <<>> ELSE ss[i].blocks
  BY DEF Books
<1>1. Tabled(tt, E)
  <2>1. IsFiniteSet(E)
    BY <1>0, FS_Subset DEF Tabled
  <2>2. ASSUME NEW i \in E PROVE tt[i].blocks \in Seq(BlockId)
    <3>1. ss[i].blocks \in Seq(BlockId) /\ <<>> \in Seq(BlockId)
      BY <1>0 DEF Tabled
    <3> QED
      BY <1>0, <3>1
  <2> QED
    BY <2>1, <2>2 DEF Tabled
<1>2. ASSUME NEW b \in BlockId PROVE Count(tt, E, b) = Count(ss, F, b)
  <2>1. Tabled(ss, F)
    BY <1>0, CountSplit
  <2>2. /\ Count(ss, F, b) = Count(ss, F \ gone, b) + Count(ss, F \cap gone, b)
        /\ Count(ss, F \ gone, b) \in Nat
    <3>1. F \cap gone \in SUBSET F /\ F \ (F \cap gone) = F \ gone
      OBVIOUS
    <3> DEFINE G == F \cap gone
               H == F \ G
    <3> HIDE DEF F
    <3>2. Tabled(ss, F) /\ G \in SUBSET F /\ H = F \ gone
      BY <2>1, <3>1
    <3> HIDE DEF G
    <3>3. Count(ss, F, b) = Count(ss, H, b) + Count(ss, G, b) /\ Count(ss, H, b) \in Nat
      BY ONLY <3>2, CountSplit
    <3> HIDE DEF H
    <3> QED
      BY <3>2, <3>3 DEF G
  <2>3. Count(ss, F \cap gone, b) = 0
    BY CountEmpty
  <2>4. /\ Count(tt, E, b) = Count(tt, E \ T, b) + Count(tt, E \cap T, b)
        /\ Count(tt, E \ T, b) \in Nat
    <3>1. E \cap T \in SUBSET E /\ E \ (E \cap T) = E \ T
      OBVIOUS
    <3> DEFINE G == E \cap T
               H == E \ G
    <3> HIDE DEF E
    <3>2. H = E \ T
      BY <3>1
    <3>4. Tabled(tt, E) /\ G \in SUBSET E
      BY <1>1, <3>1
    <3> HIDE DEF G
    <3>3. Count(tt, E, b) = Count(tt, H, b) + Count(tt, G, b) /\ Count(tt, H, b) \in Nat
      BY ONLY <3>4, CountSplit
    <3> HIDE DEF H
    <3> QED
      BY <3>2, <3>3 DEF G
  <2>5. Count(tt, E \cap T, b) = 0
    BY CountEmpty
  <2>6. E \ T = F \ gone
    OBVIOUS
  <2>7. Count(tt, E \ T, b) = Count(ss, E \ T, b)
    BY CountSame
  <2> HIDE DEF E, F
  <2> QED
    BY <2>2, <2>3, <2>4, <2>5, <2>6, <2>7
<1>3. ASSUME NEW b \in BlockId PROVE r.refcount[b] = lost[b] + Count(tt, E, b)
  <2>1. Count(ss, D, b) = Count(ss, F, b) + Count(ss, T, b) /\ Count(ss, F, b) \in Nat /\ Count(ss, T, b) \in Nat
    <3> HIDE DEF D
    <3>1. /\ Count(ss, D, b) = Count(ss, D \ T, b) + Count(ss, T, b)
          /\ Count(ss, T, b) \in Nat /\ Count(ss, D \ T, b) \in Nat
      BY ONLY <1>0, CountSplit, ZenonT(40)
    <3> QED
      BY <3>1
  <2>2. r.refcount[b] = p.refcount[b] - Count(ss, T, b) /\ p.refcount[b] = lost[b] + Count(ss, D, b) /\ lost[b] \in Nat
    BY <1>0 DEF Books, GivenBack
  <2>3. Count(tt, E, b) = Count(ss, F, b)
    BY <1>2
  <2> HIDE DEF D, E, F
  <2> QED
    BY ONLY <2>1, <2>2, <2>3
<1> QED
  BY <1>0, <1>1, <1>3 DEF Books, GivenBack

----------------------------------------------------------------------------
(***************************************************************************)
(* What the operations on one sequence exchange.                           *)
(***************************************************************************)

\* Blocks taken, and added to a table.
LEMMA TakenExchange ==
    ASSUME NEW p, PoolOK(BlockHashes, p), NEW u \in Seq(BlockId), NEW q, NEW r,
           Taken(BlockHashes, p, r, q)
    PROVE  u \o q \in Seq(BlockId) /\ Exchanged(p, r, u, u \o q)
<1>1. q \in Seq(BlockId) /\ PoolOK(BlockHashes, r)
  BY DEF Taken
<1>2. ASSUME NEW b \in BlockId PROVE r.refcount[b] = p.refcount[b] - Occ(u, b) + Occ(u \o q, b)
  <2>1. r.refcount[b] = p.refcount[b] + Occ(q, b) /\ p.refcount[b] \in Nat
    BY PoolFields DEF Taken, PoolOK
  <2>2. Occ(u, b) \in Nat /\ Occ(q, b) \in Nat
    BY <1>1, OccType
  <2>3. Occ(u \o q, b) = Occ(u, b) + Occ(q, b)
    BY <1>1, OccConcat
  <2> QED
    BY ONLY <2>1, <2>2, <2>3
<1>3. u \o q \in Seq(BlockId)
  BY <1>1
<1> QED
  BY <1>1, <1>2, <1>3 DEF Exchanged

\* Blocks taken, and given back with the table they were taken for.
LEMMA ReturnExchange ==
    ASSUME NEW p, PoolOK(BlockHashes, p), NEW u \in Seq(BlockId), NEW q, NEW r,
           \A b \in BlockId : p.refcount[b] >= Occ(u, b),
           Taken(BlockHashes, p, r, q)
    PROVE  /\ Exchanged(p, free_all(r, u \o q), u, <<>>)
           /\ free_all(r, u \o q).hash_of = r.hash_of
<1> DEFINE v == u \o q
           f == free_all(r, v)
<1>1. q \in Seq(BlockId) /\ PoolOK(BlockHashes, r) /\ v \in Seq(BlockId)
  BY DEF Taken
<1>2. ASSUME NEW b \in BlockId
      PROVE  /\ r.refcount[b] >= Occ(v, b)
             /\ r.refcount[b] - Occ(v, b) = p.refcount[b] - Occ(u, b) + Occ(<<>>, b)
  <2>1. r.refcount[b] = p.refcount[b] + Occ(q, b) /\ p.refcount[b] \in Nat /\ p.refcount[b] >= Occ(u, b)
    BY PoolFields DEF Taken, PoolOK
  <2>2. Occ(u, b) \in Nat /\ Occ(q, b) \in Nat /\ Occ(<<>>, b) = 0
    BY <1>1, OccType, OccPrefix
  <2>3. Occ(v, b) = Occ(u, b) + Occ(q, b)
    BY <1>1, OccConcat
  <2> HIDE DEF v
  <2> QED
    BY ONLY <2>1, <2>2, <2>3
<1> HIDE DEF v
<1>3. /\ PoolOK(BlockHashes, f) /\ f.hash_of = r.hash_of
      /\ \A b \in BlockId : f.refcount[b] = r.refcount[b] - Occ(v, b)
  BY <1>1, <1>2, FreeAllOK
<1> HIDE DEF f
<1> QED
  BY <1>2, <1>3 DEF Exchanged, f, v

\* try_extend, and preempt when it fails.
LEMMA PushExchange ==
    ASSUME NEW ss, NEW p, PoolOK(BlockHashes, p), NEW id, NEW q \in Nat, NEW run, NEW wait,
           PushOrPreempt(ss, p, id, q, run, wait), DOMAIN ss[id] = Fields, SeqOK(ss[id]), Active(ss[id]),
           \A b \in BlockId : p.refcount[b] >= Occ(ss[id].blocks, b)
    PROVE  LET s == ss[id]
           IN  \/ \E u : /\ Taken(BlockHashes, p, pool', u)
                         /\ seqs' = [ss EXCEPT ![id] = [s EXCEPT !.blocks = s.blocks \o u]]
                         /\ Len(s.blocks) + Len(u) >= blocks_for(s.num_computed + q)
                         /\ plan' = Append(plan, [id |-> id, start |-> s.num_computed, q |-> q,
                                                  samples |-> s.num_computed + q >= total_len(s)])
                         /\ budget' = budget - q
                         /\ phase' = IF s.num_computed + q > total_len(s) THEN "panicked" ELSE phase
                         /\ running' = run
               \/ /\ seqs' = [ss EXCEPT ![id] = reset_for_recompute(s)]
                  /\ Exchanged(p, pool', s.blocks, <<>>)
                  /\ \A b \in BlockId : p.refcount[b] > 0 => pool'.hash_of[b] = p.hash_of[b]
                  /\ \A b \in BlockId : pool'.hash_of[b] \in {p.hash_of[b], NoHash}
                  /\ plan' = plan /\ budget' = budget /\ phase' = phase
                  /\ running' = Without(run, {id})
<1> DEFINE s == ss[id]
           need == blocks_for(s.num_computed + q)
           want == need - Len(s.blocks)
           a == AllocateMany(p, want)
           v == s.blocks \o a.blocks
           ext == [s EXCEPT !.blocks = v]
<1>1. s.num_computed \in Nat /\ s.blocks \in Seq(BlockId) /\ BlockSize \in Nat /\ BlockSize > 0 /\ DOMAIN s = Fields
  BY PoolAssumption DEF SeqOK
<1>2. need \in Nat /\ want \in Int
  <2>1. s.num_computed + q + BlockSize - 1 \in Nat /\ Len(s.blocks) \in Nat
    BY <1>1
  <2>2. (s.num_computed + q + BlockSize - 1) \div BlockSize \in Nat
    BY <1>1, <2>1, DivFacts
  <2> QED
    BY <2>1, <2>2 DEF blocks_for
<1> HIDE DEF want
<1>3. Taken(BlockHashes, p, a.pool, a.blocks)
  BY <1>2, AllocateManyOK
<1> HIDE DEF a
<1>4. a.blocks \in Seq(BlockId) /\ Len(v) = Len(s.blocks) + Len(a.blocks)
  BY <1>1, <1>3 DEF Taken
<1>5. ext.blocks = v
  BY <1>1 DEF Fields
<1>6. IF Len(ext.blocks) >= need
      THEN /\ pool' = a.pool
           /\ seqs' = [ss EXCEPT ![id] = ext]
           /\ running' = run
           /\ plan' = Append(plan, [id |-> id, start |-> s.num_computed, q |-> q,
                                    samples |-> s.num_computed + q >= total_len(s)])
           /\ budget' = budget - q
           /\ phase' = IF s.num_computed + q > total_len(s) THEN "panicked" ELSE phase
      ELSE /\ pool' = free_all(a.pool, ext.blocks)
           /\ seqs' = [ss EXCEPT ![id] = reset_for_recompute(s)]
           /\ running' = Without(run, {id})
           /\ UNCHANGED <<plan, budget, phase>>
  BY DEF PushOrPreempt, a, want
<1>7. CASE Len(ext.blocks) >= need
  BY <1>3, <1>4, <1>5, <1>6, <1>7
<1>8. CASE ~(Len(ext.blocks) >= need)
  <2>1. pool' = free_all(a.pool, v)
    BY <1>5, <1>6, <1>8
  <2>2. Exchanged(p, pool', s.blocks, <<>>) /\ pool'.hash_of = a.pool.hash_of
    BY <1>1, <1>3, <2>1, ReturnExchange
  <2>3. ASSUME NEW b \in BlockId, p.refcount[b] > 0 PROVE a.pool.hash_of[b] = p.hash_of[b]
    <3>1. ~InList(a.blocks, b)
      BY <1>3, <2>3 DEF Taken
    <3> QED
      BY <1>3, <3>1 DEF Taken
  <2>4. \A b \in BlockId : a.pool.hash_of[b] \in {p.hash_of[b], NoHash}
    BY <1>3 DEF Taken
  <2> QED
    BY <1>6, <1>8, <2>2, <2>3, <2>4
<1> QED
  BY <1>7, <1>8

\* publish_full_blocks: done is the table with the canonical blocks swapped in,
\* and the duplicates it no longer has are freed.
LEMMA PublishExchange ==
    ASSUME PoolOK(BlockHashes, pool), NEW s, DOMAIN s = Fields, SeqOK(s),
           s.num_computed <= Len(s.tokens),
           \A b \in BlockId : pool.refcount[b] >= Occ(s.blocks, b)
    PROVE  LET full   == s.num_computed \div BlockSize
               hashes == hash_block_chain(s.ns, SubSeq(s.tokens, 1, full * BlockSize))
               first  == s.num_cached_blocks
               last   == SmallerOf(full, Len(s.blocks))
               done   == PublishBlocks(pool, s.blocks, hashes, first, last)
               r      == publish_full_blocks(s)
           IN  /\ full \in Nat /\ last \in Nat /\ last <= full /\ last <= Len(s.blocks)
               /\ \A k \in 1 .. full : hashes[k] = <<s.ns, SubSeq(s.tokens, 1, k * BlockSize)>>
               /\ last > first => Published(pool, s.blocks, hashes, first, done, last)
               /\ ~(last > first) => Published(pool, s.blocks, hashes, first, done, first)
               /\ Exchanged(pool, r.pool, s.blocks, done.blocks)
               /\ r.pool.hash_of = done.pool.hash_of
               /\ \A b \in BlockId : r.pool.refcount[b] = done.pool.refcount[b] - Occ(done.old, b)
               /\ done.blocks \in Seq(BlockId) /\ Len(done.blocks) = Len(s.blocks)
               /\ r.seq = [s EXCEPT !.blocks = done.blocks, !.num_cached_blocks = full]
               /\ SeqOK(r.seq)
<1> DEFINE full == s.num_computed \div BlockSize
           hashes == hash_block_chain(s.ns, SubSeq(s.tokens, 1, full * BlockSize))
           first == s.num_cached_blocks
           last == SmallerOf(full, Len(s.blocks))
           done == PublishBlocks(pool, s.blocks, hashes, first, last)
           r == publish_full_blocks(s)
           f == free_all(done.pool, done.old)
           e == [s EXCEPT !.blocks = done.blocks, !.num_cached_blocks = full]
<1>1. /\ s.blocks \in Seq(BlockId) /\ s.tokens \in Seq(Tokens) /\ s.ns \in Tenants
      /\ s.num_computed \in Nat /\ first \in Nat /\ BlockSize \in Nat /\ BlockSize > 0
      /\ Len(s.blocks) \in Nat /\ Len(s.tokens) \in Nat
  BY PoolAssumption DEF SeqOK
<1>2. /\ full \in Nat /\ full * BlockSize \in Nat /\ full * BlockSize <= s.num_computed
  BY <1>1, DivFacts
<1>3. full * BlockSize \in 0 .. Len(s.tokens)
  BY <1>1, <1>2
<1>4. (full * BlockSize) \div BlockSize = full
  <2> DEFINE n == full * BlockSize
             k == n \div BlockSize
  <2>1. n \in Nat /\ k \in Nat /\ k * BlockSize <= n
    BY <1>1, <1>2, DivFacts
  <2> HIDE DEF full
  <2>2. full <= k
    BY <1>1, <1>2, <2>1, MulDiv
  <2>3. k <= full
    <3>1. CASE k > full
      <4>1. full + 1 \in Nat /\ full + 1 <= k
        BY <1>2, <2>1, <3>1
      <4>2. (full + 1) * BlockSize <= k * BlockSize
        BY <1>1, <2>1, <4>1, MulMono
      <4>3. (full + 1) * BlockSize = n + BlockSize
        BY <1>1, <1>2, MulSucc
      <4> HIDE DEF n, k
      <4>4. k * BlockSize \in Nat
        BY <1>1, <2>1, MulMono
      <4> QED
        BY <1>1, <2>1, <4>2, <4>3, <4>4
    <3> QED
      BY <1>2, <2>1, <3>1
  <2> QED
    BY <1>2, <2>1, <2>2, <2>3
<1>5. \A k \in 1 .. full : hashes[k] = <<s.ns, SubSeq(s.tokens, 1, k * BlockSize)>> /\ hashes[k] \in BlockHashes
  <2> DEFINE n == full * BlockSize
             u == s.tokens
             c == hash_block_chain(s.ns, SubSeq(u, 1, n))
  <2>1. s.ns \in Tenants /\ u \in Seq(Tokens) /\ n \in 0 .. Len(u) /\ n \div BlockSize = full
    BY <1>1, <1>3, <1>4
  <2> HIDE DEF full, n, u
  <2>2. \A k \in 1 .. (n \div BlockSize) : c[k] = <<s.ns, SubSeq(u, 1, k * BlockSize)>> /\ c[k] \in BlockHashes
    BY ONLY <2>1, ChainIs
  <2> QED
    BY <2>1, <2>2 DEF n, u
<1>6. last \in Nat /\ last <= full /\ last <= Len(s.blocks)
  <2> HIDE DEF full
  <2> QED
    BY <1>1, <1>2 DEF SmallerOf
<1> HIDE DEF full, hashes, last
<1>7. \A k \in (first + 1) .. last : hashes[k] \in BlockHashes
  BY <1>1, <1>2, <1>5, <1>6
<1>8. /\ last > first => Published(pool, s.blocks, hashes, first, done, last)
      /\ ~(last > first) => Published(pool, s.blocks, hashes, first, done, first)
      /\ Accounted(pool, s.blocks, done)
  <2>1. /\ last > first => Published(pool, s.blocks, hashes, first, done, last)
        /\ ~(last > first) => Published(pool, s.blocks, hashes, first, done, first)
    BY <1>1, <1>6, <1>7, PublishBlocksOK
  <2> HIDE DEF done
  <2> QED
    BY <2>1 DEF Published
<1>9. r.pool = f /\ r.seq = e
  BY DEF publish_full_blocks, full, hashes, last
<1> HIDE DEF done, r
<1>10. /\ PoolOK(BlockHashes, done.pool) /\ done.blocks \in Seq(BlockId) /\ Len(done.blocks) = Len(s.blocks)
       /\ done.old \in Seq(BlockId)
  BY <1>8 DEF Accounted
<1>11. ASSUME NEW b \in BlockId
       PROVE  /\ done.pool.refcount[b] >= Occ(done.old, b)
              /\ done.pool.refcount[b] - Occ(done.old, b) = pool.refcount[b] - Occ(s.blocks, b) + Occ(done.blocks, b)
  <2> DEFINE c == pool.refcount[b]
             u == Occ(s.blocks, b)
             v == Occ(done.blocks, b)
             w == Occ(done.old, b)
             d == done.pool.refcount[b]
  <2>1. d = c - u + v + w /\ c >= u /\ c \in Nat /\ u \in Nat /\ v \in Nat /\ w \in Nat
    BY <1>1, <1>8, <1>10, PoolFields, OccType DEF Accounted, PoolOK
  <2> HIDE DEF c, u, v, w, d
  <2>2. d >= w /\ d - w = c - u + v
    BY ONLY <2>1
  <2> QED
    BY <2>2 DEF c, u, v, w, d
<1>12. /\ PoolOK(BlockHashes, f) /\ f.hash_of = done.pool.hash_of
       /\ \A b \in BlockId : f.refcount[b] = done.pool.refcount[b] - Occ(done.old, b)
  BY <1>10, <1>11, FreeAllOK
<1> HIDE DEF f
<1>13. Exchanged(pool, r.pool, s.blocks, done.blocks)
  BY <1>9, <1>11, <1>12 DEF Exchanged
<1>14. SeqOK(e)
  <2>1. /\ e.blocks = done.blocks /\ e.num_cached_blocks = full /\ e.tokens = s.tokens /\ e.ns = s.ns
        /\ e.num_computed = s.num_computed /\ e.prompt_len = s.prompt_len
        /\ e.prefill_target = s.prefill_target /\ e.status = s.status
    BY DEF Fields
  <2> HIDE DEF e
  <2>2. ~Active(e) => e.blocks = <<>>
    <3>1. ~Active(e) => s.blocks = <<>>
      BY <2>1 DEF Active, SeqOK
    <3>2. s.blocks = <<>> => Len(done.blocks) = 0
      BY <1>10
    <3> QED
      BY <1>10, <2>1, <3>1, <3>2
  <2> QED
    BY <1>2, <1>10, <2>1, <2>2 DEF SeqOK
<1> HIDE DEF e
<1> QED
  BY <1>2, <1>5, <1>6, <1>8, <1>9, <1>10, <1>12, <1>13, <1>14 DEF full, hashes, last, done, r, f, e

----------------------------------------------------------------------------
(***************************************************************************)
(* The inductive invariant of the account.                                 *)
(***************************************************************************)

\* The sequences are well formed, and as long as no fork has failed every
\* reference is one of a block table.
MemOK(ss, p, failed) ==
    /\ \A i \in DOMAIN ss : SeqOK(ss[i])
    /\ \E lost : Books(ss, p, lost) /\ (failed \/ \A b \in BlockId : lost[b] = 0)

\* Until commit advances them, the planned sequences stand where the plan
\* says, and the plan ends within their tokens.
PlanFits ==
    \A k \in 1 .. Len(plan) :
        /\ plan[k].start = seqs[plan[k].id].num_computed /\ plan[k].q \in Nat
        /\ plan[k].start + plan[k].q <= Len(seqs[plan[k].id].tokens)

\* The batch, the sampled tokens and the children of a fork are real.
BatchOK ==
    /\ budget \in Nat
    /\ phase \in {"decodes", "prefills", "starts", "forward", "stops", "advance"} => PlanFits
    /\ phase \in {"tokens", "publish"} =>
          \A i \in ToSet(PlanIds) : seqs[i].num_computed <= Len(seqs[i].tokens)
    /\ phase \in {"stops", "advance", "tokens"} => \A i \in ToSet(SampledIds) : sampled[i] \in Vocab
    /\ phase = "tokens" => ToSet(todo) \subseteq ToSet(SampledIds)
    /\ phase = "publish" => ToSet(todo) \subseteq ToSet(PlanIds)
    /\ fork.failed \in BOOLEAN
    /\ phase \in {"forking", "seeding"} =>
          \A i \in ToSet(fork.ids) : i \in DOMAIN seqs /\ Active(seqs[i])
    /\ phase \notin {"forking", "seeding"} => fork.ids = <<>>

AccInv ==
    /\ MemOK(seqs, pool, fork.failed)
    /\ phase # "panicked" => BatchOK

\* What the account says of one sequence.
LEMMA MemHold ==
    ASSUME NEW ss, NEW p, NEW failed, MemOK(ss, p, failed)
    PROVE  /\ PoolOK(BlockHashes, p) /\ IsFiniteSet(DOMAIN ss)
           /\ \A i \in DOMAIN ss : /\ SeqOK(ss[i])
                                   /\ \A b \in BlockId : p.refcount[b] >= Occ(ss[i].blocks, b)
<1>1. PICK lost : Books(ss, p, lost)
  BY DEF MemOK
<1> DEFINE D == DOMAIN ss
<1>2. D \in SUBSET (DOMAIN ss)
  OBVIOUS
<1>3. \A i \in D : \A b \in BlockId : p.refcount[b] >= Occ(ss[i].blocks, b)
  BY <1>1, <1>2, BooksHold
<1> QED
  BY <1>1, <1>3 DEF MemOK, Books, Tabled

\* A step that leaves the tables alone.
LEMMA MemSame ==
    ASSUME NEW ss, NEW p, NEW failed, MemOK(ss, p, failed), NEW gailed, failed => gailed,
           NEW tt, DOMAIN tt = DOMAIN ss,
           \A i \in DOMAIN ss : SeqOK(tt[i]) /\ tt[i].blocks = ss[i].blocks,
           NEW r, PoolOK(BlockHashes, r), \A b \in BlockId : r.refcount[b] = p.refcount[b]
    PROVE  MemOK(tt, r, gailed)
<1>1. PICK lost : Books(ss, p, lost) /\ (failed \/ \A b \in BlockId : lost[b] = 0)
  BY DEF MemOK
<1>2. Books(tt, r, lost)
  BY <1>1, BooksSame
<1> QED
  BY <1>1, <1>2 DEF MemOK

\* One sequence changes, and exchanges its blocks.
LEMMA MemOne ==
    ASSUME NEW ss, NEW p, NEW failed, MemOK(ss, p, failed), NEW id \in DOMAIN ss,
           NEW t, SeqOK(t), NEW r, Exchanged(p, r, ss[id].blocks, t.blocks)
    PROVE  MemOK([ss EXCEPT ![id] = t], r, failed)
<1>1. PICK lost : Books(ss, p, lost) /\ (failed \/ \A b \in BlockId : lost[b] = 0)
  BY DEF MemOK
<1>2. t.blocks \in Seq(BlockId)
  BY DEF SeqOK
<1>3. Books([ss EXCEPT ![id] = t], r, lost)
  BY <1>1, <1>2, BooksChange
<1>4. \A i \in DOMAIN [ss EXCEPT ![id] = t] : SeqOK([ss EXCEPT ![id] = t][i])
  BY DEF MemOK
<1> QED
  BY <1>1, <1>3, <1>4 DEF MemOK

\* A new sequence.
LEMMA MemNew ==
    ASSUME NEW ss, NEW p, NEW failed, MemOK(ss, p, failed), NEW n, n \notin DOMAIN ss,
           NEW t, SeqOK(t), NEW r, PoolOK(BlockHashes, r),
           \A b \in BlockId : r.refcount[b] = p.refcount[b] + Occ(t.blocks, b)
    PROVE  MemOK(Bind(ss, n, t), r, failed)
<1>1. PICK lost : Books(ss, p, lost) /\ (failed \/ \A b \in BlockId : lost[b] = 0)
  BY DEF MemOK
<1>2. t.blocks \in Seq(BlockId)
  BY DEF SeqOK
<1>3. Books(Bind(ss, n, t), r, lost)
  BY <1>1, <1>2, BooksNew
<1>4. \A i \in DOMAIN Bind(ss, n, t) : SeqOK(Bind(ss, n, t)[i])
  BY DEF MemOK, Bind
<1> QED
  BY <1>1, <1>3, <1>4 DEF MemOK

\* Sequences that give back their blocks, and sequences forgotten.
LEMMA MemGone ==
    ASSUME NEW ss, NEW p, NEW failed, MemOK(ss, p, failed), NEW T \in SUBSET (DOMAIN ss), NEW r,
           GivenBack(p, r, ss, T),
           NEW tt, \A i \in DOMAIN tt : i \in DOMAIN ss,
           \A i \in DOMAIN ss : i \in DOMAIN tt \/ i \in T \/ ss[i].blocks = <<>>,
           \A i \in DOMAIN tt : SeqOK(tt[i]) /\ tt[i].blocks = IF i \in T THEN <<>> ELSE ss[i].blocks
    PROVE  MemOK(tt, r, failed)
<1>1. PICK lost : Books(ss, p, lost) /\ (failed \/ \A b \in BlockId : lost[b] = 0)
  BY DEF MemOK
<1>2. Books(tt, r, lost)
  <2>1. /\ Books(ss, p, lost) /\ T \in SUBSET (DOMAIN ss) /\ GivenBack(p, r, ss, T)
        /\ \A i \in DOMAIN tt : i \in DOMAIN ss
        /\ \A i \in DOMAIN ss : i \in DOMAIN tt \/ i \in T \/ ss[i].blocks = <<>>
        /\ \A i \in DOMAIN tt : tt[i].blocks = IF i \in T THEN <<>> ELSE ss[i].blocks
    BY <1>1
  <2> QED
    BY ONLY <2>1, BooksGone, SMTT(30)
<1> QED
  BY <1>1, <1>2 DEF MemOK

\* finish: the blocks of the sequences it ends are given back.
LEMMA FinishMem ==
    ASSUME NEW ss, NEW ids \in Seq(Nat), NEW reason, Finish(ss, ids, reason), NEW failed,
           MemOK(ss, pool, failed), Recorded(ss), NoRepeats(ids), ToSet(ids) \subseteq DOMAIN ss
    PROVE  /\ MemOK(seqs', pool', failed) /\ DOMAIN seqs' = DOMAIN ss
           /\ \E T \in SUBSET (DOMAIN ss) : GivenBack(pool, pool', ss, T) /\ \A i \in T : ~Active(seqs'[i])
           /\ \A i \in DOMAIN ss : /\ seqs'[i].tokens = ss[i].tokens
                                   /\ seqs'[i].num_computed = ss[i].num_computed
                                   /\ seqs'[i].stream = ss[i].stream /\ seqs'[i].prompt_len = ss[i].prompt_len
                                   /\ seqs'[i].prefill_target = ss[i].prefill_target
                                   /\ Active(seqs'[i]) => seqs'[i] = ss[i]
                                   /\ seqs'[i] # ss[i] => ~Active(seqs'[i])
<1> DEFINE live == Without(ids, {i \in DOMAIN ss : is_finished(ss[i])})
           gone == ToSet(live)
           ended(i) == [ss[i] EXCEPT !.status = "finished", !.reason = reason, !.blocks = <<>>]
<1>1. /\ pool' = FreeSequences(pool, ss, live)
      /\ seqs' = [i \in DOMAIN ss |-> IF i \in gone THEN ended(i) ELSE ss[i]]
  BY DEF Finish
<1>2. live \in Seq(Nat) /\ NoRepeats(live) /\ gone \subseteq DOMAIN ss
  BY WithoutSet
<1> HIDE DEF live
<1>3. PICK lost : Books(ss, pool, lost)
  BY DEF MemOK
<1>4. GivenBack(pool, pool', ss, gone)
  <2>1. Tabled(ss, gone) /\ \A b \in BlockId : pool.refcount[b] >= Count(ss, gone, b)
    BY <1>2, <1>3, BooksHold
  <2>2. PoolOK(BlockHashes, pool)
    BY <1>3 DEF Books
  <2> QED
    BY <1>1, <1>2, <2>1, <2>2, FreeSequencesOK
<1>5. ASSUME NEW i \in DOMAIN ss
      PROVE  LET e == ended(i)
             IN  /\ SeqOK(e) /\ e.blocks = <<>> /\ e.tokens = ss[i].tokens
                 /\ e.num_computed = ss[i].num_computed /\ ~Active(e)
                 /\ e.stream = ss[i].stream /\ e.prompt_len = ss[i].prompt_len
                 /\ e.prefill_target = ss[i].prefill_target
  <2> DEFINE e == ended(i)
  <2>1. DOMAIN ss[i] = Fields /\ SeqOK(ss[i])
    BY DEF Recorded, MemOK
  <2>2. /\ e.blocks = <<>> /\ e.tokens = ss[i].tokens /\ e.ns = ss[i].ns
        /\ e.num_computed = ss[i].num_computed /\ e.num_cached_blocks = ss[i].num_cached_blocks
        /\ e.prompt_len = ss[i].prompt_len /\ e.stream = ss[i].stream
        /\ e.prefill_target = ss[i].prefill_target /\ e.status = "finished"
    BY <2>1 DEF Fields
  <2> HIDE DEF e
  <2> QED
    BY <2>1, <2>2 DEF SeqOK, Active
<1> HIDE DEF gone, ended
<1>6. DOMAIN seqs' = DOMAIN ss /\ \A i \in DOMAIN ss : seqs'[i] = IF i \in gone THEN ended(i) ELSE ss[i]
  BY <1>1
<1>7. \A i \in DOMAIN seqs' : SeqOK(seqs'[i]) /\ seqs'[i].blocks = IF i \in gone THEN <<>> ELSE ss[i].blocks
  BY <1>5, <1>6 DEF MemOK
<1>8. MemOK(seqs', pool', failed)
  <2>1. gone \in SUBSET (DOMAIN ss) /\ (\A i \in DOMAIN seqs' : i \in DOMAIN ss)
        /\ \A i \in DOMAIN ss : i \in DOMAIN seqs' \/ i \in gone \/ ss[i].blocks = <<>>
    BY <1>2, <1>6
  <2> QED
    BY <1>4, <1>7, <2>1, MemGone
<1>9. gone \in SUBSET (DOMAIN ss) /\ \A i \in gone : ~Active(seqs'[i])
  BY <1>2, <1>5, <1>6
<1>10. \A i \in DOMAIN ss : Active(seqs'[i]) => seqs'[i] = ss[i]
  BY <1>5, <1>6
<1> QED
  BY <1>4, <1>5, <1>6, <1>8, <1>9, <1>10

\* Nothing is demanded of the batch between steps and after the commit.
LEMMA CalmBatch ==
    ASSUME budget' \in Nat, fork'.failed \in BOOLEAN, fork'.ids = <<>>, phase' \in {"idle", "forks", "drain"}
    PROVE  BatchOK'
  BY DEF BatchOK

\* The loops of schedule, when they leave plan and sequences alone.
LEMMA LoopBatch ==
    ASSUME BatchOK, phase \in {"decodes", "prefills", "starts"},
           phase' \in {"decodes", "prefills", "starts", "forward"}, UNCHANGED <<seqs, plan, budget, fork>>
    PROVE  BatchOK'
  BY DEF BatchOK, PlanFits

\* Pool and sequences are left alone.
LEMMA MemKept ==
    ASSUME MemOK(seqs, pool, fork.failed), UNCHANGED <<pool, seqs>>, fork.failed => fork'.failed
    PROVE  MemOK(seqs', pool', fork'.failed)
<1>1. pool' = pool /\ seqs' = seqs
  OBVIOUS
<1> QED
  BY <1>1 DEF MemOK

\* The steps of schedule that push nothing.
LEMMA ScheduleQuietAcc ==
    ASSUME AccInv, BeginStep \/ SkipDecode \/ EndDecodes \/ EndPrefills \/ EndStarts
    PROVE  AccInv'
<1>1. phase # "panicked" /\ UNCHANGED <<pool, seqs, fork>>
  BY DEF BeginStep, SkipDecode, EndDecodes, EndPrefills, EndStarts, poolVars, queueVars
<1>2. BatchOK /\ MemOK(seqs, pool, fork.failed)
  BY <1>1 DEF AccInv
<1>3. MemOK(seqs', pool', fork'.failed)
  BY <1>1, <1>2, MemKept
<1>4. BatchOK'
  <2>1. CASE BeginStep
    <3>1. phase = "idle" /\ phase' = "decodes" /\ plan' = <<>> /\ budget' = MaxBatchedTokens
      BY <2>1 DEF BeginStep
    <3>2. MaxBatchedTokens \in Nat
      BY SchedulerAssumption
    <3>3. PlanFits'
      BY <3>1 DEF PlanFits
    <3> QED
      BY <1>1, <1>2, <3>1, <3>2, <3>3 DEF BatchOK
  <2>2. CASE SkipDecode \/ EndDecodes \/ EndPrefills \/ EndStarts
    <3>1. /\ phase \in {"decodes", "prefills", "starts"} /\ phase' \in {"decodes", "prefills", "starts", "forward"}
          /\ UNCHANGED <<plan, budget>>
      BY <2>2 DEF SkipDecode, EndDecodes, EndPrefills, EndStarts
    <3> QED
      BY <1>1, <1>2, <3>1, LoopBatch
  <2> QED
    BY <2>1, <2>2
<1> QED
  BY <1>3, <1>4 DEF AccInv

\* The steps after the forward that leave pool and sequences alone.
LEMMA CommitQuietAcc ==
    ASSUME IInv, AccInv, EmptyPlan \/ Forward \/ EndTokens \/ EndPublish \/ EndForks
    PROVE  AccInv'
<1>1. phase \notin {"panicked", "forking", "seeding"} /\ UNCHANGED <<pool, seqs, fork, plan, budget>>
  BY DEF EmptyPlan, Forward, EndTokens, EndPublish, EndForks, poolVars, queueVars
<1>2. BatchOK /\ MemOK(seqs, pool, fork.failed)
  BY <1>1 DEF AccInv
<1>3. MemOK(seqs', pool', fork'.failed)
  BY <1>1, <1>2, MemKept
<1>0. budget \in Nat /\ fork.failed \in BOOLEAN /\ fork.ids = <<>>
  BY <1>1, <1>2 DEF BatchOK
<1>4. CASE EmptyPlan \/ EndPublish \/ EndForks
  <2>1. phase' \in {"idle", "forks", "drain"}
    BY <1>4 DEF EmptyPlan, EndPublish, EndForks
  <2> QED
    BY <1>0, <1>1, <1>3, <2>1, CalmBatch DEF AccInv
<1>5. CASE Forward
  <2>1. phase' \in {"stops", "panicked"} /\ phase = "forward"
    BY <1>5 DEF Forward
  <2>2. PICK f \in [ToSet(SampledIds) -> Vocab] : sampled' = f
    BY <1>5 DEF Forward
  <2>3. PlanFits' /\ SampledIds' = SampledIds
    BY <1>1, <1>2, <2>1 DEF BatchOK, PlanFits, SampledIds
  <2>4. phase' = "stops" => BatchOK'
    BY <1>0, <1>1, <2>2, <2>3 DEF BatchOK
  <2> QED
    BY <1>3, <2>1, <2>4 DEF AccInv
<1>6. CASE EndTokens
  <2>1. phase' = "publish" /\ phase = "tokens" /\ todo' = IF PrefixCache THEN PlanIds ELSE <<>>
    BY <1>6 DEF EndTokens
  <2>2. PlanIds' = PlanIds
    BY <1>1 DEF PlanIds
  <2>3. ToSet(todo') \subseteq ToSet(PlanIds')
    BY <2>1, <2>2 DEF ToSet
  <2>4. BatchOK'
    BY <1>0, <1>1, <1>2, <2>1, <2>2, <2>3 DEF BatchOK
  <2> QED
    BY <1>3, <2>4 DEF AccInv
<1> QED
  BY <1>4, <1>5, <1>6

\* A fork ends, and whether one has failed is remembered.
LEMMA ForkEnds ==
    ASSUME NEW failed \in BOOLEAN, EndFork(failed), fork.failed \in BOOLEAN
    PROVE  /\ phase' = "forks" /\ fork'.ids = <<>> /\ fork'.failed \in BOOLEAN
           /\ fork'.failed <=> fork.failed \/ failed
<1>1. phase' = "forks" /\ fork' = [NoFork EXCEPT !.failed = fork.failed \/ failed]
  BY DEF EndFork
<1>2. DOMAIN NoFork = {"leader", "left", "ids", "copies", "failed"} /\ NoFork.ids = <<>>
  BY DEF NoFork
<1> QED
  BY <1>1, <1>2

\* The steps of a fork that leave pool and sequences alone.
LEMMA ForkQuietAcc ==
    ASSUME IInv, AccInv, BeginFork \/ CopyBlocks \/ CopyFails \/ EndSeeding
    PROVE  AccInv'
<1>1. phase \in {"forks", "forking", "seeding"} /\ UNCHANGED <<pool, seqs, budget>>
  BY DEF BeginFork, CopyBlocks, CopyFails, EndSeeding, poolVars, queueVars
<1>2. BatchOK /\ MemOK(seqs, pool, fork.failed) /\ ForkOK
  BY <1>1 DEF AccInv, IInv
<1>0. budget \in Nat /\ fork.failed \in BOOLEAN
  BY <1>2 DEF BatchOK
<1>3. CASE BeginFork
  <2>1. /\ phase = "forks" /\ phase' = "forking"
        /\ fork' = [fork EXCEPT !.leader = Head(todo), !.left = pending_forks[Head(todo)]]
    BY <1>3 DEF BeginFork
  <2>2. fork'.ids = fork.ids /\ fork'.failed = fork.failed /\ fork.ids = <<>>
    BY <1>2, <2>1 DEF ForkOK, BatchOK
  <2>3. MemOK(seqs', pool', fork'.failed)
    BY <1>1, <1>2, <2>2, MemKept
  <2>4. \A i \in ToSet(fork'.ids) : FALSE
    BY <2>2 DEF ToSet
  <2>5. BatchOK'
    BY <1>0, <1>1, <2>1, <2>2, <2>4 DEF BatchOK
  <2> QED
    BY <2>3, <2>5 DEF AccInv
<1>4. CASE CopyBlocks
  <2>1. phase = "forking" /\ phase' = "seeding" /\ fork' = fork
    BY <1>4 DEF CopyBlocks
  <2>2. MemOK(seqs', pool', fork'.failed)
    BY <1>1, <1>2, <2>1, MemKept
  <2>3. BatchOK'
    BY <1>0, <1>1, <1>2, <2>1 DEF BatchOK
  <2> QED
    BY <2>2, <2>3 DEF AccInv
<1>5. CASE CopyFails \/ EndSeeding
  <2>1. EndFork(TRUE) \/ EndFork(FALSE)
    BY <1>5 DEF CopyFails, EndSeeding
  <2>2. phase' = "forks" /\ fork'.ids = <<>> /\ fork'.failed \in BOOLEAN /\ (fork.failed => fork'.failed)
    BY <1>0, <2>1, ForkEnds
  <2> QED
    BY <1>0, <1>1, <1>2, <2>2, MemKept, CalmBatch DEF AccInv
<1> QED
  BY <1>3, <1>4, <1>5

\* The sequences of the plan, place by place.
LEMMA PlanIdIn ==
    ASSUME NEW k \in 1 .. Len(plan)
    PROVE  plan[k].id \in ToSet(PlanIds) /\ PlanIds[k] = plan[k].id
<1>1. k \in DOMAIN PlanIds /\ PlanIds[k] = plan[k].id
  BY DEF PlanIds
<1> QED
  BY <1>1 DEF ToSet

\* The image of a finite set is finite.
LEMMA ImageFinite ==
    ASSUME NEW ss, NEW K, IsFiniteSet(K)
    PROVE  IsFiniteSet({ss[i].rid : i \in K})
<1> DEFINE f == [i \in K |-> ss[i].rid]
<1>1. {ss[i].rid : i \in K} = {f[i] : i \in K}
  OBVIOUS
<1>2. f \in Surjection(K, {f[i] : i \in K})
  BY DEF Surjection
<1> QED
  BY <1>1, <1>2, FS_Surjection

\* admit: the new sequence has no blocks.
LEMMA AdmitAcc ==
    ASSUME IInv, AccInv, NEW j \in Jobs, Admit(j)
    PROVE  AccInv'
<1> DEFINE s == NewSequence(j)
<1>1. /\ phase = "idle" /\ seqs' = Bind(seqs, next_id, s)
      /\ UNCHANGED <<pool, phase, budget, fork>>
  BY DEF Admit, stepVars
<1>2. MemOK(seqs, pool, fork.failed) /\ BatchOK /\ next_id \notin DOMAIN seqs
  BY <1>1 DEF AccInv, IInv
<1>3. SeqOK(s) /\ s.blocks = <<>>
  <2>1. /\ s.blocks = <<>> /\ s.tokens = j.prompt /\ s.ns = j.ns /\ s.num_computed = 0 /\ s.num_cached_blocks = 0
        /\ s.prompt_len = Len(j.prompt) /\ s.prefill_target = Len(j.prompt)
    BY DEF NewSequence
  <2>2. j.prompt \in Seq(Tokens) /\ j.ns \in Tenants
    <3>1. j.prompt \in Seq(ToSet(j.prompt)) /\ ToSet(j.prompt) \subseteq Tokens
      BY SchedulerAssumption DEF Tokens
    <3>2. \A k \in 1 .. Len(j.prompt) : j.prompt[k] \in Tokens
      BY <3>1
    <3> QED
      BY <3>1, <3>2 DEF Tenants
  <2> QED
    BY <2>1, <2>2 DEF SeqOK
<1> HIDE DEF s
<1>4. \A b \in BlockId : pool.refcount[b] = pool.refcount[b] + Occ(s.blocks, b)
  <2>1. \A b : Occ(s.blocks, b) = 0
    <3>1. <<>> \in Seq(BlockId)
      OBVIOUS
    <3> QED
      BY <1>3, <3>1, OccPrefix
  <2>2. pool.refcount \in [BlockId -> Nat]
    BY <1>2, MemHold, PoolFields DEF PoolOK
  <2> QED
    BY <2>1, <2>2
<1>5. PoolOK(BlockHashes, pool)
  BY <1>2, MemHold
<1>6. MemOK(Bind(seqs, next_id, s), pool, fork.failed)
  BY <1>2, <1>3, <1>4, <1>5, MemNew
<1>7. BatchOK'
  BY <1>1, <1>2, CalmBatch DEF BatchOK
<1> QED
  BY <1>1, <1>6, <1>7 DEF AccInv

\* cancel.
LEMMA CancelAcc ==
    ASSUME IInv, AccInv, NEW rid, Cancel(rid)
    PROVE  AccInv'
<1>1. /\ phase = "idle" /\ Finish(seqs, sequences_of(rid), "cancelled")
      /\ UNCHANGED <<phase, budget, fork>>
  BY DEF Cancel, stepVars
<1>2. /\ MemOK(seqs, pool, fork.failed) /\ BatchOK /\ Recorded(seqs)
      /\ next_id \in Nat /\ DOMAIN seqs \subseteq 0 .. (next_id - 1)
  BY <1>1 DEF AccInv, IInv
<1>3. /\ sequences_of(rid) \in Seq(Nat) /\ NoRepeats(sequences_of(rid))
      /\ ToSet(sequences_of(rid)) \subseteq DOMAIN seqs
  BY <1>2, SequencesOf
<1>4. MemOK(seqs', pool', fork.failed)
  BY <1>1, <1>2, <1>3, FinishMem
<1>5. BatchOK'
  BY <1>1, <1>2, CalmBatch DEF BatchOK
<1> QED
  BY <1>1, <1>4, <1>5 DEF AccInv

\* finish_with for the stop strings: what it ends keeps its progress until
\* commit.
LEMMA FinishStoppedAcc ==
    ASSUME IInv, AccInv, FinishStopped
    PROVE  AccInv'
<1>1. /\ phase = "stops" /\ phase' = "advance" /\ Finish(seqs, todo, "stop")
      /\ UNCHANGED <<budget, plan, sampled, fork>>
  BY DEF FinishStopped
<1>2. /\ MemOK(seqs, pool, fork.failed) /\ BatchOK /\ Recorded(seqs) /\ PlanOK
      /\ todo \in Seq(Nat) /\ NoRepeats(todo) /\ ToSet(todo) \subseteq ToSet(PlanIds)
  BY <1>1 DEF AccInv, IInv, TodoOK
<1>3. ToSet(PlanIds) \subseteq DOMAIN seqs
  BY <1>1, <1>2 DEF PlanOK
<1>4. /\ MemOK(seqs', pool', fork.failed)
      /\ \A i \in DOMAIN seqs : seqs'[i].tokens = seqs[i].tokens /\ seqs'[i].num_computed = seqs[i].num_computed
  BY <1>1, <1>2, <1>3, FinishMem
<1>5. PlanFits'
  <2>1. ASSUME NEW k \in 1 .. Len(plan) PROVE plan[k].id \in DOMAIN seqs
    BY <1>3, PlanIdIn
  <2> QED
    BY <1>1, <1>2, <1>4, <2>1 DEF BatchOK, PlanFits
<1>6. SampledIds' = SampledIds
  BY <1>1 DEF SampledIds
<1>7. BatchOK'
  BY <1>1, <1>2, <1>5, <1>6 DEF BatchOK
<1> QED
  BY <1>1, <1>4, <1>7 DEF AccInv

\* drain_finished: what has finished has no blocks.
LEMMA DrainAcc ==
    ASSUME IInv, AccInv, Drain
    PROVE  AccInv'
<1>1. /\ phase = "drain" /\ phase' = "idle" /\ budget' = 0
      /\ seqs' = [i \in DOMAIN seqs \ ToSet(finished) |-> seqs[i]]
      /\ UNCHANGED <<pool, fork>>
  BY DEF Drain, poolVars
<1>2. MemOK(seqs, pool, fork.failed) /\ BatchOK /\ Queued(seqs, waiting, running, finished)
  BY <1>1 DEF AccInv, IInv, RunList
<1>3. \A i \in DOMAIN seqs : i \in ToSet(finished) => seqs[i].blocks = <<>>
  BY <1>2 DEF Queued, MemOK, SeqOK, Active, is_finished
<1>4. PoolOK(BlockHashes, pool) /\ \A i \in DOMAIN seqs : SeqOK(seqs[i])
  BY <1>2, MemHold
<1>5. GivenBack(pool, pool, seqs, {})
  BY <1>4, GivenNothing
<1>6. MemOK(seqs', pool, fork.failed)
  <2> DEFINE T == {}
  <2>1. /\ T \in SUBSET (DOMAIN seqs) /\ GivenBack(pool, pool, seqs, T)
        /\ \A i \in DOMAIN seqs' : i \in DOMAIN seqs
        /\ \A i \in DOMAIN seqs : i \in DOMAIN seqs' \/ i \in T \/ seqs[i].blocks = <<>>
        /\ \A i \in DOMAIN seqs' : SeqOK(seqs'[i]) /\ seqs'[i].blocks = IF i \in T THEN <<>> ELSE seqs[i].blocks
    BY <1>1, <1>3, <1>4, <1>5
  <2> HIDE DEF T
  <2> QED
    BY <1>2, <2>1, MemGone
<1>7. BatchOK'
  BY <1>1, <1>2, CalmBatch DEF BatchOK
<1> QED
  BY <1>1, <1>6, <1>7 DEF AccInv

\* fail_all: the blocks of every request with a stream are given back, and
\* what has finished has none.
LEMMA FailAllMem ==
    ASSUME MemOK(seqs, pool, fork.failed), next_id \in Nat, DOMAIN seqs \subseteq 0 .. (next_id - 1),
           Queued(seqs, waiting, running, finished), FailAll
    PROVE  MemOK(seqs', pool', fork.failed) /\ pool'.hash_of = pool.hash_of
<1> DEFINE rids == {seqs[i].rid : i \in {k \in DOMAIN seqs : seqs[k].stream}}
           T == {i \in DOMAIN seqs : seqs[i].rid \in rids}
<1>1. PICK order \in SetToSeqs(rids) : pool' = FreeRequests(order)
  BY DEF FailAll
<1>2. seqs' = [i \in DOMAIN seqs \ (T \cup ToSet(finished)) |-> seqs[i]]
  BY DEF FailAll
<1>3. PICK lost : Books(seqs, pool, lost)
  BY DEF MemOK
<1>4. IsFiniteSet(DOMAIN seqs) /\ \A i \in DOMAIN seqs : SeqOK(seqs[i])
  BY MemHold
<1>5. IsFiniteSet(rids)
  <2> DEFINE K == {k \in DOMAIN seqs : seqs[k].stream}
             f(i) == seqs[i].rid
  <2>1. IsFiniteSet(K)
    BY <1>4, FS_Subset
  <2> HIDE DEF K
  <2>2. IsFiniteSet({seqs[i].rid : i \in K})
    BY <2>1, ImageFinite
  <2> QED
    BY <2>2 DEF K
<1>6. order \in Seq(rids) /\ NoRepeats(order) /\ ToSet(order) = rids
  BY <1>1, <1>5, OrderOf
<1> HIDE DEF rids
<1>7. GivenBack(pool, pool', seqs, {i \in DOMAIN seqs : seqs[i].rid \in ToSet(order)})
  <2> DEFINE D == DOMAIN seqs
  <2>1. D \in SUBSET (DOMAIN seqs)
    OBVIOUS
  <2>2. Tabled(seqs, D) /\ \A b \in BlockId : pool.refcount[b] >= Count(seqs, D, b)
    BY <1>3, <2>1, BooksHold
  <2>3. PoolOK(BlockHashes, pool)
    BY <1>3 DEF Books
  <2> QED
    BY <1>1, <1>6, <2>2, <2>3, FreeRequestsOK
<1>8. GivenBack(pool, pool', seqs, T)
  BY <1>6, <1>7
<1>9. \A i \in DOMAIN seqs : i \in ToSet(finished) => seqs[i].blocks = <<>>
  BY <1>4 DEF Queued, SeqOK, Active, is_finished
<1>10. /\ T \in SUBSET (DOMAIN seqs)
       /\ \A i \in DOMAIN seqs' : i \in DOMAIN seqs
       /\ \A i \in DOMAIN seqs : i \in DOMAIN seqs' \/ i \in T \/ seqs[i].blocks = <<>>
       /\ \A i \in DOMAIN seqs' : SeqOK(seqs'[i]) /\ seqs'[i].blocks = IF i \in T THEN <<>> ELSE seqs[i].blocks
  BY <1>2, <1>4, <1>9
<1> HIDE DEF T
<1>11. pool'.hash_of = pool.hash_of
  BY <1>8 DEF GivenBack
<1>12. MemOK(seqs', pool', fork.failed)
  BY <1>8, <1>10, MemGone
<1> QED
  BY <1>11, <1>12

\* The answer to a failed forward, and to a drain deadline.
LEMMA FailAllAcc ==
    ASSUME IInv, AccInv, ForwardFails \/ DeadlinePassed
    PROVE  AccInv'
<1>1. /\ phase \in {"forward", "idle"} /\ FailAll /\ fork' = fork /\ phase' = "idle" /\ budget' = 0
  BY DEF ForwardFails, DeadlinePassed, FailAll
<1>2. /\ MemOK(seqs, pool, fork.failed) /\ BatchOK /\ Queued(seqs, waiting, running, finished)
      /\ next_id \in Nat /\ DOMAIN seqs \subseteq 0 .. (next_id - 1)
  BY <1>1 DEF AccInv, IInv, RunList
<1>3. MemOK(seqs', pool', fork.failed)
  BY <1>1, <1>2, FailAllMem
<1>4. BatchOK'
  BY <1>1, <1>2, CalmBatch DEF BatchOK
<1> QED
  BY <1>1, <1>3, <1>4 DEF AccInv

\* try_extend, or preempt, for one sequence of the batch.
LEMMA PushAcc ==
    ASSUME NEW ss, NEW p, NEW failed, MemOK(ss, p, failed), Recorded(ss), NEW id \in DOMAIN ss, Active(ss[id]),
           NEW q \in Nat, budget \in Nat, q <= budget, NEW run, NEW wait, PushOrPreempt(ss, p, id, q, run, wait),
           PlanList, id \notin ToSet(PlanIds),
           \A k \in 1 .. Len(plan) :
              /\ plan[k].start = ss[plan[k].id].num_computed /\ plan[k].q \in Nat
              /\ plan[k].start + plan[k].q <= Len(ss[plan[k].id].tokens)
    PROVE  /\ MemOK(seqs', pool', failed) /\ budget' \in Nat /\ phase' \in {phase, "panicked"}
           /\ phase' # "panicked" => PlanFits'
<1> DEFINE s == ss[id]
<1>1. /\ PoolOK(BlockHashes, p) /\ SeqOK(s) /\ DOMAIN s = Fields
      /\ \A b \in BlockId : p.refcount[b] >= Occ(s.blocks, b)
  BY MemHold DEF Recorded
<1>2. s.blocks \in Seq(BlockId) /\ s.num_computed \in Nat /\ s.tokens \in Seq(Tokens) /\ Len(s.tokens) \in Nat
  BY <1>1 DEF SeqOK
<1>3. \A k \in 1 .. Len(plan) : plan[k].id # id
  BY PlanIdIn
<1>4. \/ \E u : /\ Taken(BlockHashes, p, pool', u)
                /\ seqs' = [ss EXCEPT ![id] = [s EXCEPT !.blocks = s.blocks \o u]]
                /\ plan' = Append(plan, [id |-> id, start |-> s.num_computed, q |-> q,
                                         samples |-> s.num_computed + q >= total_len(s)])
                /\ budget' = budget - q
                /\ phase' = IF s.num_computed + q > total_len(s) THEN "panicked" ELSE phase
      \/ /\ seqs' = [ss EXCEPT ![id] = reset_for_recompute(s)]
         /\ Exchanged(p, pool', s.blocks, <<>>)
         /\ plan' = plan /\ budget' = budget /\ phase' = phase
  BY <1>1, PushExchange
<1>5. CASE \E u : /\ Taken(BlockHashes, p, pool', u)
                  /\ seqs' = [ss EXCEPT ![id] = [s EXCEPT !.blocks = s.blocks \o u]]
                  /\ plan' = Append(plan, [id |-> id, start |-> s.num_computed, q |-> q,
                                           samples |-> s.num_computed + q >= total_len(s)])
                  /\ budget' = budget - q
                  /\ phase' = IF s.num_computed + q > total_len(s) THEN "panicked" ELSE phase
  <2>1. PICK u : /\ Taken(BlockHashes, p, pool', u)
                 /\ seqs' = [ss EXCEPT ![id] = [s EXCEPT !.blocks = s.blocks \o u]]
                 /\ plan' = Append(plan, [id |-> id, start |-> s.num_computed, q |-> q,
                                          samples |-> s.num_computed + q >= total_len(s)])
                 /\ budget' = budget - q
                 /\ phase' = IF s.num_computed + q > total_len(s) THEN "panicked" ELSE phase
    BY <1>5
  <2> DEFINE v == s.blocks \o u
             t == [s EXCEPT !.blocks = v]
             e == [id |-> id, start |-> s.num_computed, q |-> q, samples |-> s.num_computed + q >= total_len(s)]
  <2>2. v \in Seq(BlockId) /\ Exchanged(p, pool', s.blocks, v)
    BY <1>1, <1>2, <2>1, TakenExchange
  <2> HIDE DEF v
  <2>3. /\ t.blocks = v /\ t.tokens = s.tokens /\ t.ns = s.ns /\ t.num_computed = s.num_computed
        /\ t.num_cached_blocks = s.num_cached_blocks /\ t.prompt_len = s.prompt_len
        /\ t.prefill_target = s.prefill_target /\ t.status = s.status
    BY <1>1 DEF Fields
  <2>4. SeqOK(t)
    BY <1>1, <2>2, <2>3 DEF SeqOK, Active
  <2>5. seqs' = [ss EXCEPT ![id] = t]
    BY <2>1 DEF v
  <2> HIDE DEF t
  <2>6. MemOK(seqs', pool', failed)
    BY <2>2, <2>3, <2>4, <2>5, MemOne
  <2>7. /\ Len(plan') = Len(plan) + 1 /\ Len(plan) \in Nat /\ plan'[Len(plan) + 1] = e
        /\ \A k \in 1 .. Len(plan) : plan'[k] = plan[k]
    BY <2>1 DEF PlanList
  <2>8. e.id = id /\ e.start = s.num_computed /\ e.q = q
    OBVIOUS
  <2> HIDE DEF e
  <2>9. ASSUME phase' # "panicked", NEW k \in 1 .. Len(plan')
        PROVE  /\ plan'[k].start = seqs'[plan'[k].id].num_computed /\ plan'[k].q \in Nat
               /\ plan'[k].start + plan'[k].q <= Len(seqs'[plan'[k].id].tokens)
    <3>1. CASE k = Len(plan) + 1
      <4>1. s.num_computed + q <= Len(s.tokens)
        BY <1>2, <2>1, <2>9 DEF total_len
      <4>2. plan'[k] = e /\ seqs'[id] = t
        BY <2>5, <2>7, <3>1
      <4> QED
        BY <2>3, <2>8, <4>1, <4>2
    <3>2. CASE k \in 1 .. Len(plan)
      <4>1. plan'[k] = plan[k] /\ seqs'[plan[k].id] = ss[plan[k].id]
        BY <1>3, <2>5, <2>7, <3>2
      <4> QED
        BY <3>2, <4>1
    <3> QED
      BY <2>7, <2>9, <3>1, <3>2
  <2> QED
    BY <2>1, <2>6, <2>9 DEF PlanFits
<1>6. CASE /\ seqs' = [ss EXCEPT ![id] = reset_for_recompute(s)]
           /\ Exchanged(p, pool', s.blocks, <<>>)
           /\ plan' = plan /\ budget' = budget /\ phase' = phase
  <2> DEFINE t == reset_for_recompute(s)
  <2>1. /\ t.blocks = <<>> /\ t.tokens = s.tokens /\ t.ns = s.ns /\ t.num_computed = 0
        /\ t.num_cached_blocks = 0 /\ t.prompt_len = s.prompt_len
        /\ t.prefill_target = Len(s.tokens)
    BY <1>1 DEF Fields, reset_for_recompute
  <2> HIDE DEF t
  <2>2. SeqOK(t)
    BY <1>1, <1>2, <2>1 DEF SeqOK
  <2>3. MemOK(seqs', pool', failed)
    BY <1>6, <2>1, <2>2, MemOne DEF t
  <2>4. \A k \in 1 .. Len(plan) : seqs'[plan[k].id] = ss[plan[k].id]
    BY <1>3, <1>6
  <2> QED
    BY <1>6, <2>3, <2>4 DEF PlanFits
<1> QED
  BY <1>4, <1>5, <1>6

\* The chunk a prefill takes fits the batch.
LEMMA ChunkOK ==
    ASSUME NEW s, SeqOK(s), budget \in Nat
    PROVE  prefill_chunk(s) \in Nat /\ prefill_chunk(s) <= budget
<1>1. s.prefill_target \in Nat /\ s.num_computed \in Nat /\ PrefillChunkTokens \in Nat
  BY SchedulerAssumption DEF SeqOK
<1>2. remaining_prefill(s) \in Nat
  BY <1>1 DEF remaining_prefill
<1> QED
  BY <1>1, <1>2 DEF prefill_chunk, SmallerOf

\* While the batch is made, the plan is what the sequences are at.
LEMMA BatchFacts ==
    ASSUME IInv, AccInv, phase \in {"decodes", "prefills", "starts"}
    PROVE  /\ MemOK(seqs, pool, fork.failed) /\ BatchOK /\ PlanFits /\ budget \in Nat
           /\ Recorded(seqs) /\ PlanList /\ PlanOK /\ TodoOK
           /\ fork.failed \in BOOLEAN /\ fork.ids = <<>>
  BY IInvFacts DEF AccInv, BatchOK

\* What a push leaves is the batch's business again.
LEMMA PushBatch ==
    ASSUME phase \in {"decodes", "prefills", "starts"}, phase' \in {phase, "panicked"}, UNCHANGED fork,
           fork.failed \in BOOLEAN, fork.ids = <<>>,
           MemOK(seqs', pool', fork.failed), budget' \in Nat, phase' # "panicked" => PlanFits'
    PROVE  AccInv'
<1>1. phase' # "panicked" => BatchOK'
  BY DEF BatchOK
<1> QED
  BY <1>1 DEF AccInv

\* A decode.
LEMMA ScheduleDecodeAcc ==
    ASSUME IInv, AccInv, ScheduleDecode
    PROVE  AccInv'
<1> DEFINE id == Head(todo)
           run == Append(running, id)
           rest == Tail(todo)
<1>1. /\ phase = "decodes" /\ todo # <<>> /\ budget > 0
      /\ PushOrPreempt(seqs, pool, id, 1, run, waiting) /\ UNCHANGED fork
  BY DEF ScheduleDecode
<1>2. /\ MemOK(seqs, pool, fork.failed) /\ PlanFits /\ budget \in Nat
      /\ Recorded(seqs) /\ PlanList /\ PlanOK /\ fork.failed \in BOOLEAN /\ fork.ids = <<>>
  BY <1>1, BatchFacts
<1>3. /\ id \notin ToSet(running) /\ Queued(seqs, waiting, run \o rest, finished)
      /\ run \in Seq(Nat) /\ rest \in Seq(Nat) /\ ToSet(run) = ToSet(running) \cup {id}
  BY <1>1, DecodesMove
<1> HIDE DEF id, run, rest
<1>4. id \in DOMAIN seqs /\ Active(seqs[id])
  <2>1. ToSet(run \o rest) = ToSet(run) \cup ToSet(rest)
    BY <1>3, ConcatSet
  <2> QED
    BY <1>3, <2>1 DEF Queued
<1>5. id \notin ToSet(PlanIds)
  BY <1>1, <1>2, <1>3 DEF PlanOK
<1>6. /\ MemOK(seqs', pool', fork.failed) /\ budget' \in Nat /\ phase' \in {phase, "panicked"}
      /\ phase' # "panicked" => PlanFits'
  <2>1. 1 \in Nat /\ 1 <= budget
    BY <1>1, <1>2
  <2> QED
    BY <1>1, <1>2, <1>4, <1>5, <2>1, PushAcc DEF PlanFits
<1> QED
  BY <1>1, <1>2, <1>6, PushBatch

\* The next chunk of a prefill.
LEMMA ContinuePrefillAcc ==
    ASSUME IInv, AccInv, ContinuePrefill
    PROVE  AccInv'
<1> DEFINE id == Head(todo)
           q == prefill_chunk(seqs[id])
<1>1. /\ phase = "prefills" /\ todo # <<>>
      /\ PushOrPreempt(seqs, pool, id, q, running, waiting) /\ UNCHANGED fork
  BY DEF ContinuePrefill
<1>2. /\ MemOK(seqs, pool, fork.failed) /\ PlanFits /\ budget \in Nat
      /\ Recorded(seqs) /\ PlanList /\ TodoOK /\ fork.failed \in BOOLEAN /\ fork.ids = <<>>
      /\ Queued(seqs, waiting, running, finished)
  BY <1>1, BatchFacts, IInvFacts
<1>3. id \in ToSet(todo)
  BY <1>1, <1>2, TailSet DEF TodoOK
<1>4. id \in DOMAIN seqs /\ Active(seqs[id]) /\ id \notin ToSet(PlanIds)
  BY <1>1, <1>2, <1>3 DEF TodoOK, Queued
<1>5. q \in Nat /\ q <= budget
  BY <1>2, <1>4, ChunkOK DEF MemOK
<1> HIDE DEF id, q
<1>6. /\ MemOK(seqs', pool', fork.failed) /\ budget' \in Nat /\ phase' \in {phase, "panicked"}
      /\ phase' # "panicked" => PlanFits'
  BY <1>1, <1>2, <1>4, <1>5, PushAcc DEF PlanFits
<1> QED
  BY <1>1, <1>2, <1>6, PushBatch

\* The sequence at the head of the waiting queue.
LEMMA HeadWaits ==
    ASSUME IInv, AccInv, phase = "starts", waiting # <<>>
    PROVE  LET id == Head(waiting)
           IN  /\ id \in DOMAIN seqs /\ seqs[id].blocks = <<>> /\ SeqOK(seqs[id])
               /\ id \notin ToSet(running) /\ id \notin ToSet(PlanIds)
<1> DEFINE id == Head(waiting)
<1>1. /\ Queued(seqs, waiting, running, finished) /\ PlanOK /\ MemOK(seqs, pool, fork.failed)
  BY BatchFacts, IInvFacts
<1>2. id \in ToSet(waiting)
  BY <1>1, TailSet DEF Queued
<1>3. id \in DOMAIN seqs /\ ~Active(seqs[id]) /\ id \notin ToSet(running)
  BY <1>1, <1>2, OneClass DEF Queued
<1> QED
  BY <1>1, <1>3 DEF MemOK, SeqOK, PlanOK

\* try_start: the sequence has exchanged nothing for its matched and fresh
\* blocks.
LEMMA StartExchange ==
    ASSUME PoolOK(BlockHashes, pool), NEW s, SeqOK(s), s.blocks = <<>>, DOMAIN s = Fields, try_start(s).ok
    PROVE  LET t == try_start(s)
           IN  /\ Exchanged(pool, t.pool, <<>>, t.seq.blocks) /\ SeqOK(t.seq) /\ Active(t.seq)
               /\ t.seq.tokens = s.tokens
<1> DEFINE t == try_start(s)
           m == CachedPrefix(s)
<1>1. /\ Matched(s, pool, m.pool, m.blocks)
      /\ \E q : /\ Taken(BlockHashes, m.pool, t.pool, q)
                /\ t.seq = [s EXCEPT !.blocks = m.blocks \o q, !.num_computed = m.tokens,
                                     !.num_cached_blocks = Len(m.blocks), !.status = "prefilling"]
  BY TryStartOK
<1>2. PICK q : /\ Taken(BlockHashes, m.pool, t.pool, q)
               /\ t.seq = [s EXCEPT !.blocks = m.blocks \o q, !.num_computed = m.tokens,
                                    !.num_cached_blocks = Len(m.blocks), !.status = "prefilling"]
  BY <1>1
<1>7. m.tokens \in Nat
  BY CachedPrefixOK
<1> HIDE DEF m, t
<1> DEFINE v == m.blocks \o q
<1>4. m.blocks \in Seq(BlockId) /\ Len(m.blocks) \in Nat /\ PoolOK(BlockHashes, m.pool)
  BY <1>1 DEF Matched
<1>5. v \in Seq(BlockId) /\ Exchanged(m.pool, t.pool, m.blocks, v)
  BY <1>2, <1>4, TakenExchange
<1> HIDE DEF v
<1>6. /\ t.seq.blocks = v /\ t.seq.tokens = s.tokens /\ t.seq.ns = s.ns /\ t.seq.num_computed = m.tokens
      /\ t.seq.num_cached_blocks = Len(m.blocks) /\ t.seq.prompt_len = s.prompt_len
      /\ t.seq.prefill_target = s.prefill_target /\ t.seq.status = "prefilling"
  BY <1>2 DEF Fields, v
<1>8. SeqOK(t.seq) /\ Active(t.seq)
  BY <1>4, <1>5, <1>6, <1>7 DEF SeqOK, Active
<1>9. ASSUME NEW b \in BlockId
      PROVE  t.pool.refcount[b] = pool.refcount[b] - Occ(<<>>, b) + Occ(v, b)
  <2>1. m.pool.refcount[b] = pool.refcount[b] + Occ(m.blocks, b)
    BY <1>1 DEF Matched
  <2>2. t.pool.refcount[b] = m.pool.refcount[b] - Occ(m.blocks, b) + Occ(v, b)
    BY <1>5 DEF Exchanged
  <2>3. pool.refcount[b] \in Nat /\ Occ(m.blocks, b) \in Nat /\ Occ(v, b) \in Nat /\ Occ(<<>>, b) = 0
    BY <1>4, <1>5, OccType, OccPrefix, PoolFields DEF PoolOK
  <2> QED
    BY ONLY <2>1, <2>2, <2>3
<1> QED
  BY <1>5, <1>6, <1>8, <1>9 DEF Exchanged, t

\* Starting the head of the queue.
LEMMA StartWaitingAcc ==
    ASSUME IInv, AccInv, StartWaiting
    PROVE  AccInv'
<1> DEFINE id == Head(waiting)
           t == try_start(seqs[id])
           ss == [seqs EXCEPT ![id] = t.seq]
           q == prefill_chunk(t.seq)
           run == Append(running, id)
           wait == Tail(waiting)
<1>1. /\ phase = "starts" /\ waiting # <<>> /\ t.ok
      /\ PushOrPreempt(ss, t.pool, id, q, run, wait) /\ UNCHANGED fork
  BY DEF StartWaiting, MayStart
<1>2. /\ MemOK(seqs, pool, fork.failed) /\ PlanFits /\ budget \in Nat
      /\ Recorded(seqs) /\ PlanList /\ fork.failed \in BOOLEAN /\ fork.ids = <<>>
  BY <1>1, BatchFacts
<1>3. id \in DOMAIN seqs /\ seqs[id].blocks = <<>> /\ SeqOK(seqs[id]) /\ id \notin ToSet(PlanIds)
  BY <1>1, HeadWaits
<1>4. PoolOK(BlockHashes, pool) /\ DOMAIN seqs[id] = Fields
  BY <1>2, <1>3, MemHold DEF Recorded
<1>5. Exchanged(pool, t.pool, <<>>, t.seq.blocks) /\ SeqOK(t.seq) /\ Active(t.seq)
  BY <1>1, <1>3, <1>4, StartExchange
<1>6. DOMAIN t.seq = Fields /\ t.seq.status = "prefilling"
  BY <1>1, <1>4, TryStartFacts
<1>7. q \in Nat /\ q <= budget
  BY <1>2, <1>5, ChunkOK
<1> HIDE DEF id, t, q, run, wait
<1>8. MemOK(ss, t.pool, fork.failed)
  BY <1>2, <1>3, <1>5, MemOne
<1>9. DOMAIN ss = DOMAIN seqs /\ ss[id] = t.seq /\ \A i \in DOMAIN seqs : i # id => ss[i] = seqs[i]
  BY <1>3
<1>10. Recorded(ss)
  BY <1>2, <1>6, <1>9 DEF Recorded, Statuses
<1>11. \A k \in 1 .. Len(plan) : ss[plan[k].id] = seqs[plan[k].id]
  BY <1>3, PlanIdIn
<1> HIDE DEF ss
<1>12. /\ MemOK(seqs', pool', fork.failed) /\ budget' \in Nat /\ phase' \in {phase, "panicked"}
       /\ phase' # "panicked" => PlanFits'
  BY <1>1, <1>2, <1>3, <1>5, <1>7, <1>8, <1>9, <1>10, <1>11, PushAcc DEF PlanFits
<1> QED
  BY <1>1, <1>2, <1>12, PushBatch

\* A refused start touches nothing but the order of the free list.
LEMMA StartRefusedAcc ==
    ASSUME IInv, AccInv, StartRefused
    PROVE  AccInv'
<1> DEFINE t == try_start(seqs[Head(waiting)])
<1>1. /\ phase = "starts" /\ phase' = "forward" /\ waiting # <<>> /\ ~t.ok /\ pool' = t.pool
      /\ UNCHANGED <<seqs, plan, budget, fork>>
  BY DEF StartRefused, MayStart, queueVars
<1>2. MemOK(seqs, pool, fork.failed) /\ BatchOK /\ \A i \in DOMAIN seqs : SeqOK(seqs[i])
  BY <1>1, BatchFacts, MemHold
<1>3. PoolOK(BlockHashes, pool) /\ SeqOK(seqs[Head(waiting)])
  BY <1>1, <1>2, HeadWaits, MemHold
<1>4. PoolOK(BlockHashes, pool') /\ \A b \in BlockId : pool'.refcount[b] = pool.refcount[b]
  BY <1>1, <1>3, TryStartOK
<1> HIDE DEF t
<1>5. MemOK(seqs', pool', fork'.failed)
  BY <1>1, <1>2, <1>4, MemSame
<1>6. BatchOK'
  BY <1>1, <1>2, LoopBatch
<1> QED
  BY <1>5, <1>6 DEF AccInv

\* advance_computed, field by field.
LEMMA AdvanceIs ==
    ASSUME NEW s, DOMAIN s = Fields, NEW q
    PROVE  LET t == advance_computed(s, q)
           IN  /\ t.num_computed = s.num_computed + q
               /\ t.blocks = s.blocks /\ t.tokens = s.tokens /\ t.ns = s.ns
               /\ t.num_cached_blocks = s.num_cached_blocks /\ t.prompt_len = s.prompt_len
               /\ t.prefill_target = s.prefill_target
               /\ t.stream = s.stream
               /\ Active(t) <=> Active(s)
<1> DEFINE n == s.num_computed + q
           st == IF s.status = "prefilling" /\ s.prefill_target <= n THEN "decoding" ELSE s.status
           u == [s EXCEPT !.num_computed = n, !.status = st]
<1>1. advance_computed(s, q) = u
  BY DEF advance_computed, Fields
<1>2. /\ u.num_computed = n /\ u.blocks = s.blocks /\ u.tokens = s.tokens /\ u.ns = s.ns
      /\ u.num_cached_blocks = s.num_cached_blocks /\ u.prompt_len = s.prompt_len
      /\ u.prefill_target = s.prefill_target /\ u.stream = s.stream /\ u.status = st
  BY DEF Fields
<1>3. st = s.status \/ (st = "decoding" /\ s.status = "prefilling")
  OBVIOUS
<1> HIDE DEF u, st
<1> QED
  BY <1>1, <1>2, <1>3 DEF Active

\* What commit advances, and by how much.
LEMMA CommitAdvanceIs ==
    ASSUME IInv, CommitAdvance
    PROVE  /\ DOMAIN seqs' = DOMAIN seqs /\ ToSet(PlanIds) \subseteq DOMAIN seqs
           /\ \A i \in DOMAIN seqs : i \notin ToSet(PlanIds) => seqs'[i] = seqs[i]
           /\ \A k \in 1 .. Len(plan) : seqs'[plan[k].id] = advance_computed(seqs[plan[k].id], plan[k].q)
<1> DEFINE Planned(i) == \E k \in 1 .. Len(plan) : plan[k].id = i
           At(i) == CHOOSE k \in 1 .. Len(plan) : plan[k].id = i
<1>1. /\ phase = "advance"
      /\ seqs' = [i \in DOMAIN seqs |-> IF Planned(i) THEN advance_computed(seqs[i], plan[At(i)].q) ELSE seqs[i]]
  BY DEF CommitAdvance
<1>2. PlanList /\ ToSet(PlanIds) \subseteq DOMAIN seqs
  BY <1>1, IInvFacts DEF PlanOK
<1>3. ASSUME NEW k \in 1 .. Len(plan)
      PROVE  At(plan[k].id) = k /\ Planned(plan[k].id) /\ plan[k].id \in DOMAIN seqs
  <2> DEFINE l == At(plan[k].id)
  <2>1. l \in 1 .. Len(plan) /\ plan[l].id = plan[k].id
    OBVIOUS
  <2> HIDE DEF l
  <2>2. /\ PlanIds[l] = plan[l].id /\ PlanIds[k] = plan[k].id /\ plan[k].id \in ToSet(PlanIds)
    BY <2>1, PlanIdIn
  <2>3. Len(PlanIds) = Len(plan)
    BY <1>2 DEF PlanList, PlanIds
  <2>4. l = k
    BY <1>2, <2>1, <2>2, <2>3 DEF PlanList, NoRepeats
  <2> QED
    BY <1>2, <2>2, <2>4 DEF l
<1>4. ASSUME NEW i \in DOMAIN seqs, i \notin ToSet(PlanIds)
      PROVE  ~Planned(i)
  BY <1>4, PlanIdIn
<1> HIDE DEF Planned, At
<1> QED
  BY <1>1, <1>2, <1>3, <1>4

\* commit: progress stays within the tokens.
LEMMA CommitAdvanceAcc ==
    ASSUME IInv, AccInv, CommitAdvance
    PROVE  AccInv'
<1>1. /\ phase = "advance" /\ phase' = "tokens" /\ todo' = SampledIds
      /\ UNCHANGED <<pool, budget, plan, sampled, fork>>
  BY DEF CommitAdvance, poolVars
<1>2. /\ MemOK(seqs, pool, fork.failed) /\ BatchOK /\ PlanFits /\ Recorded(seqs)
  BY <1>1, IInvFacts DEF AccInv, BatchOK
<1>3. /\ DOMAIN seqs' = DOMAIN seqs /\ ToSet(PlanIds) \subseteq DOMAIN seqs
      /\ \A i \in DOMAIN seqs : i \notin ToSet(PlanIds) => seqs'[i] = seqs[i]
      /\ \A k \in 1 .. Len(plan) : seqs'[plan[k].id] = advance_computed(seqs[plan[k].id], plan[k].q)
  BY CommitAdvanceIs
<1>4. ASSUME NEW i \in ToSet(PlanIds)
      PROVE  /\ SeqOK(seqs'[i]) /\ seqs'[i].blocks = seqs[i].blocks
             /\ seqs'[i].num_computed <= Len(seqs'[i].tokens)
  <2>1. PICK k \in 1 .. Len(plan) : plan[k].id = i
    BY DEF ToSet, PlanIds
  <2> DEFINE s == seqs[i]
             q == plan[k].q
             t == advance_computed(s, q)
  <2>2. /\ seqs'[i] = t /\ SeqOK(s) /\ DOMAIN s = Fields /\ q \in Nat
        /\ s.num_computed + q <= Len(s.tokens)
    BY <1>2, <1>3, <1>4, <2>1 DEF PlanFits, MemOK, Recorded
  <2>3. /\ t.num_computed = s.num_computed + q
        /\ t.blocks = s.blocks /\ t.tokens = s.tokens /\ t.ns = s.ns
        /\ t.num_cached_blocks = s.num_cached_blocks /\ t.prompt_len = s.prompt_len
        /\ t.prefill_target = s.prefill_target
        /\ Active(t) <=> Active(s)
    BY <2>2, AdvanceIs
  <2> HIDE DEF t, s, q
  <2>4. SeqOK(t)
    BY <2>2, <2>3 DEF SeqOK
  <2> QED
    BY <2>2, <2>3, <2>4 DEF s
<1>5. \A i \in DOMAIN seqs : SeqOK(seqs'[i]) /\ seqs'[i].blocks = seqs[i].blocks
  BY <1>2, <1>3, <1>4 DEF MemOK
<1>6. PoolOK(BlockHashes, pool)
  BY <1>2, MemHold
<1>7. MemOK(seqs', pool', fork'.failed)
  BY <1>1, <1>2, <1>3, <1>5, <1>6, MemSame
<1>8. PlanIds' = PlanIds /\ SampledIds' = SampledIds
  BY <1>1 DEF PlanIds, SampledIds
<1>9. BatchOK'
  BY <1>1, <1>2, <1>4, <1>8 DEF BatchOK
<1> QED
  BY <1>7, <1>9 DEF AccInv

\* push_token, field by field.
LEMMA PushTokenIs ==
    ASSUME NEW s, DOMAIN s = Fields, NEW x
    PROVE  LET t == push_token(s, x)
           IN  /\ t.num_computed = s.num_computed /\ t.blocks = s.blocks
               /\ t.tokens = Append(s.tokens, x) /\ t.ns = s.ns
               /\ t.num_cached_blocks = s.num_cached_blocks /\ t.prompt_len = s.prompt_len
               /\ t.prefill_target = s.prefill_target /\ t.status = s.status /\ t.stream = s.stream
               /\ (SeqOK(s) /\ x \in Tokens) => SeqOK(t)
<1> DEFINE t == push_token(s, x)
<1>1. /\ t.num_computed = s.num_computed /\ t.blocks = s.blocks
      /\ t.tokens = Append(s.tokens, x) /\ t.ns = s.ns
      /\ t.num_cached_blocks = s.num_cached_blocks /\ t.prompt_len = s.prompt_len
      /\ t.prefill_target = s.prefill_target /\ t.status = s.status /\ t.stream = s.stream
  BY DEF push_token, Fields
<1> HIDE DEF t
<1>2. ASSUME SeqOK(s), x \in Tokens PROVE SeqOK(t)
  <2>1. s.tokens \in Seq(Tokens) /\ Len(s.tokens) \in Nat
    BY <1>2 DEF SeqOK
  <2>2. Append(s.tokens, x) \in Seq(Tokens) /\ Len(Append(s.tokens, x)) = Len(s.tokens) + 1
    BY <1>2, <2>1
  <2> QED
    BY <1>1, <1>2, <2>1, <2>2 DEF SeqOK, Active
<1> QED
  BY <1>1, <1>2 DEF t

\* commit: the sampled token, which may end the sequence.
LEMMA CommitTokenAcc ==
    ASSUME IInv, AccInv, CommitToken
    PROVE  AccInv'
<1> DEFINE id == Head(todo)
           ss == [seqs EXCEPT ![id] = push_token(@, sampled[id])]
           reason == check_finished(ss[id])
           ids == IF reason = "none" THEN <<>> ELSE <<id>>
<1>1. /\ phase = "tokens" /\ phase' = "tokens" /\ todo # <<>> /\ todo' = Tail(todo)
      /\ Finish(ss, ids, reason) /\ UNCHANGED <<budget, plan, sampled, fork>>
  BY DEF CommitToken
<1>2. /\ MemOK(seqs, pool, fork.failed) /\ BatchOK /\ Recorded(seqs) /\ ToSet(PlanIds) \subseteq DOMAIN seqs
      /\ \A i \in DOMAIN seqs : SeqOK(seqs[i])
  BY <1>1, IInvFacts, MemHold DEF AccInv, PlanOK
<1>3. /\ id \in DOMAIN seqs /\ id \in Nat /\ id \in ToSet(todo) /\ ToSet(todo') \subseteq ToSet(todo)
  BY CommitTokenFacts
<1>4. sampled[id] \in Tokens
  BY <1>1, <1>2, <1>3 DEF BatchOK, Tokens
<1> HIDE DEF id
<1>5. /\ DOMAIN ss = DOMAIN seqs /\ ss[id] = push_token(seqs[id], sampled[id])
      /\ \A i \in DOMAIN seqs : i # id => ss[i] = seqs[i]
  BY <1>3
<1> HIDE DEF ss
<1>6. /\ ss[id].blocks = seqs[id].blocks /\ SeqOK(ss[id]) /\ ss[id].num_computed = seqs[id].num_computed
      /\ DOMAIN ss[id] = Fields /\ ss[id].status = seqs[id].status
      /\ ss[id].tokens = Append(seqs[id].tokens, sampled[id])
  BY <1>2, <1>3, <1>4, <1>5, PushTokenIs, PushTokenFacts, SMTT(40) DEF Recorded
<1>7. Recorded(ss)
  BY <1>2, <1>5, <1>6 DEF Recorded
<1>8. MemOK(ss, pool, fork.failed)
  <2>1. PoolOK(BlockHashes, pool)
    BY <1>2, MemHold
  <2>2. \A i \in DOMAIN seqs : SeqOK(ss[i]) /\ ss[i].blocks = seqs[i].blocks
    BY <1>2, <1>5, <1>6
  <2>3. DOMAIN ss = DOMAIN seqs /\ MemOK(seqs, pool, fork.failed)
    BY <1>2, <1>5
  <2> QED
    BY ONLY <2>1, <2>2, <2>3, MemSame
<1>9. ids \in Seq(Nat) /\ NoRepeats(ids) /\ ToSet(ids) \subseteq DOMAIN ss
  <2>1. <<id>> \in Seq(Nat) /\ NoRepeats(<<id>>) /\ ToSet(<<id>>) = {id}
    BY <1>3 DEF NoRepeats, ToSet
  <2> QED
    BY <1>3, <1>5, <2>1, EmptySet
<1> HIDE DEF ids, reason
<1>10. /\ MemOK(seqs', pool', fork.failed) /\ DOMAIN seqs' = DOMAIN ss
       /\ \A i \in DOMAIN ss : seqs'[i].tokens = ss[i].tokens /\ seqs'[i].num_computed = ss[i].num_computed
  BY <1>1, <1>7, <1>8, <1>9, FinishMem
<1>11. PlanIds' = PlanIds /\ SampledIds' = SampledIds
  BY <1>1 DEF PlanIds, SampledIds
<1>12. ASSUME NEW i \in ToSet(PlanIds) PROVE seqs'[i].num_computed <= Len(seqs'[i].tokens)
  <2>1. i \in DOMAIN seqs /\ seqs[i].num_computed <= Len(seqs[i].tokens) /\ seqs[i].num_computed \in Nat
    BY <1>1, <1>2, <1>12 DEF BatchOK, SeqOK
  <2>2. CASE i # id
    BY <1>5, <1>10, <2>1, <2>2
  <2>3. CASE i = id
    <3>1. seqs[id].tokens \in Seq(Tokens)
      BY <1>2, <1>3 DEF SeqOK
    <3>2. Len(Append(seqs[id].tokens, sampled[id])) = Len(seqs[id].tokens) + 1 /\ Len(seqs[id].tokens) \in Nat
      BY <1>4, <3>1
    <3> QED
      BY <1>5, <1>6, <1>10, <2>1, <2>3, <3>2
  <2> QED
    BY <2>2, <2>3
<1>13. BatchOK'
  BY <1>1, <1>2, <1>3, <1>11, <1>12 DEF BatchOK
<1> QED
  BY <1>1, <1>10, <1>13 DEF AccInv

\* commit: full blocks are published and the duplicates given back.
LEMMA CommitPublishAcc ==
    ASSUME IInv, AccInv, CommitPublish
    PROVE  AccInv'
<1> DEFINE id == Head(todo)
           s == seqs[id]
           r == publish_full_blocks(s)
<1>1. /\ phase = "publish" /\ phase' = "publish" /\ todo # <<>> /\ todo' = Tail(todo)
      /\ UNCHANGED <<pool, seqs>> \/ (pool' = r.pool /\ seqs' = [seqs EXCEPT ![id] = r.seq])
      /\ UNCHANGED <<budget, plan, sampled, fork>>
  BY DEF CommitPublish
<1>2. /\ MemOK(seqs, pool, fork.failed) /\ BatchOK /\ Recorded(seqs) /\ ToSet(PlanIds) \subseteq DOMAIN seqs
      /\ todo \in Seq(Nat)
  BY <1>1, IInvFacts DEF AccInv, PlanOK, TodoOK
<1>3. id \in ToSet(todo) /\ ToSet(todo') \subseteq ToSet(todo)
  BY <1>1, <1>2, TailSet
<1>4. id \in DOMAIN seqs /\ s.num_computed <= Len(s.tokens) /\ DOMAIN s = Fields
  BY <1>1, <1>2, <1>3 DEF BatchOK, Recorded
<1>5. /\ PoolOK(BlockHashes, pool) /\ SeqOK(s) /\ \A b \in BlockId : pool.refcount[b] >= Occ(s.blocks, b)
  BY <1>2, <1>4, MemHold
<1> HIDE DEF id
<1>6. \E v : /\ Exchanged(pool, r.pool, s.blocks, v) /\ SeqOK(r.seq)
             /\ r.seq = [s EXCEPT !.blocks = v, !.num_cached_blocks = s.num_computed \div BlockSize]
  BY <1>4, <1>5, PublishExchange
<1>7. PICK v : /\ Exchanged(pool, r.pool, s.blocks, v) /\ SeqOK(r.seq)
               /\ r.seq = [s EXCEPT !.blocks = v, !.num_cached_blocks = s.num_computed \div BlockSize]
  BY <1>6
<1>8. r.seq.blocks = v /\ r.seq.tokens = s.tokens /\ r.seq.num_computed = s.num_computed
  BY <1>4, <1>7 DEF Fields
<1> HIDE DEF r
<1>9. MemOK([seqs EXCEPT ![id] = r.seq], r.pool, fork.failed)
  BY <1>2, <1>4, <1>7, <1>8, MemOne
<1>10. MemOK(seqs', pool', fork'.failed)
  BY <1>1, <1>2, <1>9
<1>11. \A i \in DOMAIN seqs : seqs'[i].num_computed = seqs[i].num_computed /\ seqs'[i].tokens = seqs[i].tokens
  BY <1>1, <1>4, <1>8
<1>12. PlanIds' = PlanIds
  BY <1>1 DEF PlanIds
<1>13. BatchOK'
  BY <1>1, <1>2, <1>3, <1>11, <1>12 DEF BatchOK
<1> QED
  BY <1>10, <1>13 DEF AccInv

\* What a fork shares.
LEMMA ForkShares ==
    ASSUME IInv, AccInv, phase = "forking"
    PROVE  /\ MemOK(seqs, pool, fork.failed) /\ BatchOK /\ fork.leader \in DOMAIN seqs
           /\ SeqOK(Leader) /\ DOMAIN Leader = Fields
           /\ ForkShared \in Seq(BlockId) /\ PoolOK(BlockHashes, ForkPool)
           /\ \A b \in BlockId : ForkPool.refcount[b] = pool.refcount[b] + Occ(ForkShared, b)
<1>1. MemOK(seqs, pool, fork.failed) /\ BatchOK /\ fork.leader \in DOMAIN seqs /\ Recorded(seqs)
  BY IInvFacts DEF AccInv, ForkOK
<1>2. /\ PoolOK(BlockHashes, pool) /\ SeqOK(Leader) /\ DOMAIN Leader = Fields
      /\ \A b \in BlockId : pool.refcount[b] >= Occ(Leader.blocks, b)
  BY <1>1, MemHold DEF Leader, Recorded
<1> DEFINE u == Leader.blocks
           n == SmallerOf(ForkFull, Len(u))
<1>3. u \in Seq(BlockId) /\ Len(u) \in Nat /\ ForkFull \in Nat
  <2>1. Leader.num_computed \in Nat /\ BlockSize \in Nat /\ BlockSize > 0
    BY <1>2, PoolAssumption DEF SeqOK
  <2>2. Leader.num_computed \div BlockSize \in Nat
    BY <2>1, DivFacts
  <2>3. Leader.blocks \in Seq(BlockId)
    BY <1>2 DEF SeqOK
  <2> QED
    BY <2>2, <2>3 DEF ForkFull
<1>4. n \in 0 .. Len(u) /\ ForkShared = SubSeq(u, 1, n)
  BY <1>3 DEF SmallerOf, ForkShared
<1> HIDE DEF n, u
<1>5. ForkShared \in Seq(BlockId)
  BY <1>3, <1>4
<1>6. ASSUME NEW b \in BlockId, InList(ForkShared, b) PROVE pool.refcount[b] > 0
  <2>1. Occ(ForkShared, b) \in Nat /\ Occ(ForkShared, b) # 0
    BY <1>5, <1>6, OccType
  <2>2. Occ(ForkShared, b) <= Occ(u, b) /\ Occ(u, b) \in Nat
    BY <1>3, <1>4, OccBound, OccType
  <2>3. pool.refcount[b] >= Occ(u, b) /\ pool.refcount[b] \in Nat
    BY <1>2, PoolFields DEF PoolOK, u
  <2> QED
    BY ONLY <2>1, <2>2, <2>3
<1>7. /\ PoolOK(BlockHashes, ForkPool)
      /\ \A b \in BlockId : ForkPool.refcount[b] = pool.refcount[b] + Occ(ForkShared, b)
  BY <1>2, <1>5, <1>6, ForkPoolOK
<1> QED
  BY <1>1, <1>2, <1>5, <1>7

\* fork: a child with its own references.
LEMMA ForkChildAcc ==
    ASSUME IInv, AccInv, ForkChild
    PROVE  AccInv'
<1> DEFINE private == ForkOpen.block
           v == IF private = NoBlock THEN ForkShared ELSE Append(ForkShared, private)
           c == [Leader EXCEPT
                       !.status = "decoding", !.reason = "none", !.stream = FALSE,
                       !.choice = Len(fork.ids) + 1,
                       !.tokens = SubSeq(@, 1, Leader.prompt_len),
                       !.prefill_target = Leader.prompt_len,
                       !.blocks = v]
<1>1. /\ phase = "forking" /\ phase' = "forking" /\ pool' = ForkOpen.pool /\ seqs' = Bind(seqs, next_id, c)
      /\ UNCHANGED budget
      /\ \E x, y : fork' = [fork EXCEPT !.left = x, !.ids = Append(@, next_id), !.copies = y]
  BY DEF ForkChild
<1>2. /\ MemOK(seqs, pool, fork.failed) /\ BatchOK /\ SeqOK(Leader) /\ DOMAIN Leader = Fields
      /\ ForkShared \in Seq(BlockId) /\ PoolOK(BlockHashes, ForkPool)
      /\ \A b \in BlockId : ForkPool.refcount[b] = pool.refcount[b] + Occ(ForkShared, b)
  BY <1>1, ForkShares
<1>3. /\ next_id \in Nat /\ next_id \notin DOMAIN seqs /\ ForkOK
  BY <1>1, IInvFacts
<1>4. fork'.failed = fork.failed /\ fork'.ids = Append(fork.ids, next_id)
  BY <1>1, <1>3 DEF ForkOK
<1>5. /\ v \in Seq(BlockId) /\ PoolOK(BlockHashes, pool')
      /\ \A b \in BlockId : pool'.refcount[b] = pool.refcount[b] + Occ(v, b)
  <2>1. CASE private = NoBlock
    <3>1. pool' = ForkPool
      <4>1. CASE Len(Leader.blocks) > ForkFull
        BY <2>1, <4>1 DEF ForkChild
      <4>2. CASE ~(Len(Leader.blocks) > ForkFull)
        BY <1>1, <4>2 DEF ForkOpen
      <4> QED
        BY <4>1, <4>2
    <3> QED
      BY <1>2, <2>1, <3>1
  <2>2. CASE private # NoBlock
    <3>1. ForkOpen = allocate(ForkPool)
      BY <2>2, GuardedIs DEF ForkOpen
    <3> DEFINE r == allocate(ForkPool).pool
               q == ForkShared
    <3>2. /\ PoolOK(BlockHashes, r) /\ private \in BlockId
          /\ \A b \in BlockId : r.refcount[b] = ForkPool.refcount[b] + One(private, b)
      BY <1>2, <2>2, <3>1, AllocateEach
    <3>3. pool' = r /\ q \in Seq(BlockId) /\ \A b \in BlockId : ForkPool.refcount[b] = pool.refcount[b] + Occ(q, b)
      BY <1>1, <1>2, <3>1
    <3>4. v = Append(q, private)
      BY <2>2
    <3> HIDE DEF q, r, private, v
    <3>5. ASSUME NEW b \in BlockId PROVE r.refcount[b] = pool.refcount[b] + Occ(v, b)
      <4>1. Occ(v, b) = Occ(q, b) + One(private, b)
        BY <3>2, <3>3, <3>4, OccAppend
      <4>2. Occ(q, b) \in Nat /\ One(private, b) \in Nat
        BY <3>3, OccType DEF One
      <4>3. pool.refcount[b] \in Nat
        BY <1>2, MemHold, PoolFields DEF PoolOK
      <4> QED
        BY <3>2, <3>3, <4>1, <4>2, <4>3
    <3>6. v \in Seq(BlockId)
      BY <3>2, <3>3, <3>4
    <3> QED
      BY <3>2, <3>3, <3>5, <3>6
  <2> QED
    BY <2>1, <2>2
<1> HIDE DEF v, private
<1>6. SeqOK(c) /\ Active(c) /\ c.blocks = v
  <2>1. /\ c.blocks = v /\ c.tokens = SubSeq(Leader.tokens, 1, Leader.prompt_len) /\ c.ns = Leader.ns
        /\ c.num_computed = Leader.num_computed /\ c.num_cached_blocks = Leader.num_cached_blocks
        /\ c.prompt_len = Leader.prompt_len /\ c.prefill_target = Leader.prompt_len
        /\ c.status = "decoding"
    BY <1>2 DEF Fields
  <2> HIDE DEF c
  <2>2. Leader.tokens \in Seq(Tokens) /\ Leader.prompt_len \in 0 .. Len(Leader.tokens)
    BY <1>2 DEF SeqOK
  <2>3. /\ SubSeq(Leader.tokens, 1, Leader.prompt_len) \in Seq(Tokens)
        /\ Len(SubSeq(Leader.tokens, 1, Leader.prompt_len)) = Leader.prompt_len
    BY <2>2
  <2>4. Leader.prompt_len \in 0 .. Leader.prompt_len
    BY <2>2
  <2> QED
    BY <1>2, <1>5, <2>1, <2>3, <2>4 DEF SeqOK, Active
<1> HIDE DEF c
<1>7. MemOK(seqs', pool', fork'.failed)
  BY <1>1, <1>2, <1>3, <1>4, <1>5, <1>6, MemNew
<1>8. ASSUME NEW i \in ToSet(fork'.ids) PROVE i \in DOMAIN seqs' /\ Active(seqs'[i])
  <2>1. ToSet(fork'.ids) = ToSet(fork.ids) \cup {next_id}
    BY <1>3, <1>4, AppendSet DEF ForkOK
  <2>2. /\ seqs'[next_id] = c /\ DOMAIN seqs' = DOMAIN seqs \cup {next_id}
        /\ \A j \in DOMAIN seqs : seqs'[j] = seqs[j]
    BY <1>1, <1>3 DEF Bind
  <2> QED
    BY <1>1, <1>2, <1>6, <1>8, <2>1, <2>2 DEF BatchOK
<1>9. BatchOK'
  BY <1>1, <1>2, <1>4, <1>8 DEF BatchOK
<1> QED
  BY <1>7, <1>9 DEF AccInv

\* fork refused: the references it has taken are lost.
LEMMA ForkFailsAcc ==
    ASSUME IInv, AccInv, ForkFails
    PROVE  AccInv'
<1>1. /\ phase = "forking" /\ pool' = ForkPool /\ EndFork(TRUE) /\ UNCHANGED <<seqs, budget>>
  BY DEF ForkFails
<1>2. /\ MemOK(seqs, pool, fork.failed) /\ BatchOK /\ PoolOK(BlockHashes, ForkPool)
      /\ ForkShared \in Seq(BlockId)
      /\ \A b \in BlockId : ForkPool.refcount[b] = pool.refcount[b] + Occ(ForkShared, b)
  BY <1>1, ForkShares
<1>3. /\ phase' = "forks" /\ fork'.ids = <<>> /\ fork'.failed \in BOOLEAN /\ fork'.failed
  BY <1>1, <1>2, ForkEnds DEF BatchOK
<1>4. PICK lost : Books(seqs, pool, lost)
  BY <1>2 DEF MemOK
<1> DEFINE more == [b \in BlockId |-> lost[b] + Occ(ForkShared, b)]
<1>5. \A b \in BlockId : Occ(ForkShared, b) \in Nat
  BY <1>2, OccType
<1>6. Books(seqs, ForkPool, more)
  <2>1. more \in [BlockId -> Nat]
    BY <1>4, <1>5 DEF Books
  <2>2. Tabled(seqs, DOMAIN seqs)
    BY <1>4 DEF Books
  <2>3. ASSUME NEW b \in BlockId PROVE ForkPool.refcount[b] = more[b] + Count(seqs, DOMAIN seqs, b)
    <3> DEFINE n == Count(seqs, DOMAIN seqs, b)
    <3>1. n \in Nat
      BY <2>2, CountType
    <3> HIDE DEF n
    <3>2. pool.refcount[b] = lost[b] + n /\ lost[b] \in Nat
      BY <1>4 DEF Books, n
    <3>3. ForkPool.refcount[b] = pool.refcount[b] + Occ(ForkShared, b) /\ Occ(ForkShared, b) \in Nat
      BY <1>2, <1>5
    <3>4. ForkPool.refcount[b] = more[b] + n
      BY <3>1, <3>2, <3>3
    <3> QED
      BY <3>4 DEF n
  <2> HIDE DEF more
  <2> QED
    BY <1>2, <2>1, <2>2, <2>3 DEF Books
<1>7. MemOK(seqs', pool', fork'.failed)
  BY <1>1, <1>2, <1>3, <1>6 DEF MemOK
<1>8. BatchOK'
  BY <1>1, <1>2, <1>3, CalmBatch DEF BatchOK
<1> QED
  BY <1>7, <1>8 DEF AccInv

\* seed_fork: the child's first token, and the blocks it needs.
LEMMA SeedForkAcc ==
    ASSUME IInv, AccInv, SeedFork
    PROVE  AccInv'
<1> DEFINE id == Head(fork.ids)
<1>1. phase = "seeding" /\ fork.ids # <<>> /\ UNCHANGED budget
  BY DEF SeedFork
<1>2. MemOK(seqs, pool, fork.failed) /\ BatchOK /\ Recorded(seqs) /\ ForkOK
  BY <1>1, IInvFacts DEF AccInv
<1>3. id \in ToSet(fork.ids) /\ ToSet(Tail(fork.ids)) \subseteq ToSet(fork.ids)
  BY <1>1, <1>2, TailSet DEF ForkOK
<1>4. id \in DOMAIN seqs /\ Active(seqs[id]) /\ DOMAIN seqs[id] = Fields /\ SeqOK(seqs[id])
  BY <1>1, <1>2, <1>3, MemHold DEF BatchOK, Recorded
<1>5. PICK x \in Vocab :
         LET s    == push_token(seqs[id], x)
             need == blocks_for(s.num_computed + 1)
             a    == GuardedMany(pool, need - Len(s.blocks))
             ok   == Len(s.blocks) + Len(a.blocks) >= need
         IN  /\ pool' = a.pool
             /\ seqs' = [seqs EXCEPT ![id] = [s EXCEPT !.blocks = @ \o a.blocks, !.stream = ok]]
             /\ IF ok
                THEN fork' = [fork EXCEPT !.ids = Tail(@)] /\ UNCHANGED <<phase, pending_forks>>
                ELSE EndFork(TRUE)
  BY DEF SeedFork
<1> HIDE DEF id
<1> DEFINE s == push_token(seqs[id], x)
           need == blocks_for(s.num_computed + 1)
           want == need - Len(s.blocks)
           a == GuardedMany(pool, want)
           ok == Len(s.blocks) + Len(a.blocks) >= need
           v == s.blocks \o a.blocks
           t == [s EXCEPT !.blocks = v, !.stream = ok]
<1>6. /\ pool' = a.pool /\ seqs' = [seqs EXCEPT ![id] = [s EXCEPT !.blocks = @ \o a.blocks, !.stream = ok]]
      /\ \/ fork' = [fork EXCEPT !.ids = Tail(@)] /\ UNCHANGED phase
         \/ EndFork(TRUE)
  BY <1>5
<1>7. /\ SeqOK(s) /\ s.blocks = seqs[id].blocks /\ s.status = seqs[id].status
      /\ DOMAIN s = Fields
  BY <1>4, PushTokenIs, PushTokenFacts DEF Tokens
<1> HIDE DEF s
<1>8. want \in Int
  <2>1. s.num_computed \in Nat /\ s.blocks \in Seq(BlockId) /\ BlockSize \in Nat /\ BlockSize > 0
    BY <1>7, PoolAssumption DEF SeqOK
  <2>2. s.num_computed + 1 + BlockSize - 1 \in Nat
    BY <2>1
  <2>3. (s.num_computed + 1 + BlockSize - 1) \div BlockSize \in Nat
    BY <2>1, <2>2, DivFacts
  <2> QED
    BY <2>1, <2>3 DEF blocks_for
<1> HIDE DEF want, need
<1>9. PoolOK(BlockHashes, pool)
  BY <1>2, MemHold
<1>10. Taken(BlockHashes, pool, a.pool, a.blocks)
  BY <1>8, <1>9, GuardedManyOK
<1> HIDE DEF a, ok
<1>11. v \in Seq(BlockId) /\ Exchanged(pool, a.pool, s.blocks, v)
  <2>1. s.blocks \in Seq(BlockId)
    BY <1>7 DEF SeqOK
  <2> QED
    BY <1>9, <1>10, <2>1, TakenExchange
<1>12. seqs' = [seqs EXCEPT ![id] = t]
  BY <1>6, <1>7 DEF Fields
<1> HIDE DEF v
<1>13. /\ t.blocks = v /\ t.tokens = s.tokens /\ t.ns = s.ns /\ t.num_computed = s.num_computed
       /\ t.num_cached_blocks = s.num_cached_blocks /\ t.prompt_len = s.prompt_len
       /\ t.prefill_target = s.prefill_target /\ t.status = s.status
  BY <1>7 DEF Fields
<1> HIDE DEF t
<1>14. SeqOK(t) /\ Active(t)
  BY <1>4, <1>7, <1>11, <1>13 DEF SeqOK, Active
<1>15. MemOK(seqs', pool', fork.failed)
  <2>1. Exchanged(pool, a.pool, seqs[id].blocks, t.blocks)
    BY <1>7, <1>11, <1>13
  <2>2. MemOK([seqs EXCEPT ![id] = t], a.pool, fork.failed)
    BY <1>2, <1>4, <1>14, <2>1, MemOne
  <2> QED
    BY <1>6, <1>12, <2>2
<1>16. DOMAIN seqs' = DOMAIN seqs /\ seqs'[id] = t /\ \A i \in DOMAIN seqs : i # id => seqs'[i] = seqs[i]
  BY <1>4, <1>12
<1>17. CASE fork' = [fork EXCEPT !.ids = Tail(@)] /\ UNCHANGED phase
  <2>1. fork'.ids = Tail(fork.ids) /\ fork'.failed = fork.failed
    BY <1>2, <1>17 DEF ForkOK
  <2>2. BatchOK'
    BY <1>1, <1>2, <1>3, <1>14, <1>16, <1>17, <2>1 DEF BatchOK
  <2> QED
    BY <1>15, <2>1, <2>2 DEF AccInv
<1>18. CASE EndFork(TRUE)
  <2>1. phase' = "forks" /\ fork'.ids = <<>> /\ fork'.failed \in BOOLEAN /\ fork'.failed
    BY <1>2, <1>18, ForkEnds DEF BatchOK
  <2>2. BatchOK'
    BY <1>1, <1>2, <2>1, CalmBatch DEF BatchOK
  <2>3. MemOK(seqs', pool', fork'.failed)
    BY <1>15, <2>1 DEF MemOK
  <2> QED
    BY <2>2, <2>3 DEF AccInv
<1> QED
  BY <1>6, <1>17, <1>18

----------------------------------------------------------------------------
(***************************************************************************)
(* The account, in every reachable state.                                  *)
(***************************************************************************)

\* No block is referenced at the start.
LEMMA InitAcc == Init => AccInv
<1> SUFFICES ASSUME Init PROVE AccInv
  OBVIOUS
<1>1. pool = NewPool /\ seqs = <<>> /\ fork = NoFork /\ phase = "idle" /\ budget = 0
  BY DEF Init
<1>2. PoolOK(BlockHashes, pool) /\ \A b \in BlockId : pool.refcount[b] = 0
  BY <1>1, HashesReal, NewPoolOK DEF NewPool
<1>3. DOMAIN seqs = {} /\ IsFiniteSet(DOMAIN seqs) /\ Tabled(seqs, DOMAIN seqs)
  BY <1>1, FS_EmptySet DEF Tabled
<1> DEFINE lost == [b \in BlockId |-> 0]
<1>4. Books(seqs, pool, lost)
  <2>1. \A b \in BlockId : Count(seqs, DOMAIN seqs, b) = 0
    BY <1>3, CountEmpty
  <2> QED
    BY <1>2, <1>3, <2>1 DEF Books
<1>5. MemOK(seqs, pool, fork.failed)
  <2>1. \A b \in BlockId : lost[b] = 0
    OBVIOUS
  <2> HIDE DEF lost
  <2> QED
    BY <1>3, <1>4, <2>1 DEF MemOK
<1>6. BatchOK
  BY <1>1 DEF BatchOK, NoFork
<1> QED
  BY <1>5, <1>6 DEF AccInv

\* Every step keeps the account.
LEMMA StepAcc == IInv /\ AccInv /\ [Next]_vars => AccInv'
<1> SUFFICES ASSUME IInv, AccInv, [Next]_vars PROVE AccInv'
  OBVIOUS
<1>1. CASE UNCHANGED vars
  <2>1. UNCHANGED <<pool, seqs, phase, todo, budget, plan, sampled, fork>>
    BY <1>1 DEF vars
  <2>2. PlanIds' = PlanIds /\ SampledIds' = SampledIds
    BY <2>1 DEF PlanIds, SampledIds
  <2>3. BatchOK => BatchOK'
    BY <2>1, <2>2 DEF BatchOK, PlanFits
  <2>4. MemOK(seqs', pool', fork'.failed)
    BY <2>1, MemKept DEF AccInv
  <2> QED
    BY <2>1, <2>3, <2>4 DEF AccInv
<1>2. CASE Step
  BY <1>2, ScheduleQuietAcc, ScheduleDecodeAcc, ContinuePrefillAcc, StartWaitingAcc, StartRefusedAcc,
     CommitQuietAcc, FinishStoppedAcc, CommitAdvanceAcc, CommitTokenAcc, CommitPublishAcc,
     ForkQuietAcc, ForkChildAcc, ForkFailsAcc, SeedForkAcc, DrainAcc
     DEF Step
<1>3. CASE ForwardFails \/ DeadlinePassed
  BY <1>3, FailAllAcc
<1>4. ASSUME NEW j \in Jobs, Admit(j) \/ Cancel(j.rid)
      PROVE  AccInv'
  BY <1>4, AdmitAcc, CancelAcc
<1> QED
  BY <1>1, <1>2, <1>3, <1>4 DEF Next

\* The account is an invariant of the scheduler.
THEOREM AccountHolds == Spec => []AccInv
  BY InitAcc, StepAcc, QueuesHold, PTL DEF Spec

\* What the account says of the pool.
LEMMA AccountMeans == AccInv => PoolConsistent /\ (fork.failed \/ NoLeak)
<1> SUFFICES ASSUME AccInv PROVE PoolConsistent /\ (fork.failed \/ NoLeak)
  OBVIOUS
<1>1. PICK lost : Books(seqs, pool, lost) /\ (fork.failed \/ \A b \in BlockId : lost[b] = 0)
  BY DEF AccInv, MemOK
<1>2. PoolConsistent
  BY <1>1 DEF Books, PoolOK, PoolConsistent
<1>3. ASSUME \A b \in BlockId : lost[b] = 0
      PROVE  NoLeak
  <2>1. ASSUME NEW b \in BlockId
        PROVE  pool.refcount[b] = Cardinality(Holders(seqs, b))
    <3>1. Tabled(seqs, DOMAIN seqs) /\ pool.refcount[b] = lost[b] + Count(seqs, DOMAIN seqs, b)
      BY <1>1 DEF Books
    <3>2. Count(seqs, DOMAIN seqs, b) \in Nat
      BY <3>1, CountType
    <3>3. Cardinality(Holders(seqs, b)) = Count(seqs, DOMAIN seqs, b)
      BY AllHolders
    <3>4. lost[b] = 0
      BY <1>3
    <3> QED
      BY ONLY <3>1, <3>2, <3>3, <3>4
  <2> QED
    BY <2>1 DEF NoLeak
<1> QED
  BY <1>1, <1>2, <1>3

\* BlockPool::check_invariants after every operation of the scheduler: the free
\* list holds each unreferenced block once, and the index and the blocks' own
\* hashes are inverse maps, in every schedule, failed forks included.
THEOREM PoolAlwaysConsistent == Spec => []PoolConsistent
  BY AccountHolds, AccountMeans, PTL

\* Scheduler::admit, schedule, commit, fork, cancel and fail_all: until a fork
\* has failed, the references the pool counts for a block are exactly its
\* places in the block tables, at every point of every schedule; whatever is
\* preempted, cancelled or deduplicated in the middle of a step loses none and
\* frees none twice.
THEOREM NothingLeaks == Spec => [](fork.failed \/ NoLeak)
  BY AccountHolds, AccountMeans, PTL

\* Without forks none fails.
LEMMA ForkKept == NoForks /\ [Next]_vars => fork' = fork
<1> SUFFICES ASSUME NoForks, [Next]_vars PROVE fork' = fork
  OBVIOUS
<1>1. CASE UNCHANGED vars
  BY <1>1 DEF vars
<1>2. ~(BeginFork \/ ForkChild \/ ForkFails \/ CopyBlocks \/ CopyFails \/ SeedFork \/ EndSeeding)
  BY DEF NoForks, BeginFork, ForkChild, ForkFails, CopyBlocks, CopyFails, SeedFork, EndSeeding
<1>3. CASE BeginStep \/ SkipDecode \/ ScheduleDecode \/ EndDecodes \/ ContinuePrefill \/ EndPrefills
           \/ StartWaiting \/ StartRefused \/ EndStarts
  BY <1>3 DEF BeginStep, SkipDecode, ScheduleDecode, EndDecodes, ContinuePrefill, EndPrefills,
     StartWaiting, StartRefused, EndStarts
<1>4. CASE Forward \/ EmptyPlan \/ FinishStopped \/ CommitAdvance \/ CommitToken \/ EndTokens
           \/ CommitPublish \/ EndPublish \/ EndForks \/ Drain
  BY <1>4 DEF Forward, EmptyPlan, FinishStopped, CommitAdvance, CommitToken, EndTokens,
     CommitPublish, EndPublish, EndForks, Drain
<1>5. CASE ForwardFails \/ DeadlinePassed
  BY <1>5 DEF ForwardFails, DeadlinePassed, FailAll
<1>6. ASSUME NEW j \in Jobs, Admit(j) \/ Cancel(j.rid)
      PROVE  fork' = fork
  BY <1>6 DEF Admit, Cancel, stepVars
<1> QED
  BY <1>1, <1>2, <1>3, <1>4, <1>5, <1>6 DEF Next, Step

\* With one choice per request, NoLeak as it is checked: "they leak and the
\* pool slowly starves" (pool.rs, PrefixMatch) never happens.
THEOREM NothingEverLeaks == OneChoice => (Spec => []NoLeak)
<1> SUFFICES ASSUME OneChoice PROVE Spec => []NoLeak
  OBVIOUS
<1> DEFINE Whole == ~fork.failed
<1>1. Init => NoForks /\ Whole
  BY DEF Init, NoForks, NoFork
<1>2. IInv /\ NoForks /\ [Next]_vars => NoForks'
  BY StepNoForks
<1>3. NoForks /\ Whole /\ [Next]_vars => Whole'
  BY ForkKept
<1>4. AccInv /\ Whole => NoLeak
  BY AccountMeans
<1> HIDE DEF Whole
<1> QED
  BY <1>1, <1>2, <1>3, <1>4, AccountHolds, QueuesHold, PTL DEF Spec

----------------------------------------------------------------------------
(***************************************************************************)
(* What the device holds.                                                  *)
(***************************************************************************)

\* The slots c of a block published under h hold the prefix that h names.
Shows(c, h) == \A o \in Offset : c[o] = SubSeq(h[2], 1, Len(h[2]) - BlockSize + o + 1)

\* Every indexed block does.
IndexKv(p, v) == \A b \in BlockId : p.hash_of[b] # NoHash => Shows(v[b], p.hash_of[b])

\* The positions from place first * BlockSize up to n hold the K/V of the
\* sequence's own tokens.
RightFrom(s, first, n, v) ==
    \A i \in Nat : (first * BlockSize <= i /\ i < n) =>
        v[s.blocks[(i \div BlockSize) + 1]][i % BlockSize] = SubSeq(s.tokens, 1, i + 1)

\* The block table of a running sequence covers what it has computed; its first
\* blocks are indexed under its own tokens, and the others are its own alone.
Laid(s, p) ==
    /\ s.num_cached_blocks <= Len(s.blocks)
    /\ s.num_cached_blocks * BlockSize <= s.num_computed
    /\ s.num_computed <= Len(s.tokens)
    /\ s.num_computed <= Len(s.blocks) * BlockSize
    /\ \A k \in 1 .. Len(s.blocks) :
          IF k <= s.num_cached_blocks
          THEN p.hash_of[s.blocks[k]] = <<s.ns, SubSeq(s.tokens, 1, k * BlockSize)>>
          ELSE p.hash_of[s.blocks[k]] = NoHash /\ p.refcount[s.blocks[k]] = 1

\* A running sequence is laid out and what it has computed past its indexed
\* blocks is right.
Held(s, p, v) ==
    Active(s) => Laid(s, p) /\ RightFrom(s, s.num_cached_blocks, s.num_computed, v)

\* Every sequence has a stream and something to compute.
Sound(s) == s.stream = TRUE /\ s.prompt_len > 0 /\ s.prefill_target > 0

\* The sequences, the pool and the device agree.
KvOK(ss, p, v) ==
    /\ \A i \in DOMAIN ss : Sound(ss[i]) /\ Held(ss[i], p, v)
    /\ IndexKv(p, v)

\* The place of a position in the block table, and in its block.
LEMMA PlaceOf ==
    ASSUME NEW i \in Nat, NEW c \in Nat, NEW n \in Nat
    PROVE  /\ (i \div BlockSize) + 1 \in Nat /\ i \div BlockSize \in Nat /\ i % BlockSize \in Offset
           /\ i = (i \div BlockSize) * BlockSize + (i % BlockSize)
           /\ (i \div BlockSize) * BlockSize \in Nat
           /\ c * BlockSize <= i <=> c < (i \div BlockSize) + 1
           /\ i < n * BlockSize <=> (i \div BlockSize) + 1 <= n
<1>0. BlockSize \in Nat /\ BlockSize > 0
  BY PoolAssumption
<1> DEFINE q == i \div BlockSize
           r == i % BlockSize
           cb == c * BlockSize
           nb == n * BlockSize
           qb == q * BlockSize
<1>1. q \in Nat /\ r \in 0 .. (BlockSize - 1) /\ i = qb + r /\ qb \in Nat
  BY <1>0, DivFacts
<1>2. c <= q <=> cb <= i
  BY <1>0, MulDiv
<1>3. n <= q <=> nb <= i
  BY <1>0, MulDiv
<1>4. cb \in Nat /\ nb \in Nat
  BY <1>0, MulMono
<1> HIDE DEF q, r, cb, nb, qb
<1>5. (cb <= i <=> c < q + 1) /\ (i < nb <=> q + 1 <= n)
  BY <1>1, <1>2, <1>3, <1>4
<1> QED
  BY <1>1, <1>5 DEF q, r, cb, nb, qb, Offset

\* The position of a slot of block k.
LEMMA SlotAt ==
    ASSUME NEW k \in Nat, k > 0, NEW o \in Offset
    PROVE  LET i == k * BlockSize - BlockSize + o
           IN  /\ i \in Nat /\ i \div BlockSize + 1 = k /\ i % BlockSize = o
               /\ k * BlockSize \in Nat /\ i + 1 \in 1 .. (k * BlockSize)
               /\ (k - 1) * BlockSize <= i
<1>0. BlockSize \in Nat /\ BlockSize > 0 /\ o \in Nat /\ o < BlockSize
  BY PoolAssumption DEF Offset
<1> DEFINE l == k - 1
           kb == k * BlockSize
           lb == l * BlockSize
           i == kb - BlockSize + o
           q == i \div BlockSize
           r == i % BlockSize
           qb == q * BlockSize
<1>1. l \in Nat /\ lb = kb - BlockSize /\ kb \in Nat /\ lb \in Nat
  BY <1>0, MulSucc, MulMono
<1> HIDE DEF l, kb, lb
<1>2. i \in Nat /\ lb <= i /\ i < kb
  BY <1>0, <1>1
<1>3. /\ l \in Nat /\ k \in Nat /\ q \in Nat /\ r \in Offset /\ i = qb + r
      /\ l * BlockSize <= i <=> l < q + 1 
      /\ i < k * BlockSize <=> q + 1 <= k
  BY <1>1, <1>2, PlaceOf
<1> HIDE DEF i, q, r, qb
<1>4. q + 1 = k
  BY <1>2, <1>3 DEF l, kb, lb
<1>5. qb = lb
  <2>1. q = l
    BY <1>3, <1>4 DEF l
  <2> QED
    BY <2>1 DEF qb, lb
<1>6. r = o
  BY <1>0, <1>1, <1>3, <1>5 DEF i, Offset
<1>7. i + 1 \in 1 .. kb
  BY <1>0, <1>2, <1>1
<1> QED
  BY <1>1, <1>2, <1>4, <1>6, <1>7 DEF i, q, r, kb, lb, l

\* What is computed up to n is right, the indexed blocks included.
LEMMA HeldRight ==
    ASSUME NEW s, SeqOK(s), NEW p, NEW v, Laid(s, p), IndexKv(p, v), NEW n \in Nat,
           n <= Len(s.blocks) * BlockSize, RightFrom(s, s.num_cached_blocks, n, v)
    PROVE  RightFrom(s, 0, n, v)
<1> DEFINE c == s.num_cached_blocks
<1>0. /\ BlockSize \in Nat /\ BlockSize > 0 /\ c \in Nat /\ s.tokens \in Seq(Tokens) /\ s.ns \in Tenants
      /\ s.blocks \in Seq(BlockId) /\ Len(s.blocks) \in Nat /\ s.num_computed \in Nat /\ Len(s.tokens) \in Nat
  BY PoolAssumption DEF SeqOK
<1> SUFFICES ASSUME NEW i \in Nat, i < n
             PROVE  v[s.blocks[(i \div BlockSize) + 1]][i % BlockSize] = SubSeq(s.tokens, 1, i + 1)
  BY DEF RightFrom
<1>1. CASE c * BlockSize <= i
  BY <1>1 DEF RightFrom
<1>2. CASE ~(c * BlockSize <= i)
  <2> DEFINE k == (i \div BlockSize) + 1
             o == i % BlockSize
             b == s.blocks[k]
             kb == k * BlockSize
             u == SubSeq(s.tokens, 1, kb)
             h == <<s.ns, u>>
  <2>0. /\ k \in Nat /\ i \div BlockSize \in Nat /\ o \in Offset
        /\ i = (i \div BlockSize) * BlockSize + o /\ (i \div BlockSize) * BlockSize \in Nat
        /\ c * BlockSize <= i <=> c < k
    BY <1>0, PlaceOf
  <2>1. /\ k \in Nat /\ k > 0 /\ k <= c /\ o \in Offset
        /\ i = (i \div BlockSize) * BlockSize + o /\ (i \div BlockSize) * BlockSize \in Nat
    <3>1. ~(c < k)
      BY <1>2, <2>0
    <3>2. k > 0
      BY <2>0
    <3> HIDE DEF k, o
    <3> QED
      BY <1>0, <2>0, <3>1, <3>2
  <2>2. c <= Len(s.blocks) /\ c * BlockSize <= s.num_computed /\ s.num_computed <= Len(s.tokens)
    BY DEF Laid
  <2>3. k \in 1 .. Len(s.blocks)
    BY <1>0, <2>1, <2>2
  <2>4. p.hash_of[b] = h /\ b \in BlockId
    <3> HIDE DEF k
    <3>1. p.hash_of[b] = h
      BY <2>1, <2>3 DEF Laid
    <3>2. b \in BlockId
      BY <1>0, <2>3
    <3> QED
      BY <3>1, <3>2
  <2>5. kb = (i \div BlockSize) * BlockSize + BlockSize
    <3>1. i \div BlockSize \in Nat
      BY <1>0, PlaceOf
    <3> QED
      BY <1>0, <3>1, MulSucc
  <2>6. kb \in Nat /\ kb <= c * BlockSize /\ c * BlockSize \in Nat
    <3>1. k \in Nat /\ c \in Nat /\ k <= c
      BY <1>0, <2>1
    <3> HIDE DEF k, c
    <3> QED
      BY <1>0, <3>1, MulMono
  <2>7. kb \in 0 .. Len(s.tokens) /\ i + 1 \in 0 .. kb /\ kb - BlockSize + o + 1 = i + 1
    <3>0. o \in Nat /\ o < BlockSize
      BY <1>0, <2>1 DEF Offset
    <3> DEFINE qb == (i \div BlockSize) * BlockSize
               cb == c * BlockSize
    <3>1. /\ kb = qb + BlockSize /\ qb \in Nat /\ i = qb + o /\ kb <= cb /\ cb \in Nat /\ cb <= s.num_computed
          /\ s.num_computed <= Len(s.tokens)
      BY <2>1, <2>2, <2>5, <2>6
    <3> HIDE DEF kb, qb, cb, o
    <3> QED
      BY <1>0, <3>0, <3>1
  <2> HIDE DEF kb
  <2>8. Len(u) = kb /\ SubSeq(u, 1, i + 1) = SubSeq(s.tokens, 1, i + 1)
    BY <1>0, <2>7, PrefixPrefix
  <2>9. h \in BlockHashes
    <3>1. u \in Seq(Tokens)
      BY <1>0, <2>7, PrefixPrefix
    <3> QED
      BY <1>0, <3>1 DEF BlockHashes
  <2>10. h # NoHash
    BY <2>9, HashesReal
  <2>11. Shows(v[b], h)
    BY <2>4, <2>10 DEF IndexKv
  <2>12. v[b][o] = SubSeq(h[2], 1, Len(h[2]) - BlockSize + o + 1)
    BY <2>1, <2>11 DEF Shows
  <2>13. h[2] = u
    OBVIOUS
  <2> HIDE DEF h, u
  <2>14. v[b][o] = SubSeq(u, 1, i + 1)
    BY <2>7, <2>8, <2>12, <2>13
  <2> QED
    BY <2>8, <2>14
<1> QED
  BY <1>1, <1>2

\* A full block that is right shows what it is published under.
LEMMA FullShows ==
    ASSUME NEW s, SeqOK(s), NEW v, NEW first \in Nat, NEW n \in Nat, n <= Len(s.tokens),
           RightFrom(s, first, n, v), NEW k \in Nat, first < k, k * BlockSize <= n
    PROVE  Shows(v[s.blocks[k]], <<s.ns, SubSeq(s.tokens, 1, k * BlockSize)>>)
<1> DEFINE kb == k * BlockSize
           u == SubSeq(s.tokens, 1, kb)
           h == <<s.ns, u>>
<1>0. BlockSize \in Nat /\ BlockSize > 0 /\ s.tokens \in Seq(Tokens) /\ Len(s.tokens) \in Nat
  BY PoolAssumption DEF SeqOK
<1>1. kb \in Nat /\ kb \in 0 .. Len(s.tokens) /\ kb <= n
  BY <1>0, MulMono
<1> HIDE DEF kb
<1>2. Len(u) = kb
  BY <1>0, <1>1, PrefixPrefix
<1>3. h[2] = u
  OBVIOUS
<1> SUFFICES ASSUME NEW o \in Offset
             PROVE  v[s.blocks[k]][o] = SubSeq(h[2], 1, Len(h[2]) - BlockSize + o + 1)
  BY DEF Shows, kb
<1> DEFINE i == kb - BlockSize + o
<1>4. /\ i \in Nat /\ i \div BlockSize + 1 = k /\ i % BlockSize = o /\ i + 1 \in 1 .. kb
      /\ (k - 1) * BlockSize <= i
  <2>1. k > 0
    OBVIOUS
  <2> QED
    BY <2>1, SlotAt DEF kb
<1>5. first * BlockSize <= i
  <2>1. first <= k - 1 /\ k - 1 \in Nat
    OBVIOUS
  <2>2. first * BlockSize <= (k - 1) * BlockSize /\ first * BlockSize \in Nat /\ (k - 1) * BlockSize \in Nat
    BY <1>0, <2>1, MulMono
  <2> DEFINE x == first * BlockSize
             y == (k - 1) * BlockSize
  <2> HIDE DEF i, x, y
  <2> QED
    BY <1>4, <2>2 DEF x, y
<1>6. SubSeq(u, 1, i + 1) = SubSeq(s.tokens, 1, i + 1)
  <2>1. i + 1 \in 0 .. kb
    BY <1>4
  <2> HIDE DEF i
  <2> QED
    BY <1>0, <1>1, <2>1, PrefixPrefix
<1>7. i + 1 = kb - BlockSize + o + 1
  OBVIOUS
<1> HIDE DEF i, u, h
<1>8. i < n
  BY <1>1, <1>4
<1>9. v[s.blocks[(i \div BlockSize) + 1]][i % BlockSize] = SubSeq(s.tokens, 1, i + 1)
  BY <1>4, <1>5, <1>8 DEF RightFrom
<1> QED
  BY <1>2, <1>3, <1>4, <1>6, <1>7, <1>9

----------------------------------------------------------------------------
(***************************************************************************)
(* A step of one sequence leaves what the others hold alone.               *)
(***************************************************************************)

\* Two tables' references to a block are counted apart.
LEMMA Apart ==
    ASSUME NEW ss, NEW p, NEW failed, MemOK(ss, p, failed), NEW T \in SUBSET (DOMAIN ss),
           NEW j \in DOMAIN ss, j \notin T, NEW b \in BlockId
    PROVE  /\ Count(ss, T, b) \in Nat /\ Occ(ss[j].blocks, b) \in Nat
           /\ p.refcount[b] \in Nat /\ p.refcount[b] >= Count(ss, T, b) + Occ(ss[j].blocks, b)
<1>1. PICK lost : Books(ss, p, lost)
  BY DEF MemOK
<1> DEFINE U == T \cup {j}
<1>2. U \in SUBSET (DOMAIN ss) /\ U \ {j} = T /\ j \in U
  OBVIOUS
<1> HIDE DEF U
<1>3. Tabled(ss, U) /\ p.refcount[b] >= Count(ss, U, b)
  BY <1>1, <1>2, BooksHold
<1>4. /\ Count(ss, U, b) = Count(ss, U \ {j}, b) + Occ(ss[j].blocks, b)
      /\ Count(ss, U \ {j}, b) \in Nat /\ Occ(ss[j].blocks, b) \in Nat
  BY <1>2, <1>3, CountBut
<1>5. p.refcount[b] \in Nat
  <2>1. PoolOK(BlockHashes, p)
    BY MemHold
  <2> QED
    BY <2>1, PoolFields DEF PoolOK
<1> QED
  BY <1>2, <1>3, <1>4, <1>5

\* A block in a table occurs there.
LEMMA InTable ==
    ASSUME NEW q \in Seq(BlockId), NEW k \in 1 .. Len(q)
    PROVE  /\ Occ(q, q[k]) \in Nat /\ Occ(q, q[k]) >= 1 /\ q[k] \in BlockId
           /\ \A l \in 1 .. Len(q) : (l # k /\ q[l] = q[k]) => Occ(q, q[k]) >= 2
<1> DEFINE b == q[k]
           S == PlacesOf(q, b)
<1>1. IsFiniteSet(S) /\ Occ(q, b) \in Nat /\ b \in BlockId
  BY OccType
<1>2. k \in S
  BY DEF PlacesOf
<1>3. Cardinality({k}) = 1 /\ IsFiniteSet({k})
  BY FS_Singleton
<1>4. Cardinality({k}) <= Cardinality(S)
  <2>1. {k} \subseteq S
    BY <1>2
  <2> HIDE DEF S
  <2> QED
    BY <1>1, <2>1, FS_Subset
<1>5. ASSUME NEW l \in 1 .. Len(q), l # k, q[l] = b
      PROVE  Occ(q, b) >= 2
  <2>1. l \in S
    BY <1>5 DEF PlacesOf
  <2> DEFINE K == {k}
             D == K \cup {l}
  <2>2. D \subseteq S
    BY <1>2, <2>1
  <2>3. l \notin K /\ IsFiniteSet(K) /\ Cardinality(K) = 1
    BY <1>3, <1>5
  <2> HIDE DEF K
  <2>4. Cardinality(D) = Cardinality(K) + 1
    BY <2>3, FS_AddElement
  <2> HIDE DEF S, D
  <2>5. Cardinality(D) <= Cardinality(S)
    BY <1>1, <2>2, FS_Subset
  <2>6. Occ(q, b) = Cardinality(S)
    BY DEF Occ, S
  <2>7. Cardinality(D) = 2
    BY <2>3, <2>4
  <2> HIDE DEF b
  <2> QED
    BY <1>1, <2>5, <2>6, <2>7
<1>6. Occ(q, b) = Cardinality(S)
  BY DEF Occ
<1> HIDE DEF S
<1> QED
  BY <1>1, <1>3, <1>4, <1>5, <1>6

\* A block with one reference is in one place of one table.
LEMMA Sole ==
    ASSUME NEW ss, NEW p, NEW failed, MemOK(ss, p, failed), NEW i \in DOMAIN ss, NEW j \in DOMAIN ss,
           NEW k \in 1 .. Len(ss[i].blocks), NEW l \in 1 .. Len(ss[j].blocks),
           ss[i].blocks[k] = ss[j].blocks[l], p.refcount[ss[i].blocks[k]] = 1
    PROVE  i = j /\ k = l
<1> DEFINE b == ss[i].blocks[k]
<1>1. ss[i].blocks \in Seq(BlockId) /\ ss[j].blocks \in Seq(BlockId)
  BY MemHold DEF SeqOK
<1>2. /\ Occ(ss[i].blocks, b) \in Nat /\ Occ(ss[i].blocks, b) >= 1 /\ b \in BlockId
      /\ \A m \in 1 .. Len(ss[i].blocks) : (m # k /\ ss[i].blocks[m] = b) => Occ(ss[i].blocks, b) >= 2
  BY <1>1, InTable
<1>3. Occ(ss[j].blocks, b) \in Nat /\ Occ(ss[j].blocks, b) >= 1
  BY <1>1, InTable
<1>4. p.refcount[b] = 1 /\ ss[j].blocks[l] = b
  OBVIOUS
<1> HIDE DEF b
<1>5. i = j
  <2> SUFFICES ASSUME i # j PROVE FALSE
    OBVIOUS
  <2>1. {i} \in SUBSET (DOMAIN ss) /\ j \notin {i}
    OBVIOUS
  <2>2. p.refcount[b] >= Count(ss, {i}, b) + Occ(ss[j].blocks, b)
    BY <1>2, <2>1, Apart
  <2>3. Count(ss, {i}, b) = Occ(ss[i].blocks, b)
    BY <1>1, CountOne
  <2> QED
    BY <1>2, <1>3, <1>4, <2>2, <2>3
<1>6. p.refcount[b] >= Occ(ss[i].blocks, b)
  BY <1>2, MemHold
<1>7. k = l
  BY <1>2, <1>4, <1>5, <1>6
<1> QED
  BY <1>5, <1>7

\* What the others hold: the content of a block they have a reference to stays,
\* and no reference is added to one without content.
Careful(p, r, u, v) ==
    /\ Exchanged(p, r, u, v)
    /\ \A b \in BlockId : p.refcount[b] > Occ(u, b) =>
          /\ r.hash_of[b] = p.hash_of[b]
          /\ p.hash_of[b] = NoHash => Occ(v, b) <= Occ(u, b)

\* The blocks of a table keep their content, and the private ones stay private.
Undisturbed(p, r, q) ==
    \A k \in 1 .. Len(q) :
        /\ r.hash_of[q[k]] = p.hash_of[q[k]]
        /\ (p.hash_of[q[k]] = NoHash /\ p.refcount[q[k]] = 1) => r.refcount[q[k]] = 1

\* A sequence whose blocks are left alone has what it had.
LEMMA HeldKept ==
    ASSUME NEW s, NEW p, NEW r, NEW v, Held(s, p, v), Undisturbed(p, r, s.blocks),
           \A k \in 1 .. Len(s.blocks) : k <= s.num_cached_blocks \/ k > s.num_cached_blocks
    PROVE  Held(s, r, v)
<1>1. ASSUME Active(s) PROVE Laid(s, r)
  <2>1. Laid(s, p)
    BY <1>1 DEF Held
  <2>2. ASSUME NEW k \in 1 .. Len(s.blocks)
        PROVE  IF k <= s.num_cached_blocks
               THEN r.hash_of[s.blocks[k]] = <<s.ns, SubSeq(s.tokens, 1, k * BlockSize)>>
               ELSE r.hash_of[s.blocks[k]] = NoHash /\ r.refcount[s.blocks[k]] = 1
    BY <2>1 DEF Laid, Undisturbed
  <2> QED
    BY <2>1, <2>2 DEF Laid
<1> QED
  BY <1>1 DEF Held

\* One sequence exchanges its blocks with care.
LEMMA OthersKeep ==
    ASSUME NEW ss, NEW p, NEW failed, MemOK(ss, p, failed), NEW id \in DOMAIN ss,
           NEW v \in Seq(BlockId), NEW r, Careful(p, r, ss[id].blocks, v), NEW j \in DOMAIN ss, j # id,
           NEW w, Held(ss[j], p, w)
    PROVE  Held(ss[j], r, w)
<1> DEFINE u == ss[id].blocks
           q == ss[j].blocks
<1>1. u \in Seq(BlockId) /\ q \in Seq(BlockId)
  BY MemHold DEF SeqOK
<1>2. ASSUME NEW k \in 1 .. Len(q)
      PROVE  /\ r.hash_of[q[k]] = p.hash_of[q[k]]
             /\ (p.hash_of[q[k]] = NoHash /\ p.refcount[q[k]] = 1) => r.refcount[q[k]] = 1
  <2> DEFINE b == q[k]
  <2>1. Occ(q, b) \in Nat /\ Occ(q, b) >= 1 /\ b \in BlockId
    BY <1>1, InTable
  <2>2. {id} \in SUBSET (DOMAIN ss) /\ j \notin {id}
    OBVIOUS
  <2> HIDE DEF b
  <2>3. p.refcount[b] \in Nat /\ p.refcount[b] >= Count(ss, {id}, b) + Occ(q, b)
    BY <2>1, <2>2, Apart
  <2>4. Count(ss, {id}, b) = Occ(u, b)
    BY <1>1, CountOne
  <2>5. Occ(u, b) \in Nat /\ Occ(v, b) \in Nat
    BY <1>1, OccType
  <2>6. p.refcount[b] > Occ(u, b)
    BY <2>1, <2>3, <2>4, <2>5
  <2>7. r.hash_of[b] = p.hash_of[b] /\ (p.hash_of[b] = NoHash => Occ(v, b) <= Occ(u, b))
    BY <2>1, <2>6 DEF Careful
  <2>8. r.refcount[b] = p.refcount[b] - Occ(u, b) + Occ(v, b)
    BY <2>1 DEF Careful, Exchanged
  <2> HIDE DEF u
  <2>9. ASSUME p.hash_of[b] = NoHash, p.refcount[b] = 1 PROVE r.refcount[b] = 1
    BY <2>5, <2>6, <2>7, <2>8, <2>9
  <2> QED
    BY <2>7, <2>9 DEF b
<1>3. Undisturbed(p, r, q)
  BY <1>2 DEF Undisturbed
<1>4. \A k \in 1 .. Len(q) : k <= ss[j].num_cached_blocks \/ k > ss[j].num_cached_blocks
  <2>1. ss[j].num_cached_blocks \in Nat
    BY MemHold DEF SeqOK
  <2> QED
    BY <2>1
<1> QED
  BY <1>3, <1>4, HeldKept

\* One sequence changes.
LEMMA KvOne ==
    ASSUME NEW ss, NEW p, NEW failed, MemOK(ss, p, failed), NEW w, KvOK(ss, p, w), NEW id \in DOMAIN ss,
           NEW t, SeqOK(t), Sound(t), NEW r, Careful(p, r, ss[id].blocks, t.blocks),
           Held(t, r, w), IndexKv(r, w)
    PROVE  KvOK([ss EXCEPT ![id] = t], r, w)
<1> DEFINE tt == [ss EXCEPT ![id] = t]
<1>1. DOMAIN tt = DOMAIN ss /\ tt[id] = t /\ \A j \in DOMAIN ss : j # id => tt[j] = ss[j]
  OBVIOUS
<1> HIDE DEF tt
<1>2. t.blocks \in Seq(BlockId)
  BY DEF SeqOK
<1>3. ASSUME NEW j \in DOMAIN tt PROVE Sound(tt[j]) /\ Held(tt[j], r, w)
  <2>1. CASE j = id
    BY <1>1, <2>1
  <2>2. CASE j # id
    <3>1. tt[j] = ss[j] /\ Sound(ss[j]) /\ Held(ss[j], p, w)
      BY <1>1, <1>3, <2>2 DEF KvOK
    <3>2. Held(ss[j], r, w)
      BY <1>1, <1>2, <1>3, <2>2, <3>1, OthersKeep
    <3> QED
      BY <3>1, <3>2
  <2> QED
    BY <2>1, <2>2
<1> QED
  BY <1>3 DEF KvOK, tt

\* Blocks given back are not those of a sequence that gave nothing back.
LEMMA KvGone ==
    ASSUME NEW ss, NEW p, NEW failed, MemOK(ss, p, failed), NEW w, KvOK(ss, p, w),
           NEW T \in SUBSET (DOMAIN ss), NEW r, GivenBack(p, r, ss, T),
           NEW tt, \A i \in DOMAIN tt : /\ i \in DOMAIN ss
                                        /\ Sound(tt[i])
                                        /\ Active(tt[i]) => i \notin T /\ tt[i] = ss[i]
    PROVE  KvOK(tt, r, w)
<1>1. r.hash_of = p.hash_of
  BY DEF GivenBack
<1>2. IndexKv(r, w)
  BY <1>1 DEF KvOK, IndexKv
<1>3. ASSUME NEW i \in DOMAIN tt PROVE Held(tt[i], r, w)
  <2>1. CASE ~Active(tt[i])
    BY <2>1 DEF Held
  <2>2. CASE Active(tt[i])
    <3>1. i \in DOMAIN ss /\ i \notin T /\ tt[i] = ss[i]
      BY <1>3, <2>2
    <3> DEFINE q == ss[i].blocks
    <3>2. q \in Seq(BlockId) /\ ss[i].num_cached_blocks \in Nat
      BY <3>1, MemHold DEF SeqOK
    <3>3. ASSUME NEW k \in 1 .. Len(q), p.refcount[q[k]] = 1
          PROVE  r.refcount[q[k]] = 1
      <4> DEFINE b == q[k]
      <4>1. Occ(q, b) \in Nat /\ Occ(q, b) >= 1 /\ b \in BlockId
        BY <3>2, InTable
      <4> HIDE DEF b
      <4>2. Count(ss, T, b) \in Nat /\ p.refcount[b] >= Count(ss, T, b) + Occ(q, b)
        BY <3>1, <4>1, Apart
      <4>3. r.refcount[b] = p.refcount[b] - Count(ss, T, b)
        BY <4>1 DEF GivenBack
      <4>4. p.refcount[b] = 1
        BY <3>3 DEF b
      <4> QED
        BY <4>1, <4>2, <4>3, <4>4 DEF b
    <3>4. Undisturbed(p, r, q)
      BY <1>1, <3>3 DEF Undisturbed
    <3>5. \A k \in 1 .. Len(q) : k <= ss[i].num_cached_blocks \/ k > ss[i].num_cached_blocks
      BY <3>2
    <3>6. Held(ss[i], p, w)
      BY <3>1 DEF KvOK
    <3>7. Held(ss[i], r, w)
      BY <3>4, <3>5, <3>6, HeldKept
    <3> QED
      BY <3>1, <3>7
  <2> QED
    BY <2>1, <2>2
<1> QED
  BY <1>2, <1>3 DEF KvOK

----------------------------------------------------------------------------
(***************************************************************************)
(* What the operations on one sequence do to the others, and to the index. *)
(***************************************************************************)

\* Blocks that lose their content take nothing from the index.
LEMMA IndexShrinks ==
    ASSUME NEW p, NEW r, NEW w, IndexKv(p, w), \A b \in BlockId : r.hash_of[b] \in {p.hash_of[b], NoHash}
    PROVE  IndexKv(r, w)
  BY DEF IndexKv

\* Blocks are taken, and added to a table.
LEMMA TakenCareful ==
    ASSUME NEW p, PoolOK(BlockHashes, p), NEW u \in Seq(BlockId), NEW q, NEW r,
           Taken(BlockHashes, p, r, q)
    PROVE  /\ Careful(p, r, u, u \o q)
           /\ \A b \in BlockId : r.hash_of[b] \in {p.hash_of[b], NoHash}
<1>1. u \o q \in Seq(BlockId) /\ Exchanged(p, r, u, u \o q) /\ q \in Seq(BlockId)
  BY TakenExchange DEF Taken
<1>2. ASSUME NEW b \in BlockId, p.refcount[b] > Occ(u, b)
      PROVE  r.hash_of[b] = p.hash_of[b] /\ Occ(u \o q, b) <= Occ(u, b)
  <2>1. Occ(u, b) \in Nat /\ Occ(q, b) \in Nat /\ (Occ(q, b) = 0 <=> ~InList(q, b))
    BY <1>1, OccType
  <2>2. p.refcount[b] \in Nat
    BY PoolFields DEF PoolOK
  <2>3. ~InList(q, b)
    BY <1>2, <2>1, <2>2 DEF Taken
  <2>4. Occ(u \o q, b) = Occ(u, b) + Occ(q, b)
    BY <1>1, OccConcat
  <2>5. r.hash_of[b] = p.hash_of[b]
    BY <2>3 DEF Taken
  <2> QED
    BY <2>1, <2>3, <2>4, <2>5
<1>3. \A b \in BlockId : r.hash_of[b] \in {p.hash_of[b], NoHash}
  BY DEF Taken
<1> QED
  BY <1>1, <1>2, <1>3 DEF Careful

\* A preempted sequence gives everything back.
LEMMA PreemptCareful ==
    ASSUME NEW p, PoolOK(BlockHashes, p), NEW u \in Seq(BlockId), NEW r, Exchanged(p, r, u, <<>>),
           \A b \in BlockId : p.refcount[b] > 0 => r.hash_of[b] = p.hash_of[b]
    PROVE  Careful(p, r, u, <<>>)
<1>1. ASSUME NEW b \in BlockId, p.refcount[b] > Occ(u, b)
      PROVE  r.hash_of[b] = p.hash_of[b] /\ Occ(<<>>, b) <= Occ(u, b)
  <2>1. Occ(u, b) \in Nat /\ Occ(<<>>, b) = 0 /\ p.refcount[b] \in Nat
    BY OccType, OccPrefix, PoolFields DEF PoolOK
  <2> QED
    BY <1>1, <2>1
<1> QED
  BY <1>1 DEF Careful

\* blocks_for blocks have room for n tokens.
LEMMA BlocksRoom ==
    ASSUME NEW n \in Nat, NEW l \in Nat, l >= blocks_for(n)
    PROVE  n <= l * BlockSize
<1>0. BlockSize \in Nat /\ BlockSize > 0
  BY PoolAssumption
<1> DEFINE m == n + BlockSize - 1
           k == m \div BlockSize
           kb == k * BlockSize
           lb == l * BlockSize
<1>1. m \in Nat
  BY <1>0
<1> HIDE DEF m
<1>2. k \in Nat /\ kb \in Nat /\ m < kb + BlockSize
  BY <1>0, <1>1, DivFacts
<1>3. k <= l
  BY DEF blocks_for, m
<1> HIDE DEF k
<1>4. kb <= lb /\ lb \in Nat
  BY <1>0, <1>2, <1>3, MulMono
<1> HIDE DEF kb, lb
<1>5. n <= lb
  BY <1>0, <1>2, <1>4 DEF m
<1> QED
  BY <1>5 DEF lb

\* A sequence that takes fresh blocks has what it had.
LEMMA HeldExtended ==
    ASSUME NEW s, SeqOK(s), NEW p, PoolOK(BlockHashes, p), NEW w, Laid(s, p),
           RightFrom(s, s.num_cached_blocks, s.num_computed, w), NEW q, NEW r, Taken(BlockHashes, p, r, q),
           \A b \in BlockId : p.refcount[b] >= Occ(s.blocks, b),
           NEW t, t.blocks = s.blocks \o q, t.tokens = s.tokens, t.ns = s.ns,
           t.num_computed = s.num_computed, t.num_cached_blocks = s.num_cached_blocks
    PROVE  Held(t, r, w)
<1> DEFINE u == s.blocks
           v == u \o q
           c == s.num_cached_blocks
           n == s.num_computed
<1>1. /\ u \in Seq(BlockId) /\ q \in Seq(BlockId) /\ Len(u) \in Nat /\ Len(q) \in Nat
      /\ c \in Nat /\ n \in Nat /\ BlockSize \in Nat /\ BlockSize > 0
  BY PoolAssumption DEF SeqOK, Taken
<1>2. /\ Len(v) = Len(u) + Len(q) /\ v \in Seq(BlockId)
      /\ \A k \in 1 .. Len(u) : v[k] = u[k]
      /\ \A k \in 1 .. Len(v) : k > Len(u) => v[k] = q[k - Len(u)] /\ k - Len(u) \in 1 .. Len(q)
  BY <1>1
<1>3. c <= Len(u) /\ c * BlockSize <= n /\ n <= Len(s.tokens) /\ n <= Len(u) * BlockSize
  BY DEF Laid
<1>4. n <= Len(v) * BlockSize /\ c <= Len(v)
  <2>1. Len(u) <= Len(v) /\ Len(u) \in Nat /\ Len(v) \in Nat
    BY <1>1, <1>2
  <2> DEFINE a == Len(u)
             b == Len(v)
             ab == a * BlockSize
             bb == b * BlockSize
  <2>2. a <= b /\ a \in Nat /\ b \in Nat /\ n <= ab /\ c <= a
    BY <1>3, <2>1
  <2> HIDE DEF a, b
  <2>3. ab <= bb /\ ab \in Nat /\ bb \in Nat
    BY <1>1, <2>2, MulMono
  <2> HIDE DEF ab, bb
  <2>4. n <= bb /\ c <= b
    BY <1>1, <2>2, <2>3
  <2> QED
    BY <2>4 DEF bb, b
<1> HIDE DEF v
<1>5. ASSUME NEW k \in 1 .. Len(v)
      PROVE  IF k <= c THEN r.hash_of[v[k]] = <<s.ns, SubSeq(s.tokens, 1, k * BlockSize)>>
                       ELSE r.hash_of[v[k]] = NoHash /\ r.refcount[v[k]] = 1
  <2>1. CASE k <= Len(u)
    <3>1. k \in 1 .. Len(u) /\ v[k] = u[k]
      BY <1>1, <1>2, <2>1
    <3>2. Occ(u, u[k]) \in Nat /\ Occ(u, u[k]) >= 1 /\ u[k] \in BlockId
      BY <1>1, <3>1, InTable
    <3>3. p.refcount[u[k]] \in Nat /\ p.refcount[u[k]] >= 1
      <4>1. p.refcount[u[k]] \in Nat /\ p.refcount[u[k]] >= Occ(u, u[k])
        BY <3>2, PoolFields DEF PoolOK
      <4> QED
        BY <3>2, <4>1
    <3>4. ~InList(q, u[k])
      BY <3>2, <3>3 DEF Taken
    <3>5. /\ r.hash_of[u[k]] = p.hash_of[u[k]] /\ r.refcount[u[k]] = p.refcount[u[k]] + Occ(q, u[k])
          /\ Occ(q, u[k]) = 0
      BY <1>1, <3>2, <3>4, OccType DEF Taken
    <3>6. r.refcount[u[k]] = p.refcount[u[k]]
      BY <3>3, <3>5
    <3>7. IF k <= c THEN p.hash_of[u[k]] = <<s.ns, SubSeq(s.tokens, 1, k * BlockSize)>>
                    ELSE p.hash_of[u[k]] = NoHash /\ p.refcount[u[k]] = 1
      BY <3>1 DEF Laid
    <3> QED
      BY <3>1, <3>5, <3>6, <3>7
  <2>2. CASE k > Len(u)
    <3>1. ~(k <= c) /\ v[k] = q[k - Len(u)] /\ k - Len(u) \in 1 .. Len(q)
      BY <1>1, <1>2, <1>3, <2>2
    <3>2. v[k] \in BlockId /\ InList(q, v[k])
      BY <1>1, <3>1 DEF InList
    <3> QED
      BY <3>1, <3>2 DEF Taken
  <2> QED
    BY <1>1, <2>1, <2>2
<1>6. Laid(t, r)
  BY <1>3, <1>4, <1>5 DEF Laid, v
<1>7. ASSUME NEW i \in Nat, c * BlockSize <= i /\ i < n
      PROVE  w[v[(i \div BlockSize) + 1]][i % BlockSize] = SubSeq(s.tokens, 1, i + 1)
  <2> DEFINE k == (i \div BlockSize) + 1
             a == Len(u)
             ab == a * BlockSize
  <2>0. a \in Nat /\ i \div BlockSize \in Nat /\ (i < ab <=> k <= a)
    BY <1>1, PlaceOf
  <2>1. a \in Nat /\ k \in Nat /\ k >= 1 /\ (i < ab <=> k <= a)
    BY <2>0
  <2>2. ab \in Nat /\ n <= ab
    BY <1>1, <1>3, MulMono
  <2> HIDE DEF k, a, ab
  <2>3. k \in 1 .. a
    BY <1>1, <1>7, <2>1, <2>2
  <2>4. v[k] = u[k]
    BY <1>2, <2>3 DEF a
  <2> QED
    BY <1>7, <2>4 DEF RightFrom, k
<1>8. RightFrom(t, t.num_cached_blocks, t.num_computed, w)
  BY <1>7 DEF RightFrom, v
<1> QED
  BY <1>6, <1>8 DEF Held

\* try_extend, or preempt, for one sequence of the batch: no sequence loses
\* what it holds, and what is planned has room.
LEMMA PushKv ==
    ASSUME NEW ss, NEW p, NEW failed, MemOK(ss, p, failed), Recorded(ss), KvOK(ss, p, kv), NEW id \in DOMAIN ss,
           Active(ss[id]), NEW q \in Nat, ss[id].num_computed + q <= Len(ss[id].tokens),
           NEW run, NEW wait, PushOrPreempt(ss, p, id, q, run, wait)
    PROVE  /\ KvOK(seqs', pool', kv) /\ phase' = phase /\ DOMAIN seqs' = DOMAIN ss
           /\ \A i \in DOMAIN ss : i # id => seqs'[i] = ss[i]
           /\ seqs'[id].num_computed = ss[id].num_computed \/ ~Active(seqs'[id])
           /\ seqs'[id].tokens = ss[id].tokens
           /\ \/ plan' = plan
              \/ /\ plan' = Append(plan, [id |-> id, start |-> ss[id].num_computed, q |-> q,
                                          samples |-> ss[id].num_computed + q >= Len(ss[id].tokens)])
                 /\ ss[id].num_computed + q <= Len(seqs'[id].blocks) * BlockSize
<1> DEFINE s == ss[id]
<1>1. /\ PoolOK(BlockHashes, p) /\ SeqOK(s) /\ DOMAIN s = Fields
      /\ \A b \in BlockId : p.refcount[b] >= Occ(s.blocks, b)
  BY MemHold DEF Recorded
<1>2. s.blocks \in Seq(BlockId) /\ s.num_computed \in Nat /\ s.tokens \in Seq(Tokens) /\ Len(s.tokens) \in Nat
  BY <1>1 DEF SeqOK
<1>3. /\ Sound(s) /\ Laid(s, p) /\ RightFrom(s, s.num_cached_blocks, s.num_computed, kv) /\ IndexKv(p, kv)
  BY DEF KvOK, Held
<1>4. \/ \E u : /\ Taken(BlockHashes, p, pool', u)
                /\ seqs' = [ss EXCEPT ![id] = [s EXCEPT !.blocks = s.blocks \o u]]
                /\ Len(s.blocks) + Len(u) >= blocks_for(s.num_computed + q)
                /\ plan' = Append(plan, [id |-> id, start |-> s.num_computed, q |-> q,
                                         samples |-> s.num_computed + q >= total_len(s)])
                /\ phase' = IF s.num_computed + q > total_len(s) THEN "panicked" ELSE phase
      \/ /\ seqs' = [ss EXCEPT ![id] = reset_for_recompute(s)]
         /\ Exchanged(p, pool', s.blocks, <<>>)
         /\ \A b \in BlockId : p.refcount[b] > 0 => pool'.hash_of[b] = p.hash_of[b]
         /\ \A b \in BlockId : pool'.hash_of[b] \in {p.hash_of[b], NoHash}
         /\ plan' = plan /\ phase' = phase
  <2>1. \/ \E u : /\ Taken(BlockHashes, p, pool', u)
                  /\ seqs' = [ss EXCEPT ![id] = [s EXCEPT !.blocks = s.blocks \o u]]
                  /\ Len(s.blocks) + Len(u) >= blocks_for(s.num_computed + q)
                  /\ plan' = Append(plan, [id |-> id, start |-> s.num_computed, q |-> q,
                                           samples |-> s.num_computed + q >= total_len(s)])
                  /\ budget' = budget - q
                  /\ phase' = IF s.num_computed + q > total_len(s) THEN "panicked" ELSE phase
                  /\ running' = run
        \/ /\ seqs' = [ss EXCEPT ![id] = reset_for_recompute(s)]
           /\ Exchanged(p, pool', s.blocks, <<>>)
           /\ \A b \in BlockId : p.refcount[b] > 0 => pool'.hash_of[b] = p.hash_of[b]
           /\ \A b \in BlockId : pool'.hash_of[b] \in {p.hash_of[b], NoHash}
           /\ plan' = plan /\ budget' = budget /\ phase' = phase
           /\ running' = Without(run, {id})
    BY <1>1, PushExchange
  <2> QED
    BY ONLY <2>1
<1>5. ASSUME NEW u, Taken(BlockHashes, p, pool', u),
             seqs' = [ss EXCEPT ![id] = [s EXCEPT !.blocks = s.blocks \o u]],
             Len(s.blocks) + Len(u) >= blocks_for(s.num_computed + q),
             plan' = Append(plan, [id |-> id, start |-> s.num_computed, q |-> q,
                                   samples |-> s.num_computed + q >= total_len(s)]),
             phase' = IF s.num_computed + q > total_len(s) THEN "panicked" ELSE phase
      PROVE  /\ KvOK(seqs', pool', kv) /\ phase' = phase
             /\ seqs'[id].num_computed = s.num_computed /\ seqs'[id].tokens = s.tokens
             /\ plan' = Append(plan, [id |-> id, start |-> s.num_computed, q |-> q,
                                      samples |-> s.num_computed + q >= Len(s.tokens)])
             /\ s.num_computed + q <= Len(seqs'[id].blocks) * BlockSize
  <2> DEFINE v == s.blocks \o u
             t == [s EXCEPT !.blocks = v]
  <2>1. v \in Seq(BlockId) /\ u \in Seq(BlockId) /\ Len(v) = Len(s.blocks) + Len(u) /\ Len(v) \in Nat
    BY <1>2, <1>5 DEF Taken
  <2>2. Careful(p, pool', s.blocks, v) /\ \A b \in BlockId : pool'.hash_of[b] \in {p.hash_of[b], NoHash}
    BY <1>1, <1>2, <1>5, TakenCareful
  <2> HIDE DEF v
  <2>3. /\ t.blocks = v /\ t.tokens = s.tokens /\ t.ns = s.ns /\ t.num_computed = s.num_computed
        /\ t.num_cached_blocks = s.num_cached_blocks /\ t.prompt_len = s.prompt_len
        /\ t.prefill_target = s.prefill_target /\ t.status = s.status /\ t.stream = s.stream
    BY <1>1 DEF Fields
  <2>4. seqs' = [ss EXCEPT ![id] = t]
    BY <1>5 DEF v
  <2> HIDE DEF t
  <2>5. SeqOK(t) /\ Sound(t)
    BY <1>1, <1>3, <2>1, <2>3 DEF SeqOK, Active, Sound
  <2> HIDE DEF s
  <2>6. Held(t, pool', kv)
    BY <1>1, <1>3, <1>5, <2>3, HeldExtended DEF v
  <2>7. IndexKv(pool', kv)
    BY <1>3, <2>2, IndexShrinks
  <2>8. KvOK([ss EXCEPT ![id] = t], pool', kv)
    BY <2>2, <2>3, <2>5, <2>6, <2>7, KvOne DEF s
  <2>9. phase' = phase
    BY <1>2, <1>5 DEF total_len, s
  <2>10. s.num_computed + q <= Len(v) * BlockSize
    <3>1. s.num_computed + q \in Nat /\ Len(v) >= blocks_for(s.num_computed + q)
      BY <1>2, <1>5, <2>1
    <3> QED
      BY <2>1, <3>1, BlocksRoom
  <2>11. seqs'[id] = t
    BY <2>4
  <2> QED
    BY <1>5, <2>3, <2>4, <2>8, <2>9, <2>10, <2>11 DEF total_len
<1>6. ASSUME seqs' = [ss EXCEPT ![id] = reset_for_recompute(s)], Exchanged(p, pool', s.blocks, <<>>),
             \A b \in BlockId : p.refcount[b] > 0 => pool'.hash_of[b] = p.hash_of[b],
             \A b \in BlockId : pool'.hash_of[b] \in {p.hash_of[b], NoHash}
      PROVE  KvOK(seqs', pool', kv) /\ ~Active(seqs'[id]) /\ seqs'[id].tokens = s.tokens
  <2> DEFINE t == reset_for_recompute(s)
  <2>1. /\ t.blocks = <<>> /\ t.tokens = s.tokens /\ t.ns = s.ns /\ t.num_computed = 0
        /\ t.num_cached_blocks = 0 /\ t.prompt_len = s.prompt_len /\ t.stream = s.stream
        /\ t.prefill_target = Len(s.tokens) /\ t.status = "preempted"
    BY <1>1 DEF Fields, reset_for_recompute
  <2>2. seqs' = [ss EXCEPT ![id] = t] /\ seqs'[id] = t
    BY <1>6
  <2> HIDE DEF t
  <2>3. SeqOK(t) /\ ~Active(t)
    BY <1>1, <1>2, <2>1 DEF SeqOK, Active
  <2>4. Sound(t)
    <3>1. s.prompt_len > 0 /\ s.prompt_len \in 0 .. Len(s.tokens) /\ s.stream = TRUE
      BY <1>1, <1>3 DEF Sound, SeqOK
    <3> QED
      BY <1>2, <2>1, <3>1 DEF Sound
  <2>5. Careful(p, pool', s.blocks, <<>>)
    BY <1>1, <1>2, <1>6, PreemptCareful
  <2>6. IndexKv(pool', kv)
    BY <1>3, <1>6, IndexShrinks
  <2>7. Held(t, pool', kv)
    BY <2>3 DEF Held
  <2>8. KvOK([ss EXCEPT ![id] = t], pool', kv)
    BY <2>1, <2>3, <2>4, <2>5, <2>6, <2>7, KvOne
  <2> QED
    BY <2>1, <2>2, <2>3, <2>8
<1>7. DOMAIN seqs' = DOMAIN ss /\ \A i \in DOMAIN ss : i # id => seqs'[i] = ss[i]
  BY <1>4
<1> QED
  BY <1>4, <1>5, <1>6, <1>7

\* try_start: a sequence starts on the indexed blocks of its own tokens and
\* fresh ones of its own.
LEMMA StartCareful ==
    ASSUME PoolOK(BlockHashes, pool), NEW s, SeqOK(s), s.blocks = <<>>, DOMAIN s = Fields, try_start(s).ok,
           Sound(s), NEW w, IndexKv(pool, w)
    PROVE  LET t == try_start(s)
           IN  /\ Careful(pool, t.pool, <<>>, t.seq.blocks) /\ IndexKv(t.pool, w)
               /\ Sound(t.seq) /\ Held(t.seq, t.pool, w)
               /\ t.seq.num_computed < t.seq.prefill_target /\ t.seq.prefill_target <= Len(t.seq.tokens)
               /\ t.seq.num_computed \in Nat /\ t.seq.prefill_target \in Nat
<1> DEFINE t == try_start(s)
           m == CachedPrefix(s)
<1>0. /\ BlockSize \in Nat /\ BlockSize > 0 /\ s.prefill_target \in Nat /\ Len(s.tokens) \in Nat
      /\ s.prefill_target <= Len(s.tokens)
  BY PoolAssumption DEF SeqOK
<1>1. /\ Matched(s, pool, m.pool, m.blocks)
      /\ \E q : /\ Taken(BlockHashes, m.pool, t.pool, q)
                /\ t.seq = [s EXCEPT !.blocks = m.blocks \o q, !.num_computed = m.tokens,
                                     !.num_cached_blocks = Len(m.blocks), !.status = "prefilling"]
  BY TryStartOK
<1>2. PICK q : /\ Taken(BlockHashes, m.pool, t.pool, q)
               /\ t.seq = [s EXCEPT !.blocks = m.blocks \o q, !.num_computed = m.tokens,
                                    !.num_cached_blocks = Len(m.blocks), !.status = "prefilling"]
  BY <1>1
<1>3. m.tokens = Len(m.blocks) * BlockSize /\ m.tokens \in Nat /\ m.tokens < s.prefill_target
  BY CachedPrefixOK DEF Sound
<1>4. Exchanged(pool, t.pool, <<>>, t.seq.blocks) /\ SeqOK(t.seq)
  BY StartExchange
<1> HIDE DEF m, t
<1> DEFINE a == m.blocks
           v == a \o q
           r == t.pool
<1>5. /\ a \in Seq(BlockId) /\ q \in Seq(BlockId) /\ Len(a) \in Nat /\ Len(q) \in Nat /\ PoolOK(BlockHashes, m.pool)
      /\ m.pool.hash_of = pool.hash_of
  BY <1>1, <1>2 DEF Matched, Taken
<1>6. /\ Len(v) = Len(a) + Len(q) /\ v \in Seq(BlockId) /\ Len(v) \in Nat
      /\ \A k \in 1 .. Len(a) : v[k] = a[k]
      /\ \A k \in 1 .. Len(v) : k > Len(a) => v[k] = q[k - Len(a)] /\ k - Len(a) \in 1 .. Len(q)
  BY <1>5
<1> HIDE DEF v
<1>7. /\ t.seq.blocks = v /\ t.seq.tokens = s.tokens /\ t.seq.ns = s.ns /\ t.seq.num_computed = m.tokens
      /\ t.seq.num_cached_blocks = Len(a) /\ t.seq.prompt_len = s.prompt_len
      /\ t.seq.prefill_target = s.prefill_target /\ t.seq.stream = s.stream
  BY <1>2 DEF Fields, v
<1>8. ASSUME NEW b \in BlockId
      PROVE  /\ Occ(q, b) \in Nat /\ Occ(a, b) \in Nat /\ pool.refcount[b] \in Nat
             /\ (Occ(q, b) = 0 <=> ~InList(q, b)) /\ (Occ(a, b) = 0 <=> ~InList(a, b))
             /\ m.pool.refcount[b] = pool.refcount[b] + Occ(a, b)
             /\ InList(q, b) => pool.refcount[b] = 0 /\ Occ(a, b) = 0
             /\ Occ(v, b) = Occ(a, b) + Occ(q, b) /\ Occ(<<>>, b) = 0
  <2>1. /\ Occ(q, b) \in Nat /\ Occ(a, b) \in Nat /\ pool.refcount[b] \in Nat /\ Occ(<<>>, b) = 0
        /\ (Occ(q, b) = 0 <=> ~InList(q, b)) /\ (Occ(a, b) = 0 <=> ~InList(a, b))
    BY <1>5, OccType, OccPrefix, PoolFields DEF PoolOK
  <2>2. m.pool.refcount[b] = pool.refcount[b] + Occ(a, b)
    BY <1>1 DEF Matched
  <2>3. InList(q, b) => m.pool.refcount[b] = 0
    BY <1>2 DEF Taken
  <2>4. Occ(v, b) = Occ(a, b) + Occ(q, b)
    BY <1>5, OccConcat DEF v
  <2>5. InList(q, b) => pool.refcount[b] = 0 /\ Occ(a, b) = 0
    BY <2>1, <2>2, <2>3
  <2> QED
    BY <2>1, <2>2, <2>4, <2>5
<1>9. ASSUME NEW b \in BlockId, InList(a, b) PROVE pool.hash_of[b] # NoHash
  <2>1. PICK k \in 1 .. Len(a) : a[k] = b
    BY <1>9 DEF InList
  <2> QED
    BY <1>1, <2>1 DEF Matched
<1>10. ASSUME NEW b \in BlockId, pool.refcount[b] > Occ(<<>>, b)
       PROVE  r.hash_of[b] = pool.hash_of[b] /\ (pool.hash_of[b] = NoHash => Occ(v, b) <= Occ(<<>>, b))
  <2>1. ~InList(q, b) /\ Occ(q, b) = 0
    BY <1>8, <1>10
  <2>2. r.hash_of[b] = pool.hash_of[b]
    BY <1>2, <1>5, <2>1 DEF Taken
  <2>3. pool.hash_of[b] = NoHash => Occ(v, b) <= Occ(<<>>, b)
    BY <1>8, <1>9, <2>1
  <2> QED
    BY <2>2, <2>3
<1>11. Careful(pool, r, <<>>, v)
  BY <1>4, <1>7, <1>10 DEF Careful
<1>12. \A b \in BlockId : r.hash_of[b] \in {pool.hash_of[b], NoHash}
  BY <1>2, <1>5 DEF Taken
<1>13. IndexKv(r, w)
  BY <1>12, IndexShrinks
<1>14. Sound(t.seq)
  BY <1>7 DEF Sound
<1>15. ASSUME NEW k \in 1 .. Len(v)
       PROVE  IF k <= Len(a) THEN r.hash_of[v[k]] = <<s.ns, SubSeq(s.tokens, 1, k * BlockSize)>>
                             ELSE r.hash_of[v[k]] = NoHash /\ r.refcount[v[k]] = 1
  <2>1. CASE k <= Len(a)
    <3>1. k \in 1 .. Len(a) /\ v[k] = a[k] /\ a[k] \in BlockId
      BY <1>5, <1>6, <2>1
    <3>2. InList(a, a[k])
      BY <3>1 DEF InList
    <3>3. ~InList(q, a[k])
      BY <1>8, <3>1, <3>2
    <3>4. r.hash_of[a[k]] = pool.hash_of[a[k]]
      BY <1>2, <1>5, <3>1, <3>3 DEF Taken
    <3>5. pool.hash_of[a[k]] = <<s.ns, SubSeq(s.tokens, 1, k * BlockSize)>>
      BY <1>1, <3>1 DEF Matched
    <3> QED
      BY <2>1, <3>1, <3>4, <3>5
  <2>2. CASE ~(k <= Len(a))
    <3>1. v[k] = q[k - Len(a)] /\ k - Len(a) \in 1 .. Len(q)
      BY <1>5, <1>6, <2>2
    <3>2. v[k] \in BlockId /\ InList(q, v[k])
      BY <1>5, <3>1 DEF InList
    <3> QED
      BY <1>2, <2>2, <3>2 DEF Taken
  <2> QED
    BY <2>1, <2>2
<1>16. m.tokens <= Len(s.tokens) /\ Len(a) <= Len(v) /\ m.tokens <= Len(v) * BlockSize
  <2>1. Len(a) <= Len(v)
    BY <1>5, <1>6
  <2> DEFINE x == Len(a)
             y == Len(v)
             xb == x * BlockSize
             yb == y * BlockSize
  <2>2. x \in Nat /\ y \in Nat /\ x <= y /\ m.tokens = xb
    BY <1>3, <1>5, <1>6, <2>1
  <2> HIDE DEF x, y
  <2>3. xb <= yb
    BY <1>0, <2>2, MulMono
  <2> HIDE DEF xb, yb
  <2>4. m.tokens <= yb /\ m.tokens <= Len(s.tokens)
    BY <1>0, <1>3, <2>2, <2>3
  <2> QED
    BY <2>1, <2>4 DEF yb, y
<1>17. Laid(t.seq, r)
  <2>1. Len(a) * BlockSize <= m.tokens
    BY <1>3
  <2> QED
    BY <1>7, <1>15, <1>16, <2>1 DEF Laid
<1>18. RightFrom(t.seq, t.seq.num_cached_blocks, t.seq.num_computed, w)
  <2> SUFFICES ASSUME NEW i \in Nat, Len(a) * BlockSize <= i, i < m.tokens PROVE FALSE
    BY <1>7 DEF RightFrom
  <2> QED
    BY <1>3
<1> QED
  BY <1>0, <1>3, <1>7, <1>11, <1>13, <1>14, <1>17, <1>18 DEF Held, t

\* A refused start touches neither references nor content.
LEMMA KvSame ==
    ASSUME NEW ss, NEW p, NEW failed, MemOK(ss, p, failed), NEW w, KvOK(ss, p, w), NEW r,
           r.hash_of = p.hash_of, \A b \in BlockId : r.refcount[b] = p.refcount[b]
    PROVE  KvOK(ss, r, w)
<1>1. ASSUME NEW i \in DOMAIN ss PROVE Held(ss[i], r, w)
  <2>1. SeqOK(ss[i]) /\ Held(ss[i], p, w)
    BY MemHold DEF KvOK
  <2>2. ss[i].blocks \in Seq(BlockId) /\ ss[i].num_cached_blocks \in Nat
    BY <2>1 DEF SeqOK
  <2>3. Undisturbed(p, r, ss[i].blocks)
    BY <2>2 DEF Undisturbed
  <2>4. \A k \in 1 .. Len(ss[i].blocks) : k <= ss[i].num_cached_blocks \/ k > ss[i].num_cached_blocks
    BY <2>2
  <2> QED
    BY <2>1, <2>3, <2>4, HeldKept
<1>2. IndexKv(r, w)
  BY DEF KvOK, IndexKv
<1> QED
  BY <1>1, <1>2 DEF KvOK

\* publish_full_blocks, for a sequence that runs: the table with the canonical
\* blocks is laid out as before, and every block newly in the index shows what
\* it is published under.
LEMMA PublishKv ==
    ASSUME PoolOK(BlockHashes, pool), NEW s, DOMAIN s = Fields, SeqOK(s), NEW w,
           Laid(s, pool), RightFrom(s, s.num_cached_blocks, s.num_computed, w), IndexKv(pool, w),
           ~(s.num_computed \div BlockSize <= s.num_cached_blocks),
           \A b \in BlockId : pool.refcount[b] >= Occ(s.blocks, b)
    PROVE  LET r == publish_full_blocks(s)
           IN  /\ Careful(pool, r.pool, s.blocks, r.seq.blocks) /\ IndexKv(r.pool, w)
               /\ Held(r.seq, r.pool, w)
<1> DEFINE full == s.num_computed \div BlockSize
           hashes == hash_block_chain(s.ns, SubSeq(s.tokens, 1, full * BlockSize))
           first == s.num_cached_blocks
           last == SmallerOf(full, Len(s.blocks))
           done == PublishBlocks(pool, s.blocks, hashes, first, last)
           r == publish_full_blocks(s)
           u == s.blocks
           v == done.blocks
           n == s.num_computed
<1>1. /\ u \in Seq(BlockId) /\ s.tokens \in Seq(Tokens) /\ s.ns \in Tenants /\ n \in Nat /\ first \in Nat
      /\ BlockSize \in Nat /\ BlockSize > 0 /\ Len(u) \in Nat /\ Len(s.tokens) \in Nat
  BY PoolAssumption DEF SeqOK
<1>2. first <= Len(u) /\ first * BlockSize <= n /\ n <= Len(s.tokens) /\ n <= Len(u) * BlockSize
  BY DEF Laid
<1>3. /\ full \in Nat /\ last \in Nat /\ last <= full /\ last <= Len(u)
      /\ \A k \in 1 .. full : hashes[k] = <<s.ns, SubSeq(s.tokens, 1, k * BlockSize)>>
      /\ last > first => Published(pool, u, hashes, first, done, last)
      /\ Exchanged(pool, r.pool, u, v)
      /\ r.pool.hash_of = done.pool.hash_of
      /\ \A b \in BlockId : r.pool.refcount[b] = done.pool.refcount[b] - Occ(done.old, b)
      /\ v \in Seq(BlockId) /\ Len(v) = Len(u)
      /\ r.seq = [s EXCEPT !.blocks = v, !.num_cached_blocks = full]
  BY <1>2, PublishExchange
<1>4. full <= Len(u) /\ full * BlockSize <= n /\ full * BlockSize \in Nat
  <2> DEFINE l == Len(u)
             lb == l * BlockSize
             fb == full * BlockSize
  <2>1. fb <= n /\ fb \in Nat
    BY <1>1, DivFacts
  <2>2. full \in Nat /\ l \in Nat /\ n <= lb /\ lb \in Nat
    <3>1. l \in Nat /\ full \in Nat /\ n <= lb
      BY <1>1, <1>2, <1>3
    <3> HIDE DEF l
    <3> QED
      BY <1>1, <3>1, MulMono
  <2>3. ASSUME full > l PROVE FALSE
    <3>1. l + 1 <= full /\ l + 1 \in Nat
      BY <2>2, <2>3
    <3> HIDE DEF l, full
    <3>2. (l + 1) * BlockSize <= fb /\ (l + 1) * BlockSize = lb + BlockSize
      BY <1>1, <2>2, <3>1, MulMono, MulSucc
    <3> HIDE DEF lb, fb
    <3> QED
      BY <1>1, <2>1, <2>2, <3>2
  <2> HIDE DEF l, full
  <2> QED
    BY <2>1, <2>2, <2>3 DEF l
<1>0. full \in Nat /\ first \in Nat
  BY <1>1, <1>3
<1>5. last = full /\ last > first
  <2>1. ~(full <= first)
    OBVIOUS
  <2> HIDE DEF full, first
  <2>2. last = full
    BY <1>1, <1>3, <1>4 DEF SmallerOf
  <2> HIDE DEF last
  <2> QED
    BY ONLY <1>0, <2>1, <2>2
<1>6. /\ r.seq.blocks = v /\ r.seq.num_cached_blocks = full /\ r.seq.tokens = s.tokens /\ r.seq.ns = s.ns
      /\ r.seq.num_computed = n
  BY <1>3 DEF Fields
<1> HIDE DEF full, hashes, last, done, r
\* The blocks to publish are the sequence's alone.
<1>7. ASSUME NEW k \in 1 .. Len(u), k > first
      PROVE  /\ pool.hash_of[u[k]] = NoHash /\ pool.refcount[u[k]] = 1 /\ u[k] \in BlockId
             /\ Occ(u, u[k]) = 1
             /\ \A l \in 1 .. Len(u) : u[l] = u[k] => l = k
  <2>1. pool.hash_of[u[k]] = NoHash /\ pool.refcount[u[k]] = 1
    BY <1>1, <1>7 DEF Laid
  <2>2. /\ Occ(u, u[k]) \in Nat /\ Occ(u, u[k]) >= 1 /\ u[k] \in BlockId
        /\ \A l \in 1 .. Len(u) : (l # k /\ u[l] = u[k]) => Occ(u, u[k]) >= 2
    BY <1>1, <1>7, InTable
  <2>3. Occ(u, u[k]) <= 1
    BY <2>1, <2>2
  <2> QED
    BY <2>1, <2>2, <2>3
<1>8. Unpublished(pool, u, first)
  BY <1>7 DEF Unpublished
<1>9. Indexed(pool, u, hashes, first, done, full) /\ Accounted(pool, u, done)
  BY <1>3, <1>5, <1>8 DEF Published
<1>10. done.old \in Seq(BlockId)
  BY <1>9 DEF Accounted
<1>11. ASSUME NEW b \in BlockId, r.pool.hash_of[b] # pool.hash_of[b]
       PROVE  \E k \in (first + 1) .. full : b = u[k] /\ r.pool.hash_of[b] = hashes[k]
  BY <1>3, <1>9, <1>11 DEF Indexed
<1>12. ASSUME NEW b \in BlockId, pool.refcount[b] > Occ(u, b)
       PROVE  r.pool.hash_of[b] = pool.hash_of[b] /\ (pool.hash_of[b] = NoHash => Occ(v, b) <= Occ(u, b))
  <2>1. r.pool.hash_of[b] = pool.hash_of[b]
    <3> SUFFICES ASSUME r.pool.hash_of[b] # pool.hash_of[b] PROVE FALSE
      OBVIOUS
    <3>1. PICK k \in (first + 1) .. full : b = u[k]
      BY <1>11
    <3>2. k \in 1 .. Len(u) /\ k > first
      BY <1>1, <1>3, <1>4, <3>1, SMTT(40)
    <3> QED
      BY <1>7, <1>12, <3>1, <3>2
  <2>2. ASSUME pool.hash_of[b] = NoHash PROVE Occ(v, b) <= Occ(u, b)
    <3>1. done.pool.refcount[b] = pool.refcount[b]
      BY <1>3, <1>9, <2>1, <2>2 DEF Indexed
    <3>2. r.pool.refcount[b] = done.pool.refcount[b] - Occ(done.old, b)
      BY <1>3
    <3>3. r.pool.refcount[b] = pool.refcount[b] - Occ(u, b) + Occ(v, b)
      BY <1>3 DEF Exchanged
    <3>4. Occ(u, b) \in Nat /\ Occ(v, b) \in Nat /\ Occ(done.old, b) \in Nat /\ pool.refcount[b] \in Nat
      BY <1>1, <1>3, <1>10, OccType, PoolFields DEF PoolOK
    <3> QED
      BY ONLY <3>1, <3>2, <3>3, <3>4
  <2> QED
    BY <2>1, <2>2
<1>13. Careful(pool, r.pool, u, v)
  BY <1>3, <1>12 DEF Careful
<1>14. ASSUME NEW b \in BlockId, r.pool.hash_of[b] # NoHash
       PROVE  Shows(w[b], r.pool.hash_of[b])
  <2>1. CASE r.pool.hash_of[b] = pool.hash_of[b]
    BY <1>14, <2>1 DEF IndexKv
  <2>2. CASE r.pool.hash_of[b] # pool.hash_of[b]
    <3>1. PICK k \in (first + 1) .. full : b = u[k] /\ r.pool.hash_of[b] = hashes[k]
      BY <1>11, <2>2
    <3>2. k \in Nat /\ first < k /\ k \in 1 .. full /\ k <= full
      BY <1>1, <1>3, <3>1
    <3>3. k * BlockSize <= n
      <4>1. k * BlockSize <= full * BlockSize /\ k * BlockSize \in Nat
        BY <1>1, <1>3, <3>2, MulMono
      <4> DEFINE kb == k * BlockSize
                 fb == full * BlockSize
      <4>2. kb <= fb /\ kb \in Nat /\ fb <= n /\ fb \in Nat
        BY <1>4, <4>1
      <4> HIDE DEF kb, fb
      <4>3. kb <= n
        BY <1>1, <4>2
      <4> QED
        BY <4>3 DEF kb
    <3>4. Shows(w[u[k]], <<s.ns, SubSeq(s.tokens, 1, k * BlockSize)>>)
      BY <1>1, <1>2, <3>2, <3>3, FullShows
    <3> QED
      BY <1>3, <3>1, <3>2, <3>4
  <2> QED
    BY <2>1, <2>2
<1>15. IndexKv(r.pool, w)
  BY <1>14 DEF IndexKv
<1>16. ASSUME NEW k \in 1 .. Len(u), k > full
       PROVE  v[k] = u[k] /\ r.pool.hash_of[u[k]] = NoHash /\ r.pool.refcount[u[k]] = 1
  <2>1. k > first /\ v[k] = u[k]
    BY <1>1, <1>3, <1>5, <1>9, <1>16 DEF Indexed
  <2>2. /\ pool.hash_of[u[k]] = NoHash /\ pool.refcount[u[k]] = 1 /\ u[k] \in BlockId
        /\ \A l \in 1 .. Len(u) : u[l] = u[k] => l = k
    BY <1>7, <2>1
  <2>3. ASSUME NEW l \in (first + 1) .. full PROVE u[l] # u[k]
    <3>1. l \in 1 .. Len(u) /\ l # k
      BY <1>1, <1>3, <1>4, <1>16, SMTT(40)
    <3> QED
      BY <2>2, <3>1
  <2>4. r.pool.hash_of[u[k]] = NoHash
    BY <1>11, <2>2, <2>3
  <2>5. done.pool.refcount[u[k]] = 1
    BY <1>3, <1>9, <2>2, <2>4 DEF Indexed
  <2>6. ~InList(done.old, u[k])
    <3> SUFFICES ASSUME InList(done.old, u[k]) PROVE FALSE
      OBVIOUS
    <3>1. PICK j \in 1 .. Len(done.old) : done.old[j] = u[k]
      BY DEF InList
    <3>2. \E l \in (first + 1) .. full : done.old[j] = u[l]
      BY <1>9, <3>1 DEF Indexed
    <3> QED
      BY <2>3, <3>1, <3>2
  <2>7. Occ(done.old, u[k]) = 0
    BY <1>10, <2>6, OccType
  <2>8. r.pool.refcount[u[k]] = done.pool.refcount[u[k]] - Occ(done.old, u[k])
    BY <1>3, <2>2
  <2>9. r.pool.refcount[u[k]] = 1
    BY <2>5, <2>7, <2>8
  <2> QED
    BY <2>1, <2>4, <2>9
<1>17. ASSUME NEW k \in 1 .. Len(v)
       PROVE  IF k <= full THEN r.pool.hash_of[v[k]] = <<s.ns, SubSeq(s.tokens, 1, k * BlockSize)>>
                           ELSE r.pool.hash_of[v[k]] = NoHash /\ r.pool.refcount[v[k]] = 1
  <2>0. k \in 1 .. Len(u) /\ k \in Nat
    BY <1>1, <1>3
  <2>1. CASE k <= first
    <3>1. k <= full /\ v[k] = u[k] /\ u[k] \in BlockId
      BY <1>1, <1>3, <1>5, <1>9, <2>0, <2>1 DEF Indexed
    <3>2. pool.hash_of[u[k]] = <<s.ns, SubSeq(s.tokens, 1, k * BlockSize)>>
      BY <2>0, <2>1 DEF Laid
    <3>3. k \in 1 .. full
      BY <2>0, <3>1
    <3>4. <<s.ns, SubSeq(s.tokens, 1, k * BlockSize)>> \in BlockHashes
      <4> DEFINE kb == k * BlockSize
                 cb == first * BlockSize
      <4>1. kb \in Nat /\ kb <= cb /\ cb \in Nat /\ cb <= n
        BY <1>1, <1>2, <2>0, <2>1, MulMono
      <4> HIDE DEF kb, cb
      <4>2. kb \in 0 .. Len(s.tokens)
        BY <1>1, <1>2, <4>1
      <4>3. SubSeq(s.tokens, 1, kb) \in Seq(Tokens)
        BY <1>1, <4>2, PrefixPrefix
      <4> QED
        BY <1>1, <4>3 DEF BlockHashes, kb
    <3>5. pool.hash_of[u[k]] # NoHash
      BY <3>2, <3>4, HashesReal
    <3>6. r.pool.hash_of[u[k]] = pool.hash_of[u[k]]
      BY <1>3, <1>9, <3>1, <3>5 DEF Indexed
    <3> QED
      BY <3>1, <3>2, <3>6
  <2>2. CASE k > first /\ k <= full
    <3>1. k \in (first + 1) .. full /\ k \in 1 .. full
      BY <1>1, <1>3, <2>0, <2>2
    <3> QED
      BY <1>3, <1>9, <2>2, <3>1 DEF Indexed
  <2>3. CASE k > full
    BY <1>3, <1>16, <2>0, <2>3
  <2>4. k <= first \/ (k > first /\ k <= full) \/ k > full
    <3> HIDE DEF full, first
    <3> QED
      BY ONLY <1>0, <2>0
  <2> QED
    BY <2>1, <2>2, <2>3, <2>4
<1>18. Laid(r.seq, r.pool)
  <2> HIDE DEF full, first, last, hashes, done, r, u, v, n
  <2>1. Len(v) = Len(u)
    BY <1>3
  <2> QED
    BY ONLY <1>2, <1>4, <1>6, <1>17, <2>1 DEF Laid
<1>19. ASSUME NEW i \in Nat, full * BlockSize <= i, i < n
       PROVE  w[v[(i \div BlockSize) + 1]][i % BlockSize] = SubSeq(s.tokens, 1, i + 1)
  <2> DEFINE k == (i \div BlockSize) + 1
             l == Len(u)
             lb == l * BlockSize
             cb == first * BlockSize
             fb == full * BlockSize
  <2>1. l \in Nat /\ i \div BlockSize \in Nat /\ (i < lb <=> k <= l) /\ (fb <= i <=> full < k)
    BY <1>1, <1>3, PlaceOf
  <2>2. k \in Nat /\ k >= 1
    BY <2>1
  <2>3. lb \in Nat /\ n <= lb /\ cb \in Nat /\ cb <= fb /\ fb \in Nat
    <3>1. n <= lb /\ fb \in Nat
      BY <1>2, <1>4
    <3>2. l \in Nat /\ l <= l
      BY <2>1
    <3>3. first \in Nat /\ full \in Nat /\ first <= full
      BY <1>1, <1>3, <1>5
    <3> HIDE DEF l
    <3>4. lb \in Nat
      BY <1>1, <3>2, MulMono
    <3>5. cb \in Nat /\ cb <= fb
      BY <1>1, <3>3, MulMono
    <3> QED
      BY <3>1, <3>4, <3>5
  <2> HIDE DEF k, l, lb, cb, fb
  <2>4. k \in 1 .. l /\ k > full /\ cb <= i
    BY <1>1, <1>19, <2>1, <2>2, <2>3 DEF fb
  <2>5. v[k] = u[k]
    BY <1>16, <2>4 DEF l
  <2> QED
    BY <1>19, <2>4, <2>5 DEF RightFrom, k, cb
<1>20. RightFrom(r.seq, r.seq.num_cached_blocks, r.seq.num_computed, w)
  BY <1>6, <1>19 DEF RightFrom
<1> QED
  BY <1>6, <1>13, <1>15, <1>18, <1>20 DEF Held, r

\* publish_full_blocks finds nothing to publish in a sequence that no longer
\* runs.
LEMMA PublishIdle ==
    ASSUME PoolOK(BlockHashes, pool), NEW s, DOMAIN s = Fields, SeqOK(s), ~Active(s),
           s.num_computed <= Len(s.tokens)
    PROVE  LET r == publish_full_blocks(s)
           IN  /\ Careful(pool, r.pool, s.blocks, r.seq.blocks) /\ r.pool.hash_of = pool.hash_of
               /\ ~Active(r.seq)
<1> DEFINE full == s.num_computed \div BlockSize
           hashes == hash_block_chain(s.ns, SubSeq(s.tokens, 1, full * BlockSize))
           first == s.num_cached_blocks
           last == SmallerOf(full, Len(s.blocks))
           done == PublishBlocks(pool, s.blocks, hashes, first, last)
           r == publish_full_blocks(s)
<1>1. s.blocks = <<>> /\ Len(s.blocks) = 0 /\ first \in Nat /\ s.blocks \in Seq(BlockId)
  BY DEF SeqOK
<1>2. \A b \in BlockId : pool.refcount[b] \in Nat /\ Occ(s.blocks, b) = 0 /\ pool.refcount[b] >= Occ(s.blocks, b)
  <2>1. \A b \in BlockId : pool.refcount[b] \in Nat /\ Occ(s.blocks, b) = 0
    BY <1>1, OccPrefix, PoolFields DEF PoolOK
  <2> QED
    BY <2>1
<1>3. /\ last \in Nat /\ last <= Len(s.blocks)
      /\ ~(last > first) => Published(pool, s.blocks, hashes, first, done, first)
      /\ Exchanged(pool, r.pool, s.blocks, done.blocks)
      /\ r.pool.hash_of = done.pool.hash_of
      /\ done.blocks \in Seq(BlockId) /\ Len(done.blocks) = Len(s.blocks)
      /\ r.seq = [s EXCEPT !.blocks = done.blocks, !.num_cached_blocks = full]
  BY <1>2, PublishExchange
<1>4. r.seq.blocks = done.blocks /\ r.seq.status = s.status
  BY <1>3 DEF Fields
<1> HIDE DEF full, hashes, last, done, r
<1>5. ~(last > first)
  BY <1>1, <1>3
<1>6. Unpublished(pool, s.blocks, first)
  BY <1>1 DEF Unpublished
<1>7. Indexed(pool, s.blocks, hashes, first, done, first)
  BY <1>3, <1>5, <1>6 DEF Published
<1>8. \A b \in BlockId : done.pool.hash_of[b] = pool.hash_of[b]
  BY <1>1, <1>7 DEF Indexed
<1>9. PoolOK(BlockHashes, r.pool)
  BY <1>3 DEF Exchanged
<1>10. r.pool.hash_of = pool.hash_of
  <2>1. r.pool.hash_of \in [BlockId -> BlockHashes \cup {NoHash}] /\ pool.hash_of \in [BlockId -> BlockHashes \cup {NoHash}]
    BY <1>9, PoolFields DEF PoolOK
  <2>2. \A b \in BlockId : r.pool.hash_of[b] = pool.hash_of[b]
    BY <1>3, <1>8
  <2> QED
    BY <2>1, <2>2
<1>11. done.blocks = s.blocks
  BY <1>1, <1>3
<1>12. Careful(pool, r.pool, s.blocks, done.blocks)
  BY <1>2, <1>3, <1>10, <1>11 DEF Careful
<1> QED
  BY <1>4, <1>10, <1>12 DEF Active, r

\* A token more changes nothing that has been computed.
LEMMA HeldAppended ==
    ASSUME NEW s, SeqOK(s), NEW p, NEW w, Held(s, p, w), NEW x \in Tokens,
           NEW t, t.tokens = Append(s.tokens, x), t.blocks = s.blocks, t.ns = s.ns, t.status = s.status,
           t.num_computed = s.num_computed, t.num_cached_blocks = s.num_cached_blocks
    PROVE  Held(t, p, w)
<1> SUFFICES ASSUME Active(t)
             PROVE  Laid(t, p) /\ RightFrom(t, s.num_cached_blocks, s.num_computed, w)
  BY DEF Held
<1> DEFINE c == s.num_cached_blocks
           n == s.num_computed
           l == Len(s.tokens)
<1>1. /\ s.tokens \in Seq(Tokens) /\ c \in Nat /\ n \in Nat /\ BlockSize \in Nat /\ BlockSize > 0 /\ l \in Nat
      /\ s.blocks \in Seq(BlockId) /\ Len(s.blocks) \in Nat
  BY PoolAssumption DEF SeqOK
<1>2. Laid(s, p) /\ RightFrom(s, c, n, w)
  BY DEF Held, Active
<1>3. c * BlockSize <= n /\ n <= l /\ c <= Len(s.blocks) /\ n <= Len(s.blocks) * BlockSize
  BY <1>2 DEF Laid
<1>4. Len(t.tokens) = l + 1
  BY <1>1
<1>5. ASSUME NEW m \in Nat, m <= l PROVE SubSeq(t.tokens, 1, m) = SubSeq(s.tokens, 1, m)
  BY <1>1, <1>5
<1>6. ASSUME NEW k \in 1 .. Len(s.blocks)
      PROVE  IF k <= c THEN p.hash_of[s.blocks[k]] = <<s.ns, SubSeq(t.tokens, 1, k * BlockSize)>>
                       ELSE p.hash_of[s.blocks[k]] = NoHash /\ p.refcount[s.blocks[k]] = 1
  <2>1. CASE k <= c
    <3> DEFINE kb == k * BlockSize
               cb == c * BlockSize
    <3>0. k \in Nat /\ c \in Nat /\ k <= c /\ BlockSize \in Nat
      BY <1>1, <2>1
    <3>1. kb <= cb /\ kb \in Nat /\ cb \in Nat
      <4> HIDE DEF c
      <4>1. k * BlockSize <= c * BlockSize /\ k * BlockSize \in Nat
        BY ONLY <3>0, MulMono
      <4>2. c <= c /\ c * BlockSize \in Nat
        BY ONLY <3>0, MulMono
      <4> QED
        BY <4>1, <4>2
    <3>2. cb <= n
      BY <1>3
    <3> HIDE DEF kb, cb
    <3>3. kb <= l
      BY <1>1, <1>3, <3>1, <3>2
    <3>4. SubSeq(t.tokens, 1, kb) = SubSeq(s.tokens, 1, kb)
      BY <1>5, <3>1, <3>3
    <3> QED
      BY <1>2, <2>1, <3>4 DEF Laid, kb
  <2>2. CASE ~(k <= c)
    BY <1>2, <2>2 DEF Laid
  <2> QED
    BY <2>1, <2>2
<1>7. Laid(t, p)
  <2>1. n <= l + 1
    BY <1>1, <1>3
  <2> QED
    BY <1>3, <1>4, <1>6, <2>1 DEF Laid
<1>8. ASSUME NEW i \in Nat, c * BlockSize <= i, i < n
      PROVE  w[s.blocks[(i \div BlockSize) + 1]][i % BlockSize] = SubSeq(t.tokens, 1, i + 1)
  <2>1. w[s.blocks[(i \div BlockSize) + 1]][i % BlockSize] = SubSeq(s.tokens, 1, i + 1)
    BY <1>2, <1>8 DEF RightFrom
  <2>2. i + 1 \in Nat /\ i + 1 <= l
    BY <1>1, <1>3, <1>8
  <2>3. SubSeq(t.tokens, 1, i + 1) = SubSeq(s.tokens, 1, i + 1)
    BY <1>5, <2>2
  <2> QED
    BY <2>1, <2>3
<1>9. RightFrom(t, c, n, w)
  BY <1>8 DEF RightFrom
<1> QED
  BY <1>7, <1>9

\* What has been forwarded counts as computed.
LEMMA HeldAdvanced ==
    ASSUME NEW s, SeqOK(s), NEW p, NEW w, Laid(s, p), NEW q \in Nat, s.num_computed + q <= Len(s.tokens),
           s.num_computed + q <= Len(s.blocks) * BlockSize,
           RightFrom(s, s.num_cached_blocks, s.num_computed + q, w),
           NEW t, t.tokens = s.tokens, t.blocks = s.blocks, t.ns = s.ns,
           t.num_computed = s.num_computed + q, t.num_cached_blocks = s.num_cached_blocks
    PROVE  Held(t, p, w)
<1>1. s.num_computed \in Nat /\ s.num_cached_blocks \in Nat /\ BlockSize \in Nat
  BY PoolAssumption DEF SeqOK
<1> DEFINE cb == s.num_cached_blocks * BlockSize
<1>2. cb \in Nat /\ cb <= s.num_computed
  BY <1>1, MulMono DEF Laid
<1> HIDE DEF cb
<1>3. cb <= s.num_computed + q
  BY <1>1, <1>2
<1>4. Laid(t, p)
  BY <1>3 DEF Laid, cb
<1>5. RightFrom(t, t.num_cached_blocks, t.num_computed, w)
  BY DEF RightFrom
<1> QED
  BY <1>4, <1>5 DEF Held

----------------------------------------------------------------------------
(***************************************************************************)
(* The inductive invariant of what the device holds.                       *)
(***************************************************************************)

\* A running sequence has a token to compute, or is about to get one.
Progress ==
    \A i \in DOMAIN seqs : Active(seqs[i]) =>
        seqs[i].num_computed < Len(seqs[i].tokens) \/ (phase = "tokens" /\ i \in ToSet(todo))

\* What is planned has blocks to be written to, and once it was forwarded it
\* holds the sequence's own tokens.  A sequence not sampled for has tokens left.
PlanRoom ==
    /\ phase \in {"decodes", "prefills", "starts", "forward", "stops", "advance"} =>
          \A k \in 1 .. Len(plan) :
              ~plan[k].samples => plan[k].start + plan[k].q < Len(seqs[plan[k].id].tokens)
    /\ phase \in {"decodes", "prefills", "starts", "forward"} =>
          \A k \in 1 .. Len(plan) : plan[k].start + plan[k].q <= Len(seqs[plan[k].id].blocks) * BlockSize
    /\ phase \in {"stops", "advance"} =>
          \A k \in 1 .. Len(plan) : LET s == seqs[plan[k].id]
                                        n == plan[k].start + plan[k].q
                                    IN  Active(s) => /\ n <= Len(s.blocks) * BlockSize
                                                     /\ RightFrom(s, s.num_cached_blocks, n, kv)

\* The inductive invariant of the device, with IInv, AccInv and GenInv, while
\* nothing is forked.
KvInv ==
    /\ phase # "panicked"
    /\ KvOK(seqs, pool, kv)
    /\ Progress
    /\ PlanRoom

\* A step that leaves the sequences and what they hold alone, between the
\* loops over the batch.
LEMMA CalmKv ==
    ASSUME KvOK(seqs', pool', kv'), phase' \in {"idle", "publish", "forks", "drain"},
           \A i \in DOMAIN seqs' : Active(seqs'[i]) => seqs'[i].num_computed < Len(seqs'[i].tokens)
    PROVE  KvInv'
<1>1. Progress'
  BY DEF Progress
<1>2. PlanRoom'
  BY DEF PlanRoom
<1> QED
  BY <1>1, <1>2 DEF KvInv

\* The sequences still have tokens to compute, where nothing is to be committed.
LEMMA Ahead ==
    ASSUME KvInv, phase # "tokens" \/ todo = <<>>, NEW i \in DOMAIN seqs, Active(seqs[i])
    PROVE  seqs[i].num_computed < Len(seqs[i].tokens)
  BY EmptySet DEF KvInv, Progress

\* The steps of the engine that leave sequences, pool and device alone.
LEMMA QuietKv ==
    ASSUME KvInv, \/ BeginStep \/ SkipDecode \/ EndDecodes \/ EndPrefills \/ EndStarts
                  \/ EmptyPlan \/ EndTokens \/ EndPublish \/ EndForks
    PROVE  KvInv'
<1>1. UNCHANGED <<pool, kv, seqs>> /\ (phase # "tokens" \/ todo = <<>>)
  BY DEF BeginStep, SkipDecode, EndDecodes, EndPrefills, EndStarts, EmptyPlan, EndTokens, EndPublish, EndForks,
     poolVars, queueVars
<1>2. KvOK(seqs', pool', kv')
  <2>1. pool' = pool /\ kv' = kv /\ seqs' = seqs /\ KvOK(seqs, pool, kv)
    BY <1>1 DEF KvInv
  <2> QED
    BY <2>1
<1>3. \A i \in DOMAIN seqs' : Active(seqs'[i]) => seqs'[i].num_computed < Len(seqs'[i].tokens)
  BY <1>1, Ahead
<1>4. CASE EmptyPlan \/ EndTokens \/ EndPublish \/ EndForks
  <2>1. phase' \in {"idle", "publish", "forks", "drain"}
    BY <1>4 DEF EmptyPlan, EndTokens, EndPublish, EndForks
  <2> QED
    BY <1>2, <1>3, <2>1, CalmKv
<1>5. CASE BeginStep
  <2>1. phase' = "decodes" /\ plan' = <<>>
    BY <1>5 DEF BeginStep
  <2>2. PlanRoom'
    BY <2>1 DEF PlanRoom
  <2>3. Progress'
    BY <1>3 DEF Progress
  <2> QED
    BY <1>2, <2>1, <2>2, <2>3 DEF KvInv
<1>6. CASE SkipDecode \/ EndDecodes \/ EndPrefills \/ EndStarts
  <2>1. /\ phase \in {"decodes", "prefills", "starts"} /\ phase' \in {"decodes", "prefills", "starts", "forward"}
        /\ plan' = plan
    BY <1>6 DEF SkipDecode, EndDecodes, EndPrefills, EndStarts
  <2>2. PlanRoom'
    BY <1>1, <2>1 DEF KvInv, PlanRoom
  <2>3. Progress'
    BY <1>3 DEF Progress
  <2> QED
    BY <1>2, <2>1, <2>2, <2>3 DEF KvInv
<1> QED
  BY <1>4, <1>5, <1>6

\* A push leaves the batch's business in order.
LEMMA PushRoom ==
    ASSUME KvInv, phase \in {"decodes", "prefills", "starts"}, PlanList,
           NEW ss, NEW p, NEW failed, MemOK(ss, p, failed), Recorded(ss), KvOK(ss, p, kv), NEW id \in DOMAIN ss,
           Active(ss[id]), NEW q \in Nat, ss[id].num_computed + q <= Len(ss[id].tokens),
           ss[id].num_computed < Len(ss[id].tokens),
           NEW run, NEW wait, PushOrPreempt(ss, p, id, q, run, wait), kv' = kv,
           DOMAIN ss = DOMAIN seqs, \A i \in DOMAIN seqs : i # id => ss[i] = seqs[i],
           id \notin ToSet(PlanIds), ToSet(PlanIds) \subseteq DOMAIN seqs
    PROVE  KvInv'
<1> DEFINE e == [id |-> id, start |-> ss[id].num_computed, q |-> q,
                 samples |-> ss[id].num_computed + q >= Len(ss[id].tokens)]
<1>1. /\ KvOK(seqs', pool', kv) /\ phase' = phase /\ DOMAIN seqs' = DOMAIN ss
      /\ \A i \in DOMAIN ss : i # id => seqs'[i] = ss[i]
      /\ seqs'[id].num_computed = ss[id].num_computed \/ ~Active(seqs'[id])
      /\ seqs'[id].tokens = ss[id].tokens
      /\ \/ plan' = plan
         \/ plan' = Append(plan, e) /\ ss[id].num_computed + q <= Len(seqs'[id].blocks) * BlockSize
  BY PushKv
<1>2. e.id = id /\ e.start + e.q = ss[id].num_computed + q
      /\ (~e.samples => ~(ss[id].num_computed + q >= Len(ss[id].tokens)))
  OBVIOUS
<1> HIDE DEF e
<1>3. \A i \in DOMAIN seqs : i # id => seqs'[i] = seqs[i]
  BY <1>1
<1>4. Progress'
  <2>1. ASSUME NEW i \in DOMAIN seqs, Active(seqs'[i]) PROVE seqs'[i].num_computed < Len(seqs'[i].tokens)
    <3>1. CASE i = id
      BY <1>1, <2>1, <3>1
    <3>2. CASE i # id
      <4>1. seqs'[i] = seqs[i]
        BY <1>3, <3>2
      <4>2. phase # "tokens"
        OBVIOUS
      <4> QED
        BY <2>1, <4>1, <4>2, Ahead
    <3> QED
      BY <3>1, <3>2
  <2> QED
    BY <1>1, <2>1 DEF Progress
<1>5. ASSUME NEW k \in 1 .. Len(plan)
      PROVE  /\ seqs'[plan[k].id] = seqs[plan[k].id]
             /\ ~plan[k].samples => plan[k].start + plan[k].q < Len(seqs[plan[k].id].tokens)
             /\ plan[k].start + plan[k].q <= Len(seqs[plan[k].id].blocks) * BlockSize
  <2>1. plan[k].id \in DOMAIN seqs /\ plan[k].id # id
    BY PlanIdIn
  <2> QED
    BY <1>3, <2>1 DEF KvInv, PlanRoom
<1>6. ASSUME NEW k \in 1 .. Len(plan')
      PROVE  /\ ~plan'[k].samples => plan'[k].start + plan'[k].q < Len(seqs'[plan'[k].id].tokens)
             /\ plan'[k].start + plan'[k].q <= Len(seqs'[plan'[k].id].blocks) * BlockSize
  <2>1. CASE plan' = plan
    BY <1>5, <1>6, <2>1
  <2>2. CASE plan' # plan
    <3>1. plan' = Append(plan, e) /\ ss[id].num_computed + q <= Len(seqs'[id].blocks) * BlockSize
      BY <1>1, <2>2
    <3>2. /\ Len(plan') = Len(plan) + 1 /\ Len(plan) \in Nat /\ plan'[Len(plan) + 1] = e
          /\ \A l \in 1 .. Len(plan) : plan'[l] = plan[l]
      BY <3>1 DEF PlanList
    <3>3. CASE k = Len(plan) + 1
      <4>1. SeqOK(ss[id])
        BY MemHold
      <4>2. ss[id].num_computed \in Nat /\ Len(ss[id].tokens) \in Nat
        BY <4>1 DEF SeqOK
      <4>3. ~e.samples => ss[id].num_computed + q < Len(ss[id].tokens)
        BY <1>2, <4>2
      <4> QED
        BY <1>1, <1>2, <3>1, <3>2, <3>3, <4>3
    <3>4. CASE k \in 1 .. Len(plan)
      BY <1>5, <3>2, <3>4
    <3> QED
      BY <1>6, <3>2, <3>3, <3>4
  <2> QED
    BY <2>1, <2>2
<1>7. PlanRoom'
  BY <1>1, <1>6 DEF PlanRoom
<1>8. KvOK(seqs', pool', kv')
  BY <1>1
<1>9. phase' # "panicked"
  BY <1>1
<1> QED
  BY <1>4, <1>7, <1>8, <1>9 DEF KvInv

\* A chunk of a prefill ends within the tokens.
LEMMA ChunkFits ==
    ASSUME NEW s, SeqOK(s), s.num_computed < Len(s.tokens), budget \in Nat
    PROVE  s.num_computed + prefill_chunk(s) <= Len(s.tokens)
<1>1. /\ s.prefill_target \in Nat /\ s.num_computed \in Nat /\ PrefillChunkTokens \in Nat /\ Len(s.tokens) \in Nat
      /\ s.prefill_target <= Len(s.tokens)
  BY SchedulerAssumption DEF SeqOK
<1>2. /\ remaining_prefill(s) \in Nat
      /\ remaining_prefill(s) = 0 \/ s.num_computed + remaining_prefill(s) = s.prefill_target
  BY <1>1 DEF remaining_prefill
<1>3. prefill_chunk(s) \in Nat /\ prefill_chunk(s) <= remaining_prefill(s)
  BY <1>1, <1>2 DEF prefill_chunk, SmallerOf
<1> QED
  BY <1>1, <1>2, <1>3

\* A decode.
LEMMA ScheduleDecodeKv ==
    ASSUME IInv, AccInv, KvInv, ScheduleDecode
    PROVE  KvInv'
<1> DEFINE id == Head(todo)
           run == Append(running, id)
           rest == Tail(todo)
<1>1. /\ phase = "decodes" /\ todo # <<>>
      /\ PushOrPreempt(seqs, pool, id, 1, run, waiting) /\ kv' = kv
  BY DEF ScheduleDecode
<1>2. /\ MemOK(seqs, pool, fork.failed) /\ Recorded(seqs) /\ PlanList /\ PlanOK /\ KvOK(seqs, pool, kv)
  BY <1>1, BatchFacts DEF KvInv
<1>3. /\ id \notin ToSet(running) /\ Queued(seqs, waiting, run \o rest, finished)
      /\ run \in Seq(Nat) /\ rest \in Seq(Nat) /\ ToSet(run) = ToSet(running) \cup {id}
  BY <1>1, DecodesMove
<1> HIDE DEF id, run, rest
<1>4. id \in DOMAIN seqs /\ Active(seqs[id]) /\ ToSet(running) \subseteq DOMAIN seqs
  <2>1. ToSet(run \o rest) = ToSet(run) \cup ToSet(rest)
    BY <1>3, ConcatSet
  <2> QED
    BY <1>3, <2>1 DEF Queued
<1>5. id \notin ToSet(PlanIds) /\ ToSet(PlanIds) \subseteq DOMAIN seqs
  BY <1>1, <1>2, <1>3, <1>4 DEF PlanOK
<1>6. seqs[id].num_computed < Len(seqs[id].tokens) /\ SeqOK(seqs[id])
  BY <1>1, <1>2, <1>4, Ahead, MemHold
<1>7. seqs[id].num_computed + 1 <= Len(seqs[id].tokens) /\ 1 \in Nat
  BY <1>6 DEF SeqOK
<1> QED
  BY <1>1, <1>2, <1>4, <1>5, <1>6, <1>7, PushRoom

\* The next chunk of a prefill.
LEMMA ContinuePrefillKv ==
    ASSUME IInv, AccInv, KvInv, ContinuePrefill
    PROVE  KvInv'
<1> DEFINE id == Head(todo)
           q == prefill_chunk(seqs[id])
<1>1. /\ phase = "prefills" /\ todo # <<>>
      /\ PushOrPreempt(seqs, pool, id, q, running, waiting) /\ kv' = kv
  BY DEF ContinuePrefill
<1>2. /\ MemOK(seqs, pool, fork.failed) /\ budget \in Nat /\ KvOK(seqs, pool, kv)
      /\ Recorded(seqs) /\ PlanList /\ PlanOK /\ TodoOK /\ Queued(seqs, waiting, running, finished)
  BY <1>1, BatchFacts, IInvFacts DEF KvInv
<1>3. id \in ToSet(todo)
  BY <1>1, <1>2, TailSet DEF TodoOK
<1>4. id \in DOMAIN seqs /\ Active(seqs[id]) /\ id \notin ToSet(PlanIds) /\ ToSet(PlanIds) \subseteq DOMAIN seqs
  BY <1>1, <1>2, <1>3 DEF TodoOK, Queued, PlanOK
<1>5. seqs[id].num_computed < Len(seqs[id].tokens) /\ SeqOK(seqs[id])
  BY <1>1, <1>2, <1>4, Ahead, MemHold
<1>6. q \in Nat /\ seqs[id].num_computed + q <= Len(seqs[id].tokens)
  BY <1>2, <1>5, ChunkOK, ChunkFits
<1> HIDE DEF id, q
<1> QED
  BY <1>1, <1>2, <1>4, <1>5, <1>6, PushRoom

\* Starting the head of the queue.
LEMMA StartWaitingKv ==
    ASSUME IInv, AccInv, KvInv, StartWaiting
    PROVE  KvInv'
<1> DEFINE id == Head(waiting)
           t == try_start(seqs[id])
           ss == [seqs EXCEPT ![id] = t.seq]
           q == prefill_chunk(t.seq)
           run == Append(running, id)
           wait == Tail(waiting)
<1>1. /\ phase = "starts" /\ waiting # <<>> /\ t.ok
      /\ PushOrPreempt(ss, t.pool, id, q, run, wait) /\ kv' = kv
  BY DEF StartWaiting, MayStart
<1>2. /\ MemOK(seqs, pool, fork.failed) /\ budget \in Nat /\ KvOK(seqs, pool, kv)
      /\ Recorded(seqs) /\ PlanList /\ PlanOK /\ Queued(seqs, waiting, running, finished)
  BY <1>1, BatchFacts, IInvFacts DEF KvInv
<1>3. id \in DOMAIN seqs /\ seqs[id].blocks = <<>> /\ SeqOK(seqs[id]) /\ id \notin ToSet(PlanIds)
  BY <1>1, HeadWaits
<1>4. PoolOK(BlockHashes, pool) /\ DOMAIN seqs[id] = Fields /\ Sound(seqs[id]) /\ IndexKv(pool, kv)
  BY <1>2, <1>3, MemHold DEF Recorded, KvOK
<1>5. Exchanged(pool, t.pool, <<>>, t.seq.blocks) /\ SeqOK(t.seq) /\ Active(t.seq)
  BY <1>1, <1>3, <1>4, StartExchange
<1>6. DOMAIN t.seq = Fields /\ t.seq.status = "prefilling"
  BY <1>1, <1>4, TryStartFacts
<1>7. /\ Careful(pool, t.pool, <<>>, t.seq.blocks) /\ IndexKv(t.pool, kv)
      /\ Sound(t.seq) /\ Held(t.seq, t.pool, kv)
      /\ t.seq.num_computed < t.seq.prefill_target /\ t.seq.prefill_target <= Len(t.seq.tokens)
      /\ t.seq.num_computed \in Nat /\ t.seq.prefill_target \in Nat
  BY <1>1, <1>3, <1>4, StartCareful
<1>8. t.seq.num_computed < Len(t.seq.tokens)
  <2>1. Len(t.seq.tokens) \in Nat
    BY <1>5 DEF SeqOK
  <2> QED
    BY <1>7, <2>1
<1>9. q \in Nat /\ t.seq.num_computed + q <= Len(t.seq.tokens)
  BY <1>2, <1>5, <1>8, ChunkOK, ChunkFits
<1> HIDE DEF id, t, q, run, wait
<1>10. MemOK(ss, t.pool, fork.failed)
  BY <1>2, <1>3, <1>5, MemOne
<1>11. KvOK(ss, t.pool, kv)
  BY <1>2, <1>3, <1>5, <1>7, KvOne
<1>12. DOMAIN ss = DOMAIN seqs /\ ss[id] = t.seq /\ \A i \in DOMAIN seqs : i # id => ss[i] = seqs[i]
  BY <1>3
<1>13. Recorded(ss)
  BY <1>2, <1>6, <1>12 DEF Recorded, Statuses
<1> HIDE DEF ss
<1>14. ToSet(PlanIds) \subseteq DOMAIN seqs
  BY <1>1, <1>2 DEF PlanOK, Queued
<1>15. id \in DOMAIN ss /\ Active(ss[id]) /\ ss[id].num_computed + q <= Len(ss[id].tokens)
       /\ ss[id].num_computed < Len(ss[id].tokens)
  BY <1>3, <1>5, <1>8, <1>9, <1>12
<1> QED
  BY <1>1, <1>2, <1>3, <1>9, <1>10, <1>11, <1>12, <1>13, <1>14, <1>15, PushRoom

\* A refused start.
LEMMA StartRefusedKv ==
    ASSUME IInv, AccInv, KvInv, StartRefused
    PROVE  KvInv'
<1> DEFINE t == try_start(seqs[Head(waiting)])
<1>1. /\ phase = "starts" /\ phase' = "forward" /\ waiting # <<>> /\ ~t.ok /\ pool' = t.pool
      /\ UNCHANGED <<kv, seqs, plan>>
  BY DEF StartRefused, MayStart, queueVars
<1>2. MemOK(seqs, pool, fork.failed) /\ KvOK(seqs, pool, kv)
  BY <1>1, BatchFacts DEF KvInv
<1>3. PoolOK(BlockHashes, pool) /\ SeqOK(seqs[Head(waiting)])
  BY <1>1, <1>2, HeadWaits, MemHold
<1>4. pool'.hash_of = pool.hash_of /\ \A b \in BlockId : pool'.refcount[b] = pool.refcount[b]
  BY <1>1, <1>3, TryStartOK
<1> HIDE DEF t
<1>5. KvOK(seqs, pool', kv)
  BY <1>2, <1>4, KvSame
<1>6. Progress' /\ PlanRoom'
  BY <1>1 DEF KvInv, Progress, PlanRoom
<1>7. KvOK(seqs', pool', kv')
  BY <1>1, <1>5
<1> QED
  BY <1>1, <1>6, <1>7 DEF KvInv

----------------------------------------------------------------------------
(***************************************************************************)
(* The forward pass.                                                       *)
(***************************************************************************)

\* A planned sequence runs, stands where the plan says, and has room.
LEMMA PlannedHolds ==
    ASSUME IInv, AccInv, GenInv, NoForks, KvInv, phase = "forward", NEW k \in 1 .. Len(plan)
    PROVE  LET e == plan[k]
               s == seqs[e.id]
           IN  /\ e.id \in DOMAIN seqs /\ Active(s) /\ SeqOK(s)
               /\ Laid(s, pool) /\ RightFrom(s, s.num_cached_blocks, s.num_computed, kv)
               /\ e.start = s.num_computed /\ e.q \in Nat /\ e.start + e.q <= Len(s.tokens)
               /\ Len(s.tokens) <= MaxContext /\ e.start + e.q <= Len(s.blocks) * BlockSize
               /\ Sound(s)
<1> DEFINE e == plan[k]
           i == e.id
           s == seqs[i]
<1>1. /\ ToSet(PlanIds) \subseteq ToSet(running) /\ Queued(seqs, waiting, running, finished)
  BY IInvFacts DEF PlanOK, KvInv
<1>2. i \in ToSet(PlanIds)
  BY PlanIdIn
<1>3. i \in DOMAIN seqs /\ Active(s)
  BY <1>1, <1>2 DEF Queued
<1>4. SeqOK(s)
  BY <1>3 DEF AccInv, MemOK
<1>5. Sound(s) /\ Laid(s, pool) /\ RightFrom(s, s.num_cached_blocks, s.num_computed, kv)
  BY <1>3 DEF KvInv, KvOK, Held
<1>6. e.start = s.num_computed /\ e.q \in Nat /\ e.start + e.q <= Len(s.tokens)
  BY DEF AccInv, BatchOK, PlanFits
<1>7. e.start + e.q <= Len(s.blocks) * BlockSize
  BY DEF KvInv, PlanRoom
<1>8. Len(s.tokens) <= MaxContext
  BY <1>3 DEF GenInv, NoForks, Bounded, total_len
<1> QED
  BY <1>3, <1>4, <1>5, <1>6, <1>7, <1>8

\* What is written is an open block of the planned sequence.
LEMMA WritePlace ==
    ASSUME IInv, AccInv, GenInv, NoForks, KvInv, phase = "forward",
           NEW b \in BlockId, NEW o \in Offset, NEW w \in Writes(b, o)
    PROVE  LET e == plan[w[1]]
               s == seqs[e.id]
               l == (w[2] \div BlockSize) + 1
           IN  /\ w[1] \in 1 .. Len(plan) /\ w[2] \in Nat /\ w = <<w[1], w[2]>>
               /\ e.id \in DOMAIN seqs
               /\ e.start <= w[2] /\ w[2] < e.start + e.q /\ w[2] % BlockSize = o
               /\ l \in 1 .. Len(s.blocks) /\ s.blocks[l] = b
               /\ pool.hash_of[b] = NoHash /\ pool.refcount[b] = 1
<1> DEFINE k == w[1]
           n == w[2]
           e == plan[k]
           s == seqs[e.id]
           l == (n \div BlockSize) + 1
           c == s.num_cached_blocks
<1>0. BlockSize \in Nat /\ BlockSize > 0 /\ MaxContext \in Nat
  BY PoolAssumption, SchedulerAssumption
<1>1. /\ k \in 1 .. Len(plan) /\ n \in 0 .. MaxContext /\ w = <<k, n>>
      /\ n >= e.start /\ n < e.start + e.q /\ n % BlockSize = o /\ s.blocks[l] = b
  BY DEF Writes
<1>2. n \in Nat
  BY <1>0, <1>1
<1>3. /\ e.id \in DOMAIN seqs /\ Active(s) /\ SeqOK(s) /\ Laid(s, pool)
      /\ e.start = s.num_computed /\ e.q \in Nat /\ e.start + e.q <= Len(s.blocks) * BlockSize
  BY <1>1, PlannedHolds
<1>4. /\ s.num_computed \in Nat /\ c \in Nat /\ Len(s.blocks) \in Nat
      /\ c * BlockSize <= s.num_computed
  <2> HIDE DEF k, n, e, s
  <2>1. s.num_computed \in Nat /\ c \in Nat /\ Len(s.blocks) \in Nat
    BY <1>3 DEF SeqOK
  <2>2. c * BlockSize <= s.num_computed
    BY <1>3 DEF Laid
  <2> QED
    BY <2>1, <2>2
<1> HIDE DEF k, n, e, s, c
<1>5. /\ l \in Nat /\ n \div BlockSize \in Nat
      /\ c * BlockSize <= n <=> c < l
      /\ n < Len(s.blocks) * BlockSize <=> l <= Len(s.blocks)
  BY <1>2, <1>4, PlaceOf
<1>6. c * BlockSize \in Nat /\ Len(s.blocks) * BlockSize \in Nat
  BY <1>0, <1>4, MulMono
<1> DEFINE x == c * BlockSize
           y == Len(s.blocks) * BlockSize
<1>7. x <= n /\ n < y
  <2>1. x \in Nat /\ y \in Nat /\ x <= s.num_computed /\ e.start + e.q <= y
    BY <1>3, <1>4, <1>6
  <2> HIDE DEF x, y
  <2> QED
    BY <1>1, <1>2, <1>3, <1>4, <2>1
<1>8. l \in 1 .. Len(s.blocks) /\ c < l
  <2>1. l >= 1
    BY <1>5
  <2> HIDE DEF l
  <2> QED
    BY <1>4, <1>5, <1>7, <2>1
<1>9. pool.hash_of[b] = NoHash /\ pool.refcount[b] = 1
  <2>1. ~(l <= c)
    BY <1>4, <1>5, <1>8
  <2> HIDE DEF l
  <2> QED
    BY <1>1, <1>3, <1>8, <2>1 DEF Laid, l, c
<1> QED
  BY <1>1, <1>2, <1>3, <1>8, <1>9 DEF k, n, e, s, c

\* It is in no other place of any block table.
LEMMA WriteOnly ==
    ASSUME IInv, AccInv, GenInv, NoForks, KvInv, phase = "forward",
           NEW i \in DOMAIN seqs, NEW n \in Nat, (n \div BlockSize) + 1 \in 1 .. Len(seqs[i].blocks),
           NEW w \in Writes(seqs[i].blocks[(n \div BlockSize) + 1], n % BlockSize)
    PROVE  plan[w[1]].id = i /\ w[2] = n
<1> DEFINE l == (n \div BlockSize) + 1
           b == seqs[i].blocks[l]
           o == n % BlockSize
           j == plan[w[1]].id
           m == w[2]
           k == (m \div BlockSize) + 1
<1>0. BlockSize \in Nat /\ BlockSize > 0
  BY PoolAssumption
<1>1. MemOK(seqs, pool, fork.failed)
  BY DEF AccInv
<1>2. seqs[i].blocks \in Seq(BlockId)
  BY <1>1 DEF MemOK, SeqOK
<1>3. b \in BlockId
  BY <1>2
<1>4. o \in Offset
  BY PlaceOf
<1>5. /\ m \in Nat /\ j \in DOMAIN seqs /\ m % BlockSize = o
      /\ k \in 1 .. Len(seqs[j].blocks) /\ seqs[j].blocks[k] = b
      /\ pool.refcount[b] = 1
  BY <1>3, <1>4, WritePlace
<1> HIDE DEF j, m
<1>6. j = i /\ k = l
  <2>1. k \in 1 .. Len(seqs[j].blocks) /\ l \in 1 .. Len(seqs[i].blocks) /\ seqs[j].blocks[k] = seqs[i].blocks[l]
        /\ pool.refcount[seqs[j].blocks[k]] = 1 /\ j \in DOMAIN seqs
    BY <1>5
  <2> HIDE DEF k, l, b, o
  <2> QED
    BY <1>1, <2>1, Sole
<1>7. m = n
  <2>1. /\ m \div BlockSize \in Nat /\ n \div BlockSize \in Nat
        /\ m = (m \div BlockSize) * BlockSize + (m % BlockSize)
        /\ n = (n \div BlockSize) * BlockSize + (n % BlockSize)
    BY <1>5, PlaceOf
  <2>2. m \div BlockSize = n \div BlockSize
    BY <1>6, <2>1
  <2> QED
    BY <1>5, <2>1, <2>2
<1> QED
  BY <1>6, <1>7 DEF j, m

\* No slot is written twice.
LEMMA WriteOne ==
    ASSUME IInv, AccInv, GenInv, NoForks, KvInv, phase = "forward",
           NEW b \in BlockId, NEW o \in Offset, NEW w \in Writes(b, o), NEW x \in Writes(b, o)
    PROVE  w = x
<1> DEFINE i == plan[x[1]].id
           n == x[2]
           l == (n \div BlockSize) + 1
<1>1. /\ x[1] \in 1 .. Len(plan) /\ n \in Nat /\ x = <<x[1], n>> /\ i \in DOMAIN seqs
      /\ n % BlockSize = o /\ l \in 1 .. Len(seqs[i].blocks) /\ seqs[i].blocks[l] = b
  BY WritePlace
<1>2. w[1] \in 1 .. Len(plan) /\ w = <<w[1], w[2]>>
  BY WritePlace
<1>3. plan[w[1]].id = i /\ w[2] = n
  <2>1. w \in Writes(seqs[i].blocks[(n \div BlockSize) + 1], n % BlockSize)
    BY <1>1
  <2> HIDE DEF i, n
  <2> QED
    BY <1>1, <2>1, WriteOnly
<1>4. w[1] = x[1]
  <2>1. NoRepeats(PlanIds) /\ Len(PlanIds) = Len(plan)
    <3>1. PlanList /\ PlanIds \in Seq(Nat) /\ plan \in Seq(ToSet(plan))
      BY IInvFacts DEF KvInv, PlanList
    <3> QED
      BY <3>1 DEF PlanList, PlanIds
  <2>2. PlanIds[w[1]] = i /\ PlanIds[x[1]] = i
    BY <1>1, <1>2, <1>3, PlanIdIn
  <2> QED
    BY <1>1, <1>2, <2>1, <2>2 DEF NoRepeats
<1> QED
  BY <1>1, <1>2, <1>3, <1>4

\* What a planned sequence has computed is right, so what is computed for it is.
LEMMA ComputedRight ==
    ASSUME IInv, AccInv, GenInv, NoForks, KvInv, phase = "forward", NEW k \in 1 .. Len(plan), NEW n \in Nat
    PROVE  Computed(<<k, n>>) = SubSeq(seqs[plan[k].id].tokens, 1, n + 1)
<1> DEFINE e == plan[k]
           s == seqs[e.id]
<1>1. /\ SeqOK(s) /\ Laid(s, pool) /\ RightFrom(s, s.num_cached_blocks, s.num_computed, kv)
      /\ e.start = s.num_computed
  BY PlannedHolds
<1>2. IndexKv(pool, kv)
  BY DEF KvInv, KvOK
<1> HIDE DEF e, s
<1>3. s.num_computed \in Nat /\ s.num_computed <= Len(s.blocks) * BlockSize
  BY <1>1 DEF SeqOK, Laid
<1>4. RightFrom(s, 0, s.num_computed, kv)
  BY <1>1, <1>2, <1>3, HeldRight
<1>5. RightUpTo(s, e.start)
  <2> SUFFICES ASSUME NEW i \in 0 .. (s.num_computed - 1)
               PROVE  SlotOf(s, i) = SubSeq(s.tokens, 1, i + 1)
    BY <1>1 DEF RightUpTo
  <2>1. i \in Nat /\ 0 * BlockSize <= i /\ i < s.num_computed
    BY <1>3, PoolAssumption
  <2> QED
    BY <1>4, <2>1 DEF RightFrom, SlotOf
<1> QED
  BY <1>5 DEF Computed, e, s

\* What Forward leaves in the slots: the computed positions of a sequence stay,
\* the planned ones get the K/V of its own tokens.
LEMMA ForwardSlot ==
    ASSUME IInv, AccInv, GenInv, NoForks, KvInv, Forward, NEW i \in DOMAIN seqs, NEW n \in Nat,
           (n \div BlockSize) + 1 \in 1 .. Len(seqs[i].blocks)
    PROVE  LET c == kv'[seqs[i].blocks[(n \div BlockSize) + 1]][n % BlockSize]
               d == kv[seqs[i].blocks[(n \div BlockSize) + 1]][n % BlockSize]
           IN  /\ n < seqs[i].num_computed => c = d
               /\ \A k \in 1 .. Len(plan) :
                     (plan[k].id = i /\ plan[k].start <= n /\ n < plan[k].start + plan[k].q) =>
                        c = SubSeq(seqs[i].tokens, 1, n + 1)
<1> DEFINE l == (n \div BlockSize) + 1
           b == seqs[i].blocks[l]
           o == n % BlockSize
<1>0. phase = "forward" /\ MaxContext \in Nat
  BY SchedulerAssumption DEF Forward
<1>1. b \in BlockId /\ o \in Offset
  <2>1. seqs[i].blocks \in Seq(BlockId)
    BY DEF AccInv, MemOK, SeqOK
  <2>2. b \in BlockId
    BY <2>1
  <2>3. o \in Offset
    BY PlaceOf
  <2> QED
    BY <2>2, <2>3
<1>2. kv'[b][o] = IF Writes(b, o) = {} THEN kv[b][o] ELSE Computed(CHOOSE w \in Writes(b, o) : TRUE)
  <2> HIDE DEF b, o
  <2> QED
    BY <1>1 DEF Forward
<1>3. ASSUME n < seqs[i].num_computed
      PROVE  Writes(b, o) = {}
  <2> SUFFICES ASSUME NEW w \in Writes(b, o) PROVE FALSE
    OBVIOUS
  <2>1. plan[w[1]].id = i /\ w[2] = n
    BY <1>0, WriteOnly
  <2>2. w[1] \in 1 .. Len(plan) /\ plan[w[1]].start <= n
    <3> HIDE DEF b, o
    <3> QED
      BY <1>0, <1>1, <2>1, WritePlace
  <2>3. plan[w[1]].start = seqs[i].num_computed /\ seqs[i].num_computed \in Nat
    BY <1>0, <2>1, <2>2, PlannedHolds DEF SeqOK
  <2> QED
    BY <1>3, <2>2, <2>3
<1>4. ASSUME NEW k \in 1 .. Len(plan), plan[k].id = i, plan[k].start <= n, n < plan[k].start + plan[k].q
      PROVE  kv'[b][o] = SubSeq(seqs[i].tokens, 1, n + 1)
  <2>1. <<k, n>> \in Writes(b, o)
    <3>1. n \in 0 .. MaxContext
      <4>1. /\ plan[k].start + plan[k].q <= Len(seqs[i].tokens) /\ Len(seqs[i].tokens) <= MaxContext
            /\ plan[k].start = seqs[i].num_computed /\ plan[k].q \in Nat /\ SeqOK(seqs[i])
        BY <1>0, <1>4, PlannedHolds
      <4>2. seqs[i].num_computed \in Nat /\ Len(seqs[i].tokens) \in Nat
        BY <4>1 DEF SeqOK
      <4> QED
        BY <1>0, <1>4, <4>1, <4>2
    <3>2. <<k, n>> \in (1 .. Len(plan)) \X (0 .. MaxContext)
      BY <3>1
    <3>3. plan[k].start \in Nat /\ n >= plan[k].start
      BY <1>0, <1>4, PlannedHolds DEF SeqOK
    <3> QED
      BY <1>4, <3>2, <3>3 DEF Writes
  <2> DEFINE w == CHOOSE w \in Writes(b, o) : TRUE
  <2>2. w \in Writes(b, o)
    BY <2>1
  <2>3. w = <<k, n>>
    <3> HIDE DEF w, b, o
    <3> QED
      BY <1>0, <1>1, <2>1, <2>2, WriteOne
  <2>4. Computed(w) = SubSeq(seqs[i].tokens, 1, n + 1)
    <3> HIDE DEF w
    <3> QED
      BY <1>0, <1>4, <2>3, ComputedRight
  <2> QED
    BY <1>2, <2>1, <2>4
<1>5. n < seqs[i].num_computed => kv'[b][o] = kv[b][o]
  BY <1>2, <1>3
<1> QED
  BY <1>4, <1>5

\* A position below the room of a table is in one of its blocks.
LEMMA InRoom ==
    ASSUME NEW s, SeqOK(s), NEW n \in Nat, NEW m \in Nat, n < m, m <= Len(s.blocks) * BlockSize
    PROVE  (n \div BlockSize) + 1 \in 1 .. Len(s.blocks)
<1> DEFINE l == (n \div BlockSize) + 1
           r == Len(s.blocks)
           y == r * BlockSize
<1>1. r \in Nat
  BY DEF SeqOK
<1>2. l \in Nat /\ n \div BlockSize \in Nat /\ (n < r * BlockSize <=> l <= r)
  BY <1>1, PlaceOf
<1>3. y \in Nat
  BY <1>1, MulMono, PoolAssumption
<1>4. n < y
  <2>1. m <= y
    OBVIOUS
  <2> HIDE DEF y
  <2> QED
    BY <1>3, <2>1
<1>5. l >= 1
  BY <1>2
<1> HIDE DEF l, r
<1>6. l \in 1 .. r
  BY <1>1, <1>2, <1>4, <1>5
<1> QED
  BY <1>6 DEF l, r

\* A block that is indexed is not written.
LEMMA IndexUnwritten ==
    ASSUME IInv, AccInv, GenInv, NoForks, KvInv, phase = "forward", NEW v,
           \A b \in BlockId : \A o \in Offset : Writes(b, o) = {} => v[b][o] = kv[b][o]
    PROVE  IndexKv(pool, v)
<1> SUFFICES ASSUME NEW b \in BlockId, pool.hash_of[b] # NoHash, NEW o \in Offset
             PROVE  v[b][o] = SubSeq(pool.hash_of[b][2], 1, Len(pool.hash_of[b][2]) - BlockSize + o + 1)
  BY DEF IndexKv, Shows
<1>1. Writes(b, o) = {}
  BY WritePlace
<1>2. v[b][o] = kv[b][o]
  BY <1>1
<1> QED
  BY <1>2 DEF KvInv, KvOK, IndexKv, Shows

\* Forward writes the K/V of the planned tokens and disturbs nothing computed.
LEMMA ForwardKv ==
    ASSUME IInv, AccInv, GenInv, NoForks, KvInv, Forward
    PROVE  KvInv'
<1>0. phase = "forward" /\ BlockSize \in Nat /\ BlockSize > 0 /\ UNCHANGED <<seqs, pool, plan>>
  BY PoolAssumption DEF Forward, queueVars
<1>1. IndexKv(pool, kv')
  <2>1. \A b \in BlockId : \A o \in Offset : Writes(b, o) = {} => kv'[b][o] = kv[b][o]
    BY DEF Forward
  <2> QED
    BY <1>0, <2>1, IndexUnwritten
<1>2. ASSUME NEW i \in DOMAIN seqs, Active(seqs[i])
      PROVE  RightFrom(seqs[i], seqs[i].num_cached_blocks, seqs[i].num_computed, kv')
  <2> DEFINE s == seqs[i]
  <2>1. SeqOK(s) /\ Laid(s, pool) /\ RightFrom(s, s.num_cached_blocks, s.num_computed, kv)
    BY <1>2 DEF AccInv, MemOK, KvInv, KvOK, Held
  <2>2. s.num_computed \in Nat /\ s.num_computed <= Len(s.blocks) * BlockSize
    BY <2>1 DEF SeqOK, Laid
  <2> SUFFICES ASSUME NEW n \in Nat, s.num_cached_blocks * BlockSize <= n, n < s.num_computed
               PROVE  kv'[s.blocks[(n \div BlockSize) + 1]][n % BlockSize] = SubSeq(s.tokens, 1, n + 1)
    BY DEF RightFrom
  <2>3. (n \div BlockSize) + 1 \in 1 .. Len(s.blocks)
    BY <2>1, <2>2, InRoom
  <2>4. kv'[s.blocks[(n \div BlockSize) + 1]][n % BlockSize] = kv[s.blocks[(n \div BlockSize) + 1]][n % BlockSize]
    BY <2>3, ForwardSlot
  <2> QED
    BY <2>1, <2>4 DEF RightFrom
<1>3. KvOK(seqs', pool', kv')
  BY <1>0, <1>1, <1>2 DEF KvInv, KvOK, Held
<1>4. phase' = "stops"
  <2>1. ToSet(SampledIds) \subseteq ToSet(PlanIds) /\ ToSet(PlanIds) \subseteq ToSet(running)
    BY <1>0, IInvFacts, SampledFacts DEF PlanOK, KvInv
  <2>2. Queued(seqs, waiting, running, finished)
    BY <1>0, IInvFacts
  <2>3. \A i \in ToSet(SampledIds) : seqs[i].stream
    BY <2>1, <2>2 DEF Queued, KvInv, KvOK, Sound
  <2> QED
    BY <2>3 DEF Forward
<1>5. Progress'
  BY <1>0, <1>4, Ahead DEF Progress
<1>6. ASSUME NEW k \in 1 .. Len(plan)
      PROVE  LET s == seqs[plan[k].id]
                 n == plan[k].start + plan[k].q
             IN  n <= Len(s.blocks) * BlockSize /\ RightFrom(s, s.num_cached_blocks, n, kv')
  <2> DEFINE e == plan[k]
             s == seqs[e.id]
             m == e.start + e.q
  <2>1. /\ e.id \in DOMAIN seqs /\ Active(s) /\ SeqOK(s) /\ e.start = s.num_computed /\ e.q \in Nat
        /\ m <= Len(s.blocks) * BlockSize
    BY <1>0, PlannedHolds
  <2>2. m \in Nat /\ e.start \in Nat
    BY <2>1, SMTT(40) DEF SeqOK
  <2>3. RightFrom(s, s.num_cached_blocks, s.num_computed, kv')
    BY <1>2, <2>1
  <2>4. ASSUME NEW n \in Nat, s.num_cached_blocks * BlockSize <= n, n < m
        PROVE  kv'[s.blocks[(n \div BlockSize) + 1]][n % BlockSize] = SubSeq(s.tokens, 1, n + 1)
    <3>1. CASE n < s.num_computed
      BY <2>3, <2>4, <3>1 DEF RightFrom
    <3>2. CASE ~(n < s.num_computed)
      <4>1. (n \div BlockSize) + 1 \in 1 .. Len(s.blocks)
        <5> HIDE DEF m, s
        <5> QED
          BY <2>1, <2>2, <2>4, InRoom
      <4>2. e.start <= n /\ n < e.start + e.q
        BY <2>1, <2>2, <2>4, <3>2
      <4> QED
        BY <2>1, <4>1, <4>2, ForwardSlot
    <3> QED
      BY <3>1, <3>2
  <2>5. RightFrom(s, s.num_cached_blocks, m, kv')
    BY <2>4 DEF RightFrom
  <2> QED
    BY <2>1, <2>5
<1>7. PlanRoom'
  <2>1. \A k \in 1 .. Len(plan) :
              ~plan[k].samples => plan[k].start + plan[k].q < Len(seqs[plan[k].id].tokens)
    BY <1>0 DEF KvInv, PlanRoom
  <2> QED
    BY ONLY <1>0, <1>4, <1>6, <2>1 DEF PlanRoom
<1> QED
  BY <1>3, <1>4, <1>5, <1>7 DEF KvInv

\* What is about to be written is private.
LEMMA KvPrivate ==
    ASSUME IInv, AccInv, GenInv, NoForks, KvInv
    PROVE  WritesPrivate
<1> SUFFICES ASSUME phase = "forward", NEW b \in BlockId, NEW o \in Offset, NEW w \in Writes(b, o)
             PROVE  /\ Cardinality(Writes(b, o)) = 1 /\ pool.refcount[b] = 1 /\ pool.hash_of[b] = NoHash
  BY DEF WritesPrivate
<1>1. Writes(b, o) = {w}
  BY WriteOne
<1>2. Cardinality({w}) = 1
  BY FS_Singleton
<1> QED
  BY <1>1, <1>2, WritePlace

----------------------------------------------------------------------------
(***************************************************************************)
(* Commit, and the end of a step.                                          *)
(***************************************************************************)

\* fail_all leaves no sequence and takes nothing from the index.
LEMMA FailAllKv ==
    ASSUME IInv, AccInv, GenInv, NoForks, KvInv, ForwardFails \/ DeadlinePassed
    PROVE  KvInv'
<1>1. /\ phase \in {"forward", "idle"} /\ FailAll /\ phase' = "idle"
  BY DEF ForwardFails, DeadlinePassed, FailAll
<1>2. /\ MemOK(seqs, pool, fork.failed) /\ Queued(seqs, waiting, running, finished)
      /\ next_id \in Nat /\ DOMAIN seqs \subseteq 0 .. (next_id - 1)
  BY <1>1 DEF AccInv, IInv, RunList
<1>3. pool'.hash_of = pool.hash_of
  BY <1>1, <1>2, FailAllMem
<1>4. DOMAIN seqs' = {}
  <2>1. \A i \in DOMAIN seqs : seqs[i].stream = TRUE
    BY DEF KvInv, KvOK, Sound
  <2> QED
    BY <1>1, <2>1 DEF FailAll
<1>5. IndexKv(pool, kv')
  <2>1. CASE DeadlinePassed
    BY <2>1 DEF DeadlinePassed, KvInv, KvOK
  <2>2. CASE ForwardFails
    <3>1. phase = "forward" /\ \A b \in BlockId : \A o \in Offset : Writes(b, o) = {} => kv'[b][o] = kv[b][o]
      BY <2>2 DEF ForwardFails
    <3> QED
      BY <3>1, IndexUnwritten
  <2> QED
    BY <2>1, <2>2
<1>6. KvOK(seqs', pool', kv')
  BY <1>3, <1>4, <1>5 DEF KvOK, IndexKv
<1> QED
  BY <1>1, <1>4, <1>6, CalmKv

\* Sequences that finish give their blocks back; the others have what they had.
LEMMA FinishKv ==
    ASSUME NEW ss, NEW ids \in Seq(Nat), NEW reason, Finish(ss, ids, reason), NEW failed,
           MemOK(ss, pool, failed), Recorded(ss), NoRepeats(ids), ToSet(ids) \subseteq DOMAIN ss,
           KvOK(ss, pool, kv)
    PROVE  /\ KvOK(seqs', pool', kv) /\ DOMAIN seqs' = DOMAIN ss
           /\ \A i \in DOMAIN ss : /\ Active(seqs'[i]) => seqs'[i] = ss[i]
                                   /\ seqs'[i].tokens = ss[i].tokens
<1>1. /\ DOMAIN seqs' = DOMAIN ss
      /\ \E T \in SUBSET (DOMAIN ss) : GivenBack(pool, pool', ss, T) /\ \A i \in T : ~Active(seqs'[i])
      /\ \A i \in DOMAIN ss : /\ seqs'[i].tokens = ss[i].tokens
                              /\ seqs'[i].stream = ss[i].stream /\ seqs'[i].prompt_len = ss[i].prompt_len
                              /\ seqs'[i].prefill_target = ss[i].prefill_target
                              /\ Active(seqs'[i]) => seqs'[i] = ss[i]
  <2>1. /\ MemOK(seqs', pool', failed) /\ DOMAIN seqs' = DOMAIN ss
        /\ \E T \in SUBSET (DOMAIN ss) : GivenBack(pool, pool', ss, T) /\ \A i \in T : ~Active(seqs'[i])
        /\ \A i \in DOMAIN ss : /\ seqs'[i].tokens = ss[i].tokens
                                /\ seqs'[i].num_computed = ss[i].num_computed
                                /\ seqs'[i].stream = ss[i].stream /\ seqs'[i].prompt_len = ss[i].prompt_len
                                /\ seqs'[i].prefill_target = ss[i].prefill_target
                                /\ Active(seqs'[i]) => seqs'[i] = ss[i]
                                /\ seqs'[i] # ss[i] => ~Active(seqs'[i])
    BY FinishMem
  <2> QED
    BY ONLY <2>1
<1>2. PICK T \in SUBSET (DOMAIN ss) : GivenBack(pool, pool', ss, T) /\ \A i \in T : ~Active(seqs'[i])
  BY ONLY <1>1
<1>3. \A i \in DOMAIN seqs' : /\ i \in DOMAIN ss
                              /\ Sound(seqs'[i])
                              /\ Active(seqs'[i]) => i \notin T /\ seqs'[i] = ss[i]
  BY <1>1, <1>2 DEF KvOK, Sound
<1>4. KvOK(seqs', pool', kv)
  <2> DEFINE tt == seqs'
             r == pool'
  <2>1. /\ GivenBack(pool, r, ss, T)
        /\ \A i \in DOMAIN tt : /\ i \in DOMAIN ss
                                /\ Sound(tt[i])
                                /\ Active(tt[i]) => i \notin T /\ tt[i] = ss[i]
    BY <1>2, <1>3
  <2> HIDE DEF tt, r
  <2>2. KvOK(tt, r, kv)
    BY ONLY <2>1, MemOK(ss, pool, failed), KvOK(ss, pool, kv), T \in SUBSET (DOMAIN ss), KvGone
  <2> QED
    BY <2>2 DEF tt, r
<1> QED
  BY <1>1, <1>4

\* cancel.
LEMMA CancelKv ==
    ASSUME IInv, AccInv, KvInv, NEW rid, Cancel(rid)
    PROVE  KvInv'
<1>1. /\ phase = "idle" /\ Finish(seqs, sequences_of(rid), "cancelled")
      /\ UNCHANGED <<phase, kv>>
  BY DEF Cancel, stepVars
<1>2. /\ MemOK(seqs, pool, fork.failed) /\ Recorded(seqs) /\ KvOK(seqs, pool, kv)
      /\ next_id \in Nat /\ DOMAIN seqs \subseteq 0 .. (next_id - 1)
  BY <1>1 DEF AccInv, IInv, KvInv
<1>3. /\ sequences_of(rid) \in Seq(Nat) /\ NoRepeats(sequences_of(rid))
      /\ ToSet(sequences_of(rid)) \subseteq DOMAIN seqs
  BY <1>2, SequencesOf
<1>4. /\ KvOK(seqs', pool', kv) /\ DOMAIN seqs' = DOMAIN seqs
      /\ \A i \in DOMAIN seqs : Active(seqs'[i]) => seqs'[i] = seqs[i]
  BY <1>1, <1>2, <1>3, FinishKv
<1>5. \A i \in DOMAIN seqs' : Active(seqs'[i]) => seqs'[i].num_computed < Len(seqs'[i].tokens)
  BY <1>1, <1>4, Ahead
<1> QED
  BY <1>1, <1>4, <1>5, CalmKv

\* finish_with, for a stop string.
LEMMA FinishStoppedKv ==
    ASSUME IInv, AccInv, KvInv, FinishStopped
    PROVE  KvInv'
<1>1. /\ phase = "stops" /\ phase' = "advance" /\ Finish(seqs, todo, "stop")
      /\ UNCHANGED <<plan, kv>>
  BY DEF FinishStopped
<1>2. /\ MemOK(seqs, pool, fork.failed) /\ Recorded(seqs) /\ PlanOK /\ KvOK(seqs, pool, kv)
      /\ todo \in Seq(Nat) /\ NoRepeats(todo) /\ ToSet(todo) \subseteq ToSet(PlanIds)
  BY <1>1 DEF AccInv, IInv, TodoOK, KvInv
<1>3. ToSet(PlanIds) \subseteq DOMAIN seqs
  BY <1>1, <1>2 DEF PlanOK
<1>4. /\ KvOK(seqs', pool', kv) /\ DOMAIN seqs' = DOMAIN seqs
      /\ \A i \in DOMAIN seqs : /\ Active(seqs'[i]) => seqs'[i] = seqs[i]
                                /\ seqs'[i].tokens = seqs[i].tokens
  BY <1>1, <1>2, <1>3, FinishKv
<1>5. Progress'
  BY <1>1, <1>4, Ahead DEF Progress
<1>6. ASSUME NEW k \in 1 .. Len(plan) PROVE plan[k].id \in DOMAIN seqs
  BY <1>3, PlanIdIn
<1>7. PlanRoom'
  <2>1. \A k \in 1 .. Len(plan) :
              ~plan[k].samples => plan[k].start + plan[k].q < Len(seqs'[plan[k].id].tokens)
    BY <1>1, <1>4, <1>6 DEF KvInv, PlanRoom
  <2>2. ASSUME NEW k \in 1 .. Len(plan), Active(seqs'[plan[k].id])
        PROVE  LET s == seqs'[plan[k].id]
                   n == plan[k].start + plan[k].q
               IN  n <= Len(s.blocks) * BlockSize /\ RightFrom(s, s.num_cached_blocks, n, kv)
    <3>1. seqs'[plan[k].id] = seqs[plan[k].id]
      BY <1>4, <1>6, <2>2
    <3> QED
      BY <1>1, <2>2, <3>1 DEF KvInv, PlanRoom
  <2> QED
    BY ONLY <1>1, <2>1, <2>2 DEF PlanRoom
<1> QED
  BY <1>1, <1>4, <1>5, <1>7 DEF KvInv

\* drain_finished.
LEMMA DrainKv ==
    ASSUME IInv, AccInv, KvInv, Drain
    PROVE  KvInv'
<1>1. /\ phase = "drain" /\ phase' = "idle"
      /\ seqs' = [i \in DOMAIN seqs \ ToSet(finished) |-> seqs[i]]
      /\ UNCHANGED <<pool, kv>>
  BY DEF Drain, poolVars
<1>2. KvOK(seqs', pool', kv')
  BY <1>1 DEF KvInv, KvOK
<1>3. \A i \in DOMAIN seqs' : Active(seqs'[i]) => seqs'[i].num_computed < Len(seqs'[i].tokens)
  BY <1>1, Ahead
<1> QED
  BY <1>1, <1>2, <1>3, CalmKv

\* admit: the new sequence does not run yet.
LEMMA AdmitKv ==
    ASSUME IInv, AccInv, KvInv, NEW j \in Jobs, Admit(j)
    PROVE  KvInv'
<1> DEFINE s == NewSequence(j)
<1>1. /\ phase = "idle" /\ seqs' = Bind(seqs, next_id, s) /\ Len(j.prompt) > 0
      /\ UNCHANGED <<pool, phase, kv>>
  BY DEF Admit, stepVars
<1>2. Sound(s) /\ ~Active(s)
  BY <1>1 DEF NewSequence, Sound, Active
<1> HIDE DEF s
<1>3. \A i \in DOMAIN seqs' : seqs'[i] = s \/ (i \in DOMAIN seqs /\ seqs'[i] = seqs[i])
  BY <1>1 DEF Bind
<1>4. KvOK(seqs', pool', kv')
  BY <1>1, <1>2, <1>3 DEF KvInv, KvOK, Held
<1>5. \A i \in DOMAIN seqs' : Active(seqs'[i]) => seqs'[i].num_computed < Len(seqs'[i].tokens)
  BY <1>1, <1>2, <1>3, Ahead
<1> QED
  BY <1>1, <1>4, <1>5, CalmKv

\* A planned sequence that is not among the sampled has tokens left.
LEMMA SampledIn ==
    ASSUME PlanList, NEW k \in 1 .. Len(plan), plan[k].id \notin ToSet(SampledIds)
    PROVE  ~plan[k].samples
<1> SUFFICES ASSUME ~(~plan[k].samples) PROVE FALSE
  OBVIOUS
<1> DEFINE S == {e \in ToSet(plan) : ~e.samples}
           es == Without(plan, S)
           A == ToSet(plan)
<1>1. plan \in Seq(A) /\ plan[k] \in ToSet(plan)
  BY DEF PlanList, ToSet
<1>2. plan[k] \notin S
  OBVIOUS
<1>3. SampledIds = [i \in 1 .. Len(es) |-> es[i].id]
  BY DEF SampledIds
<1> HIDE DEF S, A
<1>4. es \in Seq(A) /\ ToSet(es) = ToSet(plan) \ S
  BY <1>1, WithoutSet
<1>5. plan[k] \in ToSet(es)
  BY <1>1, <1>2, <1>4
<1> HIDE DEF es
<1>6. PICK i \in 1 .. Len(es) : es[i] = plan[k]
  BY <1>4, <1>5 DEF ToSet
<1>7. SampledIds[i] = plan[k].id /\ i \in DOMAIN SampledIds
  BY <1>3, <1>6
<1> QED
  BY <1>7 DEF ToSet

\* advance_computed: what was forwarded is there.
LEMMA CommitAdvanceKv ==
    ASSUME IInv, AccInv, KvInv, CommitAdvance
    PROVE  KvInv'
<1>1. /\ phase = "advance" /\ phase' = "tokens" /\ todo' = SampledIds
      /\ UNCHANGED <<pool, kv, plan>>
  BY DEF CommitAdvance, poolVars
<1>2. /\ MemOK(seqs, pool, fork.failed) /\ PlanFits /\ Recorded(seqs) /\ PlanList
      /\ KvOK(seqs, pool, kv)
  BY <1>1, IInvFacts DEF AccInv, BatchOK, KvInv
<1>3. /\ DOMAIN seqs' = DOMAIN seqs /\ ToSet(PlanIds) \subseteq DOMAIN seqs
      /\ \A i \in DOMAIN seqs : i \notin ToSet(PlanIds) => seqs'[i] = seqs[i]
      /\ \A k \in 1 .. Len(plan) : seqs'[plan[k].id] = advance_computed(seqs[plan[k].id], plan[k].q)
  BY CommitAdvanceIs
<1>4. ASSUME NEW i \in ToSet(PlanIds)
      PROVE  /\ Sound(seqs'[i]) /\ Held(seqs'[i], pool, kv)
             /\ Active(seqs'[i]) => \/ seqs'[i].num_computed < Len(seqs'[i].tokens)
                                    \/ i \in ToSet(SampledIds)
  <2>1. PICK k \in 1 .. Len(plan) : plan[k].id = i
    BY DEF ToSet, PlanIds
  <2> DEFINE s == seqs[i]
             q == plan[k].q
             t == advance_computed(s, q)
  <2>2. /\ i \in DOMAIN seqs /\ seqs'[i] = t /\ SeqOK(s) /\ DOMAIN s = Fields /\ q \in Nat
        /\ plan[k].start = s.num_computed /\ s.num_computed + q <= Len(s.tokens)
    BY <1>2, <1>3, <1>4, <2>1 DEF PlanFits, MemOK, Recorded
  <2>3. /\ t.num_computed = s.num_computed + q
        /\ t.blocks = s.blocks /\ t.tokens = s.tokens /\ t.ns = s.ns
        /\ t.num_cached_blocks = s.num_cached_blocks /\ t.prompt_len = s.prompt_len
        /\ t.prefill_target = s.prefill_target /\ t.stream = s.stream
        /\ Active(t) <=> Active(s)
    BY <2>2, AdvanceIs
  <2>4. Sound(s) /\ Held(s, pool, kv)
    BY <1>2, <2>2 DEF KvOK
  <2>5. Active(s) => /\ s.num_computed + q <= Len(s.blocks) * BlockSize
                     /\ RightFrom(s, s.num_cached_blocks, s.num_computed + q, kv)
    BY <1>1, <2>1, <2>2 DEF KvInv, PlanRoom
  <2>6. i \notin ToSet(SampledIds) => s.num_computed + q < Len(s.tokens)
    <3>1. i \notin ToSet(SampledIds) => ~plan[k].samples
      BY <1>2, <2>1, SampledIn
    <3> QED
      BY <1>1, <2>1, <2>2, <3>1 DEF KvInv, PlanRoom
  <2> HIDE DEF t, s, q
  <2>7. Active(t) => Held(t, pool, kv)
    BY <2>2, <2>3, <2>4, <2>5, HeldAdvanced DEF Held
  <2>8. Held(t, pool, kv)
    BY <2>7 DEF Held
  <2>9. Sound(t)
    BY <2>3, <2>4 DEF Sound
  <2> QED
    BY <2>2, <2>3, <2>6, <2>8, <2>9
<1>5. KvOK(seqs', pool', kv')
  BY <1>1, <1>2, <1>3, <1>4 DEF KvOK
<1>6. Progress'
  <2> SUFFICES ASSUME NEW i \in DOMAIN seqs', Active(seqs'[i])
               PROVE  seqs'[i].num_computed < Len(seqs'[i].tokens) \/ i \in ToSet(todo')
    BY <1>1 DEF Progress
  <2>1. CASE i \in ToSet(PlanIds)
    BY <1>1, <1>4, <2>1
  <2>2. CASE i \notin ToSet(PlanIds)
    BY <1>1, <1>3, <2>2, Ahead
  <2> QED
    BY <2>1, <2>2
<1>7. PlanRoom'
  BY <1>1 DEF PlanRoom
<1> QED
  BY <1>1, <1>5, <1>6, <1>7 DEF KvInv

\* A sampled token is appended, and the sequence may end.
LEMMA CommitTokenKv ==
    ASSUME IInv, AccInv, KvInv, CommitToken
    PROVE  KvInv'
<1> DEFINE id == Head(todo)
           ss == [seqs EXCEPT ![id] = push_token(@, sampled[id])]
           reason == check_finished(ss[id])
           ids == IF reason = "none" THEN <<>> ELSE <<id>>
<1>1. /\ phase = "tokens" /\ phase' = "tokens" /\ todo # <<>> /\ todo' = Tail(todo)
      /\ Finish(ss, ids, reason) /\ UNCHANGED <<plan, kv>>
  BY DEF CommitToken
<1>2. /\ MemOK(seqs, pool, fork.failed) /\ BatchOK /\ Recorded(seqs) /\ KvOK(seqs, pool, kv)
      /\ \A i \in DOMAIN seqs : SeqOK(seqs[i])
  BY <1>1, IInvFacts, MemHold DEF AccInv, KvInv
<1>3. id \in DOMAIN seqs /\ id \in Nat /\ id \in ToSet(todo) /\ ToSet(todo) = ToSet(todo') \cup {id}
  BY CommitTokenFacts
<1>4. sampled[id] \in Tokens
  BY <1>1, <1>2, <1>3 DEF BatchOK, Tokens
<1> HIDE DEF id
<1>5. /\ DOMAIN ss = DOMAIN seqs /\ ss[id] = push_token(seqs[id], sampled[id])
      /\ \A i \in DOMAIN seqs : i # id => ss[i] = seqs[i]
  BY <1>3
<1> HIDE DEF ss
<1> DEFINE s == seqs[id]
           t == ss[id]
           x == sampled[id]
<1>6. /\ t.blocks = s.blocks /\ SeqOK(t) /\ t.num_computed = s.num_computed
      /\ DOMAIN t = Fields /\ t.status = s.status /\ t.ns = s.ns
      /\ t.num_cached_blocks = s.num_cached_blocks /\ t.prompt_len = s.prompt_len
      /\ t.prefill_target = s.prefill_target /\ t.stream = s.stream
      /\ t.tokens = Append(s.tokens, x)
  <2>1. SeqOK(s) /\ DOMAIN s = Fields /\ t = push_token(s, x) /\ x \in Tokens
    BY <1>2, <1>3, <1>4, <1>5 DEF Recorded
  <2> HIDE DEF s, t, x
  <2>2. DOMAIN t = Fields
    BY <2>1, PushTokenFacts
  <2>3. /\ t.num_computed = s.num_computed /\ t.blocks = s.blocks
        /\ t.tokens = Append(s.tokens, x) /\ t.ns = s.ns
        /\ t.num_cached_blocks = s.num_cached_blocks /\ t.prompt_len = s.prompt_len
        /\ t.prefill_target = s.prefill_target /\ t.status = s.status /\ t.stream = s.stream
        /\ SeqOK(t)
    BY <2>1, PushTokenIs
  <2> QED
    BY <2>2, <2>3
<1>7. SeqOK(s) /\ Sound(s) /\ Held(s, pool, kv) /\ x \in Tokens
  BY <1>2, <1>3, <1>4 DEF KvOK
<1>8. Sound(t)
  BY <1>6, <1>7 DEF Sound
<1>9. Held(t, pool, kv)
  <2> HIDE DEF s, t, x
  <2> QED
    BY <1>6, <1>7, HeldAppended
<1>10. Active(t) => t.num_computed < Len(t.tokens)
  <2> HIDE DEF s, t, x
  <2>1. Active(t) => s.num_computed <= Len(s.tokens)
    BY <1>6, <1>7 DEF Held, Laid, Active
  <2>2. s.num_computed \in Nat /\ s.tokens \in Seq(Tokens)
    BY <1>7 DEF SeqOK
  <2>3. Len(Append(s.tokens, x)) = Len(s.tokens) + 1 /\ Len(s.tokens) \in Nat
    BY <1>7, <2>2
  <2> QED
    BY <1>6, <2>1, <2>2, <2>3
<1>11. KvOK(ss, pool, kv)
  BY <1>2, <1>5, <1>8, <1>9 DEF KvOK
<1>12. Recorded(ss)
  BY <1>2, <1>3, <1>5, <1>6 DEF Recorded
<1>13. MemOK(ss, pool, fork.failed)
  <2>1. PoolOK(BlockHashes, pool)
    BY <1>2, MemHold
  <2>2. \A i \in DOMAIN seqs : SeqOK(ss[i]) /\ ss[i].blocks = seqs[i].blocks
    BY <1>2, <1>5, <1>6
  <2>3. DOMAIN ss = DOMAIN seqs /\ MemOK(seqs, pool, fork.failed)
    BY <1>2, <1>5
  <2> QED
    BY ONLY <2>1, <2>2, <2>3, MemSame
<1>14. ids \in Seq(Nat) /\ NoRepeats(ids) /\ ToSet(ids) \subseteq DOMAIN ss
  <2>1. <<id>> \in Seq(Nat) /\ NoRepeats(<<id>>) /\ ToSet(<<id>>) = {id}
    BY <1>3 DEF NoRepeats, ToSet
  <2> QED
    BY <1>3, <1>5, <2>1, EmptySet
<1> HIDE DEF ids, reason
<1>15. /\ KvOK(seqs', pool', kv) /\ DOMAIN seqs' = DOMAIN ss
       /\ \A i \in DOMAIN ss : Active(seqs'[i]) => seqs'[i] = ss[i]
  BY <1>1, <1>11, <1>12, <1>13, <1>14, FinishKv
<1>16. Progress'
  <2> SUFFICES ASSUME NEW i \in DOMAIN seqs', Active(seqs'[i])
               PROVE  seqs'[i].num_computed < Len(seqs'[i].tokens) \/ i \in ToSet(todo')
    BY <1>1 DEF Progress
  <2>1. i \in DOMAIN seqs /\ seqs'[i] = ss[i]
    BY <1>5, <1>15
  <2>2. CASE i = id
    BY <1>10, <2>1, <2>2
  <2>3. CASE i # id
    <3>1. ss[i] = seqs[i]
      BY <1>5, <2>1, <2>3
    <3>2. seqs[i].num_computed < Len(seqs[i].tokens) \/ i \in ToSet(todo)
      BY <2>1, <3>1 DEF KvInv, Progress
    <3> QED
      BY <1>3, <2>1, <2>3, <3>1, <3>2
  <2> QED
    BY <2>2, <2>3
<1>17. PlanRoom'
  BY <1>1 DEF PlanRoom
<1> QED
  BY <1>1, <1>15, <1>16, <1>17 DEF KvInv

\* publish_full_blocks.
LEMMA CommitPublishKv ==
    ASSUME IInv, AccInv, KvInv, CommitPublish
    PROVE  KvInv'
<1> DEFINE id == Head(todo)
           s == seqs[id]
           r == publish_full_blocks(s)
<1>1. /\ phase = "publish" /\ phase' = "publish" /\ todo # <<>> /\ kv' = kv
      /\ \/ UNCHANGED <<pool, seqs>>
         \/ /\ ~(s.num_computed \div BlockSize <= s.num_cached_blocks)
            /\ pool' = r.pool /\ seqs' = [seqs EXCEPT ![id] = r.seq]
  BY DEF CommitPublish
<1>2. /\ MemOK(seqs, pool, fork.failed) /\ BatchOK /\ Recorded(seqs) /\ ToSet(PlanIds) \subseteq DOMAIN seqs
      /\ todo \in Seq(Nat) /\ KvOK(seqs, pool, kv)
  BY <1>1, IInvFacts DEF AccInv, PlanOK, TodoOK, KvInv
<1>3. id \in ToSet(todo)
  BY <1>1, <1>2, TailSet
<1>4. id \in DOMAIN seqs /\ s.num_computed <= Len(s.tokens) /\ DOMAIN s = Fields
  BY <1>1, <1>2, <1>3 DEF BatchOK, Recorded
<1>5. /\ PoolOK(BlockHashes, pool) /\ SeqOK(s) /\ \A b \in BlockId : pool.refcount[b] >= Occ(s.blocks, b)
  BY <1>2, <1>4, MemHold
<1>6. Sound(s) /\ Held(s, pool, kv) /\ IndexKv(pool, kv)
  BY <1>2, <1>4 DEF KvOK
<1> HIDE DEF id
<1>7. CASE UNCHANGED <<pool, seqs>>
  BY <1>1, <1>2, <1>7, Ahead, CalmKv
<1>8. CASE /\ ~(s.num_computed \div BlockSize <= s.num_cached_blocks)
           /\ pool' = r.pool /\ seqs' = [seqs EXCEPT ![id] = r.seq]
  <2>1. \E v : /\ SeqOK(r.seq)
               /\ r.seq = [s EXCEPT !.blocks = v, !.num_cached_blocks = s.num_computed \div BlockSize]
    BY <1>4, <1>5, PublishExchange
  <2>2. /\ SeqOK(r.seq) /\ r.seq.tokens = s.tokens /\ r.seq.num_computed = s.num_computed
        /\ r.seq.stream = s.stream /\ r.seq.prompt_len = s.prompt_len
        /\ r.seq.prefill_target = s.prefill_target /\ r.seq.status = s.status
    BY <1>4, <2>1 DEF Fields
  <2>3. /\ Careful(pool, r.pool, s.blocks, r.seq.blocks) /\ IndexKv(r.pool, kv)
        /\ Held(r.seq, r.pool, kv)
    <3>1. CASE Active(s)
      <4>1. Laid(s, pool) /\ RightFrom(s, s.num_cached_blocks, s.num_computed, kv)
        BY <1>6, <3>1 DEF Held
      <4> HIDE DEF s
      <4> QED
        BY <1>4, <1>5, <1>6, <1>8, <4>1, PublishKv
    <3>2. CASE ~Active(s)
      <4>1. /\ Careful(pool, r.pool, s.blocks, r.seq.blocks) /\ r.pool.hash_of = pool.hash_of
            /\ ~Active(r.seq)
        BY <1>4, <1>5, <3>2, PublishIdle
      <4> QED
        BY <1>6, <4>1 DEF IndexKv, Held
    <3> QED
      BY <3>1, <3>2
  <2>4. Sound(r.seq)
    BY <1>6, <2>2 DEF Sound
  <2> HIDE DEF r
  <2>5. KvOK([seqs EXCEPT ![id] = r.seq], r.pool, kv)
    BY <1>2, <1>4, <2>2, <2>3, <2>4, KvOne
  <2>6. \A i \in DOMAIN seqs' : Active(seqs'[i]) => seqs'[i].num_computed < Len(seqs'[i].tokens)
    <3>1. \A i \in DOMAIN seqs : /\ seqs'[i].num_computed = seqs[i].num_computed
                                 /\ seqs'[i].tokens = seqs[i].tokens /\ seqs'[i].status = seqs[i].status
      BY <1>4, <1>8, <2>2
    <3>2. DOMAIN seqs' = DOMAIN seqs
      BY <1>8
    <3> QED
      BY <1>1, <3>1, <3>2, Ahead DEF Active
  <2> QED
    BY <1>1, <1>8, <2>5, <2>6, CalmKv
<1> QED
  BY <1>1, <1>7, <1>8

----------------------------------------------------------------------------
(***************************************************************************)
(* The device holds what the scheduler thinks it holds.                    *)
(***************************************************************************)

\* Nothing is held at first.
LEMMA InitKv == Init => KvInv
<1> SUFFICES ASSUME Init PROVE KvInv
  OBVIOUS
<1>1. DOMAIN seqs = {} /\ phase = "idle" /\ pool = NewPool
  BY DEF Init
<1>2. \A b \in BlockId : pool.hash_of[b] = NoHash
  BY <1>1 DEF NewPool
<1>3. KvOK(seqs, pool, kv)
  BY <1>1, <1>2 DEF KvOK, IndexKv
<1>4. Progress /\ PlanRoom
  BY <1>1 DEF Progress, PlanRoom
<1> QED
  BY <1>1, <1>3, <1>4 DEF KvInv

\* Every step of a scheduler without forks keeps the invariant.
LEMMA StepKv == IInv /\ AccInv /\ GenInv /\ NoForks /\ KvInv /\ [Next]_vars => KvInv'
<1> SUFFICES ASSUME IInv, AccInv, GenInv, NoForks, KvInv, [Next]_vars PROVE KvInv'
  OBVIOUS
<1>1. CASE UNCHANGED vars
  <2>1. UNCHANGED <<pool, kv, seqs, phase, todo, plan>>
    BY <1>1 DEF vars
  <2>2. Progress' /\ PlanRoom'
    BY <2>1 DEF KvInv, Progress, PlanRoom
  <2> QED
    BY <2>1, <2>2 DEF KvInv
<1>2. ~(BeginFork \/ ForkChild \/ ForkFails \/ CopyBlocks \/ CopyFails \/ SeedFork \/ EndSeeding)
  BY DEF NoForks, BeginFork, ForkChild, ForkFails, CopyBlocks, CopyFails, SeedFork, EndSeeding
<1>3. CASE Step
  BY <1>2, <1>3, QuietKv, ScheduleDecodeKv, ContinuePrefillKv, StartWaitingKv, StartRefusedKv,
     ForwardKv, FinishStoppedKv, CommitAdvanceKv, CommitTokenKv, CommitPublishKv, DrainKv
     DEF Step
<1>4. CASE ForwardFails \/ DeadlinePassed
  BY <1>4, FailAllKv
<1>5. ASSUME NEW j \in Jobs, Admit(j) \/ Cancel(j.rid)
      PROVE  KvInv'
  BY <1>5, AdmitKv, CancelKv
<1> QED
  BY <1>1, <1>3, <1>4, <1>5 DEF Next

\* What the invariant says of a sequence, of the index and of the engine.
LEMMA KvMeans == IInv /\ AccInv /\ GenInv /\ NoForks /\ KvInv =>
                     KvCorrect /\ CachedAreOwn /\ IndexCorrect /\ WritesPrivate /\ NoPanic
<1> SUFFICES ASSUME IInv, AccInv, GenInv, NoForks, KvInv
             PROVE  KvCorrect /\ CachedAreOwn /\ IndexCorrect /\ WritesPrivate /\ NoPanic
  OBVIOUS
<1>0. KvOK(seqs, pool, kv) /\ IndexKv(pool, kv) /\ BlockSize \in Nat
  BY PoolAssumption DEF KvInv, KvOK
<1>1. ASSUME NEW i \in DOMAIN seqs, Active(seqs[i])
      PROVE  /\ Len(seqs[i].blocks) * BlockSize >= seqs[i].num_computed
             /\ RightUpTo(seqs[i], seqs[i].num_computed)
             /\ \A k \in 1 .. seqs[i].num_cached_blocks :
                   pool.hash_of[seqs[i].blocks[k]] = <<seqs[i].ns, SubSeq(seqs[i].tokens, 1, k * BlockSize)>>
  <2> DEFINE s == seqs[i]
  <2>1. SeqOK(s) /\ Laid(s, pool) /\ RightFrom(s, s.num_cached_blocks, s.num_computed, kv)
    BY <1>0, <1>1 DEF AccInv, MemOK, KvOK, Held
  <2> HIDE DEF s
  <2>2. /\ s.num_computed \in Nat /\ s.num_computed <= Len(s.blocks) * BlockSize
        /\ s.num_cached_blocks <= Len(s.blocks) /\ s.num_cached_blocks \in Nat /\ Len(s.blocks) \in Nat
    BY <2>1 DEF SeqOK, Laid
  <2>3. RightFrom(s, 0, s.num_computed, kv)
    BY <1>0, <2>1, <2>2, HeldRight
  <2>4. RightUpTo(s, s.num_computed)
    <3> SUFFICES ASSUME NEW n \in 0 .. (s.num_computed - 1)
                 PROVE  SlotOf(s, n) = SubSeq(s.tokens, 1, n + 1)
      BY DEF RightUpTo
    <3>1. n \in Nat /\ 0 * BlockSize <= n /\ n < s.num_computed
      BY <1>0, <2>2
    <3> QED
      BY <2>3, <3>1 DEF RightFrom, SlotOf
  <2>5. ASSUME NEW k \in 1 .. s.num_cached_blocks
        PROVE  pool.hash_of[s.blocks[k]] = <<s.ns, SubSeq(s.tokens, 1, k * BlockSize)>>
    <3>1. k \in 1 .. Len(s.blocks) /\ k <= s.num_cached_blocks
      BY <2>2
    <3> QED
      BY <2>1, <3>1 DEF Laid
  <2>6. Len(s.blocks) * BlockSize >= s.num_computed
    <3>1. Len(s.blocks) * BlockSize \in Nat
      BY <1>0, <2>2, MulMono
    <3> DEFINE y == Len(s.blocks) * BlockSize
    <3>2. y \in Nat /\ s.num_computed <= y
      BY <2>2, <3>1
    <3> HIDE DEF y
    <3>3. y >= s.num_computed
      BY <2>2, <3>2
    <3> QED
      BY <3>3 DEF y
  <2> QED
    BY <2>4, <2>5, <2>6 DEF s
<1>2. KvCorrect
  BY <1>1 DEF KvCorrect
<1>3. CachedAreOwn
  BY <1>1 DEF CachedAreOwn
<1>4. IndexCorrect
  <2> SUFFICES ASSUME NEW h \in DOMAIN pool.by_hash, NEW o \in Offset
               PROVE  kv[pool.by_hash[h]][o] = SubSeq(h[2], 1, Len(h[2]) - BlockSize + o + 1)
    BY DEF IndexCorrect
  <2> DEFINE b == pool.by_hash[h]
  <2>1. PoolOK(BlockHashes, pool)
    BY MemHold DEF AccInv
  <2>2. pool.hash_of[b] = h
    BY <2>1 DEF PoolOK, IndexConsistent
  <2>3. h \in BlockHashes /\ b \in BlockId
    <3>1. pool.by_hash \in HashIndex(BlockHashes)
      BY <2>1, PoolFields DEF PoolOK
    <3> QED
      BY <3>1 DEF HashIndex
  <2>4. h # NoHash
    BY <2>3, HashesReal
  <2> QED
    BY <1>0, <2>2, <2>3, <2>4 DEF IndexKv, Shows
<1>5. WritesPrivate
  BY KvPrivate
<1>6. NoPanic
  BY DEF KvInv, NoPanic
<1> QED
  BY <1>2, <1>3, <1>4, <1>5, <1>6

\* With one choice per request, in every schedule: what the device holds is
\* what the scheduler takes it to hold.
THEOREM DeviceHolds ==
    OneChoice => (Spec => [](KvCorrect /\ CachedAreOwn /\ IndexCorrect /\ WritesPrivate /\ NoPanic))
<1> SUFFICES ASSUME OneChoice
             PROVE  Spec => [](KvCorrect /\ CachedAreOwn /\ IndexCorrect /\ WritesPrivate /\ NoPanic)
  OBVIOUS
<1> DEFINE Good == KvCorrect /\ CachedAreOwn /\ IndexCorrect /\ WritesPrivate /\ NoPanic
<1>1. Init => NoForks
  BY DEF Init, NoForks
<1>2. IInv /\ NoForks /\ [Next]_vars => NoForks'
  BY StepNoForks
<1>3. IInv /\ AccInv /\ GenInv /\ NoForks /\ KvInv => Good
  BY KvMeans
<1> HIDE DEF Good
<1>4. Spec => []Good
  BY <1>1, <1>2, <1>3, InitGen, StepGen, InitKv, StepKv, AccountHolds, QueuesHold, PTL DEF Spec
<1> QED
  BY <1>4 DEF Good

\* num_computed is "the load-bearing field" (sequence.rs): every position it
\* counts holds the K/V of exactly the sequence's own tokens, through chunked
\* prefill, prefix reuse, preemption, publication and cancellation.
THEOREM ComputedIsRight == OneChoice => (Spec => []KvCorrect)
  BY DeviceHolds, PTL

\* The blocks a sequence counts as cached are indexed under its own tenant and
\* its own tokens (namespace_for): no tenant reads another's prefix.
THEOREM CachedAlwaysOwn == OneChoice => (Spec => []CachedAreOwn)
  BY DeviceHolds, PTL

\* A match never returns "a prefix that does not exist yet" (pool.rs, publish).
THEOREM IndexAlwaysCorrect == OneChoice => (Spec => []IndexCorrect)
  BY DeviceHolds, PTL

\* A forward pass writes each slot once, and only private unpublished blocks.
THEOREM WritesAlwaysPrivate == OneChoice => (Spec => []WritesPrivate)
  BY DeviceHolds, PTL

\* The engine thread never indexes past a sequence's tokens and never samples
\* for a sequence without a stream.
THEOREM EngineNeverPanics == OneChoice => (Spec => []NoPanic)
  BY DeviceHolds, PTL

=============================================================================
