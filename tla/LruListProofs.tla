--------------------------- MODULE LruListProofs ---------------------------
(***************************************************************************)
(* Proof that the linked list of pool.rs (LruList) implements the sequence *)
(* of free blocks the pool is modelled with (FreeList), for every number   *)
(* of blocks.                                                              *)
(***************************************************************************)
EXTENDS LruList, ListProofs, FiniteSetTheorems

Pointers == [BlockId -> BlockId \cup {NoBlock}]

\* The pointers are those of the list q.
Linked(q, pv, nx, hd, tl) ==
    /\ q \in Seq(BlockId) /\ NoRepeats(q)
    /\ pv \in Pointers /\ nx \in Pointers
    /\ hd = IF q = <<>> THEN NoBlock ELSE q[1]
    /\ tl = IF q = <<>> THEN NoBlock ELSE q[Len(q)]
    /\ \A i \in 1 .. Len(q) : nx[q[i]] = IF i = Len(q) THEN NoBlock ELSE q[i + 1]
    /\ \A i \in 1 .. Len(q) : pv[q[i]] = IF i = 1 THEN NoBlock ELSE q[i - 1]

\* The inductive invariant: what is met on the walk is linked both ways.
LinkInv == Linked(Walk, prev, next, lru_head, lru_tail)

\* A list of blocks without repetitions is no longer than the pool.
LEMMA ShortList ==
    ASSUME NEW q \in Seq(BlockId), NoRepeats(q)
    PROVE  Len(q) <= NumBlocks
<1> DEFINE D == 1 .. Len(q)
<1>1. Len(q) \in Nat /\ NumBlocks \in Nat /\ q \in [D -> BlockId]
  BY PoolAssumption
<1>2. IsFiniteSet(BlockId) /\ Cardinality(BlockId) = NumBlocks
  <2>1. 0 \in Int /\ NumBlocks - 1 \in Int /\ ~(0 > NumBlocks - 1) /\ (NumBlocks - 1) - 0 + 1 = NumBlocks
    BY PoolAssumption
  <2> QED
    BY <2>1, FS_Interval DEF BlockId
<1>3. Cardinality(D) = Len(q)
  BY <1>1, FS_Interval
<1>4. q \in Injection(D, BlockId)
  BY <1>1 DEF Injection, IsInjective, NoRepeats
<1> HIDE DEF D
<1>5. Cardinality(D) <= Cardinality(BlockId)
  BY <1>2, <1>4, FS_Injection
<1> QED
  BY <1>2, <1>3, <1>5

\* The walk of check_invariants meets the list.
LEMMA WalkIs ==
    ASSUME NEW q, NEW pv, NEW nx, NEW hd, NEW tl, Linked(q, pv, nx, hd, tl)
    PROVE  WalkFrom(hd, nx) = q
<1> DEFINE IsAt(g) == g = [i \in 1 .. NumBlocks |->
                              IF i = 1 THEN hd
                              ELSE IF g[i - 1] = NoBlock THEN NoBlock ELSE nx[g[i - 1]]]
           at == CHOOSE g : IsAt(g)
           p == [i \in 1 .. NumBlocks |-> IF i <= Len(q) THEN q[i] ELSE NoBlock]
<1>1. /\ q \in Seq(BlockId) /\ NoRepeats(q) /\ Len(q) \in Nat /\ NumBlocks \in Nat /\ NumBlocks > 0
      /\ hd = IF q = <<>> THEN NoBlock ELSE q[1]
      /\ \A i \in 1 .. Len(q) : nx[q[i]] = IF i = Len(q) THEN NoBlock ELSE q[i + 1]
      /\ \A i \in 1 .. Len(q) : q[i] \in BlockId
  BY PoolAssumption DEF Linked
<1>2. Len(q) <= NumBlocks
  BY <1>1, ShortList
<1> DEFINE Next_(g, i) == IF i = 1 THEN hd ELSE IF g[i - 1] = NoBlock THEN NoBlock ELSE nx[g[i - 1]]
<1>3. ASSUME NEW i \in 1 .. NumBlocks
      PROVE  p[i] = Next_(p, i)
  <2>1. CASE i = 1
    <3>1. q = <<>> <=> ~(1 <= Len(q))
      BY <1>1
    <3> QED
      BY <1>1, <2>1, <3>1
  <2>2. CASE i # 1
    <3>1. i - 1 \in 1 .. NumBlocks /\ i - 1 \in Nat
      BY <1>1, <2>2
    <3>2. CASE i - 1 <= Len(q)
      <4>1. i - 1 \in 1 .. Len(q) /\ p[i - 1] = q[i - 1] /\ p[i - 1] # NoBlock
        BY <1>1, <3>1, <3>2, NoBlockAssumption
      <4>2. nx[p[i - 1]] = IF i - 1 = Len(q) THEN NoBlock ELSE q[(i - 1) + 1]
        BY <1>1, <4>1
      <4>3. i - 1 = Len(q) <=> ~(i <= Len(q))
        BY <1>1, <3>1, <3>2
      <4>4. p[i] = IF i <= Len(q) THEN q[i] ELSE NoBlock
        OBVIOUS
      <4> HIDE DEF p
      <4> QED
        BY <2>2, <4>1, <4>2, <4>3, <4>4
    <3>3. CASE ~(i - 1 <= Len(q))
      BY <1>1, <2>2, <3>1, <3>3
    <3> QED
      BY <3>2, <3>3
  <2> QED
    BY <2>1, <2>2
<1>4. IsAt(p)
  <2>1. p = [i \in 1 .. NumBlocks |-> p[i]]
    OBVIOUS
  <2> HIDE DEF p
  <2> QED
    BY <1>3, <2>1
<1>5. IsAt(at)
  <2> HIDE DEF p, IsAt
  <2> QED
    BY <1>4
<1>6. WalkFrom(hd, nx) = Without(at, {NoBlock})
  BY DEF WalkFrom
<1> HIDE DEF at
<1>7. at = [i \in 1 .. NumBlocks |-> Next_(at, i)]
  BY <1>5
<1> DEFINE P == {n \in Nat : n < NumBlocks => at[n + 1] = p[n + 1]}
<1>8. 0 \in P
  BY <1>1, <1>3, <1>7
<1>9. ASSUME NEW n \in Nat, n \in P
      PROVE  n + 1 \in P
  <2> SUFFICES ASSUME n + 1 < NumBlocks PROVE at[(n + 1) + 1] = p[(n + 1) + 1]
    OBVIOUS
  <2> DEFINE k == (n + 1) + 1
  <2>1. k \in 1 .. NumBlocks /\ k # 1 /\ k - 1 = n + 1 /\ n < NumBlocks
    BY <1>1
  <2>2. at[k - 1] = p[k - 1]
    BY <1>9, <2>1
  <2>3. at[k] = Next_(at, k)
    BY <1>7, <2>1
  <2>4. p[k] = Next_(p, k)
    BY <1>3, <2>1
  <2> HIDE DEF p, k
  <2>5. at[k] = p[k]
    BY <2>1, <2>2, <2>3, <2>4
  <2> QED
    BY <2>5 DEF k
<1> HIDE DEF P
<1>10. Nat \subseteq P
  BY <1>8, <1>9, Induction
<1>11. at = p
  <2>1. ASSUME NEW i \in 1 .. NumBlocks PROVE at[i] = p[i]
    <3>1. i - 1 \in P /\ i - 1 < NumBlocks /\ (i - 1) + 1 = i
      BY <1>1, <1>10
    <3> QED
      BY <3>1 DEF P
  <2>2. at = [i \in 1 .. NumBlocks |-> at[i]]
    BY <1>7
  <2>3. p = [i \in 1 .. NumBlocks |-> p[i]]
    OBVIOUS
  <2> HIDE DEF p
  <2> QED
    BY <2>1, <2>2, <2>3
<1>12. p \in Seq(BlockId \cup {NoBlock}) /\ Len(p) = NumBlocks
  BY <1>1
<1>13. \A i \in 1 .. NumBlocks : p[i] = IF i <= Len(q) THEN q[i] ELSE NoBlock
  OBVIOUS
<1> HIDE DEF p
<1>14. Without(p, {NoBlock}) = q
  BY <1>1, <1>2, <1>12, <1>13, NoBlockAssumption, WithoutPadding
<1> QED
  BY <1>6, <1>11, <1>14

\* The ends of a linked list.
LEMMA Ends ==
    ASSUME NEW q, NEW pv, NEW nx, NEW hd, NEW tl, Linked(q, pv, nx, hd, tl)
    PROVE  /\ q \in Seq(BlockId) /\ NoRepeats(q) /\ Len(q) \in Nat
           /\ \A i \in 1 .. Len(q) : q[i] \in BlockId /\ q[i] # NoBlock
           /\ q = <<>> <=> Len(q) = 0
           /\ (hd # NoBlock) <=> Len(q) > 0
           /\ (tl # NoBlock) <=> Len(q) > 0
           /\ Len(q) > 0 => hd = q[1] /\ tl = q[Len(q)]
           /\ \A i, j \in 1 .. Len(q) : q[i] = q[j] => i = j
<1>1. q \in Seq(BlockId) /\ NoRepeats(q) /\ Len(q) \in Nat
  BY DEF Linked
<1>2. \A i \in 1 .. Len(q) : q[i] \in BlockId /\ q[i] # NoBlock
  BY <1>1, NoBlockAssumption
<1>3. q = <<>> <=> Len(q) = 0
  BY <1>1
<1>4. Len(q) > 0 => hd = q[1] /\ tl = q[Len(q)] /\ 1 \in 1 .. Len(q) /\ Len(q) \in 1 .. Len(q)
  BY <1>1, <1>3 DEF Linked
<1>5. ~(Len(q) > 0) => hd = NoBlock /\ tl = NoBlock
  BY <1>1, <1>3 DEF Linked
<1> QED
  BY <1>1, <1>2, <1>3, <1>4, <1>5 DEF NoRepeats

\* push_front.
LEMMA PushFrontLinks ==
    ASSUME NEW q, NEW pv, NEW nx, NEW hd, NEW tl, Linked(q, pv, nx, hd, tl),
           NEW b \in BlockId, ~InList(q, b)
    PROVE  Linked(<<b>> \o q,
                  IF hd # NoBlock THEN [pv EXCEPT ![b] = NoBlock, ![hd] = b]
                                  ELSE [pv EXCEPT ![b] = NoBlock],
                  [nx EXCEPT ![b] = hd],
                  b,
                  IF hd # NoBlock THEN tl ELSE b)
<1> DEFINE r == <<b>> \o q
           pn == IF hd # NoBlock THEN [pv EXCEPT ![b] = NoBlock, ![hd] = b]
                                 ELSE [pv EXCEPT ![b] = NoBlock]
           nn == [nx EXCEPT ![b] = hd]
           tn == IF hd # NoBlock THEN tl ELSE b
<1>1. /\ q \in Seq(BlockId) /\ NoRepeats(q) /\ Len(q) \in Nat
      /\ \A i \in 1 .. Len(q) : q[i] \in BlockId /\ q[i] # NoBlock
      /\ (hd # NoBlock) <=> Len(q) > 0
      /\ Len(q) > 0 => hd = q[1] /\ tl = q[Len(q)]
      /\ \A i, j \in 1 .. Len(q) : q[i] = q[j] => i = j
  BY Ends
<1>2. /\ pv \in Pointers /\ nx \in Pointers
      /\ \A i \in 1 .. Len(q) : nx[q[i]] = IF i = Len(q) THEN NoBlock ELSE q[i + 1]
      /\ \A i \in 1 .. Len(q) : pv[q[i]] = IF i = 1 THEN NoBlock ELSE q[i - 1]
  BY DEF Linked
<1>3. \A i \in 1 .. Len(q) : q[i] # b
  BY DEF InList
<1>4. /\ r \in Seq(BlockId) /\ Len(r) = Len(q) + 1 /\ r[1] = b /\ NoRepeats(r)
      /\ \A i \in 2 .. (Len(q) + 1) : r[i] = q[i - 1]
  BY <1>1, ConsFacts
<1>5. hd \in BlockId \cup {NoBlock}
  BY <1>1
<1>6. pn \in Pointers /\ nn \in Pointers
  BY <1>2, <1>5 DEF Pointers
<1>7. /\ nn[b] = hd /\ \A x \in BlockId : x # b => nn[x] = nx[x]
      /\ hd # NoBlock => pn[hd] = b
      /\ hd # b => pn[b] = NoBlock
      /\ \A x \in BlockId : x # b /\ x # hd => pn[x] = pv[x]
  BY <1>2, <1>5 DEF Pointers
<1>8. hd # b
  BY <1>1, <1>3, NoBlockAssumption
<1> HIDE DEF r, pn, nn
<1>9. ASSUME NEW i \in 1 .. Len(r)
      PROVE  /\ nn[r[i]] = IF i = Len(r) THEN NoBlock ELSE r[i + 1]
             /\ pn[r[i]] = IF i = 1 THEN NoBlock ELSE r[i - 1]
  <2>1. CASE i = 1
    <3>1. nn[r[i]] = hd /\ pn[r[i]] = NoBlock
      BY <1>4, <1>7, <1>8, <2>1
    <3>2. CASE Len(q) > 0
      <4>1. i # Len(r) /\ i + 1 \in 2 .. (Len(q) + 1) /\ (i + 1) - 1 = 1
        BY <1>1, <1>4, <2>1, <3>2
      <4> QED
        BY <1>1, <1>4, <2>1, <3>1, <3>2, <4>1
    <3>3. CASE ~(Len(q) > 0)
      BY <1>1, <1>4, <2>1, <3>1, <3>3
    <3> QED
      BY <3>2, <3>3
  <2>2. CASE i # 1
    <3> DEFINE k == i - 1
    <3>1. k \in 1 .. Len(q) /\ i \in 2 .. (Len(q) + 1) /\ r[i] = q[k] /\ i = k + 1
      BY <1>1, <1>4, <2>2
    <3>2. q[k] \in BlockId /\ q[k] # b /\ nn[q[k]] = nx[q[k]]
      BY <1>1, <1>3, <1>7, <3>1
    <3>3. nx[q[k]] = IF k = Len(q) THEN NoBlock ELSE q[k + 1]
      BY <1>2, <3>1
    <3>4. k = Len(q) <=> i = Len(r)
      BY <1>1, <1>4, <3>1
    <3>5. k # Len(q) => i + 1 \in 2 .. (Len(q) + 1) /\ r[i + 1] = q[k + 1]
      <4>1. k # Len(q) => i + 1 \in 2 .. (Len(q) + 1) /\ (i + 1) - 1 = k + 1
        BY <1>1, <3>1
      <4> QED
        BY <1>4, <4>1
    <3>6. nn[r[i]] = IF i = Len(r) THEN NoBlock ELSE r[i + 1]
      BY <3>1, <3>2, <3>3, <3>4, <3>5
    <3>7. CASE k = 1
      <4>1. Len(q) > 0 /\ hd = q[k] /\ hd # NoBlock
        BY <1>1, <3>1, <3>7
      <4>2. pn[r[i]] = b /\ i - 1 = 1
        BY <1>7, <3>1, <3>7, <4>1
      <4> QED
        BY <1>4, <2>2, <3>6, <4>2
    <3>8. CASE k # 1
      <4>1. q[k] # hd /\ pn[q[k]] = pv[q[k]]
        BY <1>1, <1>7, <3>1, <3>2, <3>8
      <4>2. pv[q[k]] = q[k - 1]
        BY <1>2, <3>1, <3>8
      <4>3. i - 1 \in 2 .. (Len(q) + 1) /\ (i - 1) - 1 = k - 1
        BY <1>1, <3>1, <3>8
      <4>4. r[i - 1] = q[k - 1]
        BY <1>4, <4>3
      <4> QED
        BY <2>2, <3>1, <3>6, <4>1, <4>2, <4>4
    <3> HIDE DEF k
    <3>9. pn[r[i]] = IF i = 1 THEN NoBlock ELSE r[i - 1]
      BY <3>7, <3>8
    <3> QED
      BY <3>6, <3>9
  <2> QED
    BY <2>1, <2>2
<1>10. r # <<>> /\ tn = r[Len(r)]
  <2>1. CASE Len(q) > 0
    <3>1. Len(r) \in 2 .. (Len(q) + 1) /\ Len(r) - 1 = Len(q)
      BY <1>1, <1>4, <2>1
    <3> QED
      BY <1>1, <1>4, <2>1, <3>1
  <2>2. CASE ~(Len(q) > 0)
    BY <1>1, <1>4, <2>2
  <2> QED
    BY <2>1, <2>2
<1> HIDE DEF tn
<1>11. Linked(r, pn, nn, b, tn)
  BY <1>4, <1>6, <1>9, <1>10 DEF Linked
<1> QED
  BY <1>11 DEF r, pn, nn, tn

\* push_back.
LEMMA PushBackLinks ==
    ASSUME NEW q, NEW pv, NEW nx, NEW hd, NEW tl, Linked(q, pv, nx, hd, tl),
           NEW b \in BlockId, ~InList(q, b)
    PROVE  Linked(Append(q, b),
                  [pv EXCEPT ![b] = tl],
                  IF tl # NoBlock THEN [nx EXCEPT ![b] = NoBlock, ![tl] = b]
                                  ELSE [nx EXCEPT ![b] = NoBlock],
                  IF tl # NoBlock THEN hd ELSE b,
                  b)
<1> DEFINE r == Append(q, b)
           pn == [pv EXCEPT ![b] = tl]
           nn == IF tl # NoBlock THEN [nx EXCEPT ![b] = NoBlock, ![tl] = b]
                                 ELSE [nx EXCEPT ![b] = NoBlock]
           hn == IF tl # NoBlock THEN hd ELSE b
<1>1. /\ q \in Seq(BlockId) /\ NoRepeats(q) /\ Len(q) \in Nat
      /\ \A i \in 1 .. Len(q) : q[i] \in BlockId /\ q[i] # NoBlock
      /\ (tl # NoBlock) <=> Len(q) > 0
      /\ Len(q) > 0 => hd = q[1] /\ tl = q[Len(q)]
      /\ \A i, j \in 1 .. Len(q) : q[i] = q[j] => i = j
  BY Ends
<1>2. /\ pv \in Pointers /\ nx \in Pointers
      /\ \A i \in 1 .. Len(q) : nx[q[i]] = IF i = Len(q) THEN NoBlock ELSE q[i + 1]
      /\ \A i \in 1 .. Len(q) : pv[q[i]] = IF i = 1 THEN NoBlock ELSE q[i - 1]
  BY DEF Linked
<1>3. \A i \in 1 .. Len(q) : q[i] # b
  BY DEF InList
<1>4. /\ r \in Seq(BlockId) /\ Len(r) = Len(q) + 1 /\ r[Len(q) + 1] = b
      /\ \A i \in 1 .. Len(q) : r[i] = q[i]
  BY <1>1
<1>5. NoRepeats(r)
  BY <1>1, AppendFacts
<1>6. tl \in BlockId \cup {NoBlock} /\ tl # b
  BY <1>1, <1>3, NoBlockAssumption
<1>7. pn \in Pointers /\ nn \in Pointers
  BY <1>2, <1>6 DEF Pointers
<1>8. /\ pn[b] = tl /\ \A x \in BlockId : x # b => pn[x] = pv[x]
      /\ tl # NoBlock => nn[tl] = b
      /\ nn[b] = NoBlock
      /\ \A x \in BlockId : x # b /\ x # tl => nn[x] = nx[x]
  BY <1>2, <1>6 DEF Pointers
<1> HIDE DEF r, pn, nn
<1>9. ASSUME NEW i \in 1 .. Len(r)
      PROVE  /\ nn[r[i]] = IF i = Len(r) THEN NoBlock ELSE r[i + 1]
             /\ pn[r[i]] = IF i = 1 THEN NoBlock ELSE r[i - 1]
  <2>1. CASE i = Len(r)
    <3>1. r[i] = b /\ nn[r[i]] = NoBlock /\ pn[r[i]] = tl
      BY <1>4, <1>8, <2>1
    <3>2. CASE Len(q) > 0
      <4>1. i # 1 /\ i - 1 = Len(q) /\ Len(q) \in 1 .. Len(q)
        BY <1>1, <1>4, <2>1, <3>2
      <4> QED
        BY <1>1, <1>4, <2>1, <3>1, <3>2, <4>1
    <3>3. CASE ~(Len(q) > 0)
      BY <1>1, <1>4, <2>1, <3>1, <3>3
    <3> QED
      BY <3>2, <3>3
  <2>2. CASE i # Len(r)
    <3>1. i \in 1 .. Len(q) /\ r[i] = q[i]
      BY <1>1, <1>4, <2>2
    <3>2. q[i] \in BlockId /\ q[i] # b /\ pn[q[i]] = pv[q[i]]
      BY <1>1, <1>3, <1>8, <3>1
    <3>3. i # 1 => i - 1 \in 1 .. Len(q) /\ r[i - 1] = q[i - 1]
      BY <1>1, <1>4, <3>1
    <3>4. pn[r[i]] = IF i = 1 THEN NoBlock ELSE r[i - 1]
      BY <1>2, <3>1, <3>2, <3>3
    <3>5. CASE i = Len(q)
      BY <1>1, <1>4, <1>8, <2>2, <3>1, <3>4, <3>5
    <3>6. CASE i # Len(q)
      <4>1. q[i] # tl /\ nn[q[i]] = nx[q[i]]
        BY <1>1, <1>8, <3>1, <3>2, <3>6
      <4>3. i + 1 \in 1 .. Len(q)
        BY <1>1, <3>1, <3>6
      <4>2. nx[q[i]] = q[i + 1] /\ i + 1 \in 1 .. Len(q)
        BY <1>2, <3>1, <3>6, <4>3
      <4> QED
        BY <1>4, <2>2, <3>1, <3>4, <4>1, <4>2
    <3> QED
      BY <3>5, <3>6
  <2> QED
    BY <2>1, <2>2
<1>10. r # <<>> /\ hn = r[1] /\ b = r[Len(r)]
  <2>1. CASE Len(q) > 0
    <3>1. 1 \in 1 .. Len(q)
      BY <1>1, <2>1
    <3> QED
      BY <1>1, <1>4, <2>1, <3>1
  <2>2. CASE ~(Len(q) > 0)
    BY <1>1, <1>4, <2>2
  <2> QED
    BY <2>1, <2>2
<1> HIDE DEF hn
<1>11. Linked(r, pn, nn, hn, b)
  BY <1>4, <1>5, <1>7, <1>9, <1>10 DEF Linked
<1> QED
  BY <1>11 DEF r, pn, nn, hn

\* unlink.
LEMMA UnlinkLinks ==
    ASSUME NEW q, NEW pv, NEW nx, NEW hd, NEW tl, Linked(q, pv, nx, hd, tl),
           NEW b \in BlockId, InList(q, b)
    PROVE  LET p == pv[b]
               n == nx[b]
           IN  Linked(unlink(q, b),
                      [x \in BlockId |-> IF x = b THEN NoBlock ELSE IF x = n THEN p ELSE pv[x]],
                      [x \in BlockId |-> IF x = b THEN NoBlock ELSE IF x = p THEN n ELSE nx[x]],
                      IF p # NoBlock THEN hd ELSE n,
                      IF n # NoBlock THEN tl ELSE p)
<1> DEFINE p == pv[b]
           n == nx[b]
           r == unlink(q, b)
           pn == [x \in BlockId |-> IF x = b THEN NoBlock ELSE IF x = n THEN p ELSE pv[x]]
           nn == [x \in BlockId |-> IF x = b THEN NoBlock ELSE IF x = p THEN n ELSE nx[x]]
           hn == IF p # NoBlock THEN hd ELSE n
           tn == IF n # NoBlock THEN tl ELSE p
           m == CHOOSE j \in 1 .. Len(q) : q[j] = b
<1>1. /\ q \in Seq(BlockId) /\ NoRepeats(q) /\ Len(q) \in Nat
      /\ \A i \in 1 .. Len(q) : q[i] \in BlockId /\ q[i] # NoBlock
      /\ Len(q) > 0 => hd = q[1] /\ tl = q[Len(q)]
      /\ \A i, j \in 1 .. Len(q) : q[i] = q[j] => i = j
  BY Ends
<1>2. /\ pv \in Pointers /\ nx \in Pointers
      /\ \A i \in 1 .. Len(q) : nx[q[i]] = IF i = Len(q) THEN NoBlock ELSE q[i + 1]
      /\ \A i \in 1 .. Len(q) : pv[q[i]] = IF i = 1 THEN NoBlock ELSE q[i - 1]
  BY DEF Linked
<1>3. m \in 1 .. Len(q) /\ q[m] = b
  <2>1. \E j \in 1 .. Len(q) : q[j] = b
    BY DEF InList
  <2> QED
    BY <2>1
<1>4. r = [j \in 1 .. (Len(q) - 1) |-> IF j < m THEN q[j] ELSE q[j + 1]]
  BY DEF unlink
<1> HIDE DEF m
<1>5. p = (IF m = 1 THEN NoBlock ELSE q[m - 1]) /\ n = (IF m = Len(q) THEN NoBlock ELSE q[m + 1])
  BY <1>2, <1>3
<1>6. /\ p \in BlockId \cup {NoBlock} /\ n \in BlockId \cup {NoBlock} /\ NoBlock \notin BlockId
  BY <1>2, NoBlockAssumption DEF Pointers
<1>7. pn \in Pointers /\ nn \in Pointers
  BY <1>2, <1>6 DEF Pointers
<1>8. /\ \A x \in BlockId : x # b /\ x # n => pn[x] = pv[x]
      /\ \A x \in BlockId : x # b /\ x # p => nn[x] = nx[x]
      /\ n \in BlockId /\ n # b => pn[n] = p
      /\ p \in BlockId /\ p # b => nn[p] = n
  OBVIOUS
<1>9. /\ r \in Seq(BlockId) /\ Len(r) = Len(q) - 1
      /\ \A j \in 1 .. Len(r) : j < m => r[j] = q[j]
      /\ \A j \in 1 .. Len(r) : ~(j < m) => r[j] = q[j + 1]
  <2> DEFINE F(j) == IF j < m THEN q[j] ELSE q[j + 1]
  <2>1. Len(q) - 1 \in Nat
    BY <1>1, <1>3
  <2>2. \A j \in 1 .. (Len(q) - 1) : F(j) \in BlockId
    BY <1>1, <1>3
  <2>3. r \in [1 .. (Len(q) - 1) -> BlockId]
    BY <1>4, <2>2
  <2>4. r \in Seq(BlockId) /\ Len(r) = Len(q) - 1
    BY <2>1, <2>3
  <2> QED
    BY <1>4, <2>4
<1>10. NoRepeats(r)
  <2> SUFFICES ASSUME NEW i \in 1 .. Len(r), NEW j \in 1 .. Len(r), r[i] = r[j]
               PROVE  i = j
    BY DEF NoRepeats
  <2>1. i \in 1 .. Len(q) /\ i + 1 \in 1 .. Len(q) /\ j \in 1 .. Len(q) /\ j + 1 \in 1 .. Len(q)
    BY <1>1, <1>9
  <2>2. CASE i < m /\ j < m
    BY <1>1, <1>9, <2>1, <2>2
  <2>3. CASE i < m /\ ~(j < m)
    <3>1. i = j + 1
      BY <1>1, <1>9, <2>1, <2>3
    <3> QED
      BY <1>3, <2>1, <2>3, <3>1
  <2>4. CASE ~(i < m) /\ j < m
    <3>1. i + 1 = j
      BY <1>1, <1>9, <2>1, <2>4
    <3> QED
      BY <1>3, <2>1, <2>4, <3>1
  <2>5. CASE ~(i < m) /\ ~(j < m)
    <3>1. i + 1 = j + 1
      BY <1>1, <1>9, <2>1, <2>5
    <3> QED
      BY <2>1, <3>1
  <2> QED
    BY <2>2, <2>3, <2>4, <2>5
<1> HIDE DEF r, pn, nn, p, n
\* Place j of the new list is place k of the old one.
<1>11. ASSUME NEW j \in 1 .. Len(r)
       PROVE  /\ nn[r[j]] = IF j = Len(r) THEN NoBlock ELSE r[j + 1]
              /\ pn[r[j]] = IF j = 1 THEN NoBlock ELSE r[j - 1]
  <2> DEFINE k == IF j < m THEN j ELSE j + 1
  <2>1. k \in 1 .. Len(q) /\ k # m /\ r[j] = q[k]
    BY <1>1, <1>3, <1>9
  <2>2. j < m => k = j
    OBVIOUS
  <2>3. ~(j < m) => k = j + 1
    OBVIOUS
  <2> HIDE DEF k
  <2>4. q[k] \in BlockId /\ q[k] # b
    BY <1>1, <1>3, <2>1
  <2>5. q[k] = p => m # 1 /\ k = m - 1
    <3>1. m # 1 => m - 1 \in 1 .. Len(q)
      BY <1>1, <1>3
    <3> QED
      BY <1>1, <1>5, <1>6, <2>1, <2>4, <3>1
  <2>6. q[k] = n => m # Len(q) /\ k = m + 1
    <3>1. m # Len(q) => m + 1 \in 1 .. Len(q)
      BY <1>1, <1>3
    <3> QED
      BY <1>1, <1>5, <1>6, <2>1, <2>4, <3>1
  <2>7. nn[r[j]] = IF j = Len(r) THEN NoBlock ELSE r[j + 1]
    <3>1. CASE q[k] = p
      <4>1. j < m /\ j = m - 1 /\ m \in Nat /\ Len(q) \in Nat
        BY <1>1, <1>3, <2>2, <2>3, <2>5, <3>1
      <4>2. nn[r[j]] = n
        BY <1>8, <2>1, <2>4, <3>1
      <4>3. j = Len(r) <=> m = Len(q)
        BY <1>9, <4>1
      <4>4. m # Len(q) => j + 1 \in 1 .. Len(r) /\ ~(j + 1 < m) /\ (j + 1) + 1 = m + 1
        BY <1>3, <1>9, <4>1
      <4>5. m # Len(q) => r[j + 1] = q[m + 1]
        BY <1>9, <4>4
      <4> QED
        BY <1>5, <4>2, <4>3, <4>5
    <3>2. CASE q[k] # p
      <4>1. nn[r[j]] = nx[q[k]]
        BY <1>8, <2>1, <2>4, <3>2
      <4>2. nx[q[k]] = IF k = Len(q) THEN NoBlock ELSE q[k + 1]
        BY <1>2, <2>1
      <4>3. k # m - 1
        BY <1>1, <1>3, <1>5, <2>1, <3>2
      <4>4. k = Len(q) <=> j = Len(r)
        BY <1>1, <1>3, <1>9, <2>2, <2>3, <4>3
      <4>5. ASSUME j # Len(r)
            PROVE  r[j + 1] = q[k + 1]
        <5>1. j + 1 \in 1 .. Len(r)
          BY <1>1, <1>9, <4>5
        <5>2. CASE j < m
          <6>1. j + 1 < m
            BY <1>3, <2>2, <4>3, <5>2
          <6> QED
            BY <1>9, <2>2, <5>1, <5>2, <6>1
        <5>3. CASE ~(j < m)
          <6>1. ~(j + 1 < m)
            BY <1>3, <5>3
          <6> QED
            BY <1>9, <2>3, <5>1, <5>3, <6>1
        <5> QED
          BY <5>2, <5>3
      <4> QED
        BY <4>1, <4>2, <4>4, <4>5
    <3> QED
      BY <3>1, <3>2
  <2>8. pn[r[j]] = IF j = 1 THEN NoBlock ELSE r[j - 1]
    <3>1. CASE q[k] = n
      <4>1. ~(j < m) /\ j = m /\ m \in Nat
        BY <1>3, <2>2, <2>3, <2>6, <3>1
      <4>2. pn[r[j]] = p
        BY <1>8, <2>1, <2>4, <3>1
      <4>4. m # 1 => j - 1 \in 1 .. Len(r) /\ j - 1 < m /\ j - 1 = m - 1
        BY <1>1, <1>3, <1>9, <4>1
      <4>5. m # 1 => r[j - 1] = q[m - 1]
        BY <1>9, <4>4
      <4> QED
        BY <1>5, <4>1, <4>2, <4>5
    <3>2. CASE q[k] # n
      <4>1. pn[r[j]] = pv[q[k]]
        BY <1>8, <2>1, <2>4, <3>2
      <4>2. pv[q[k]] = IF k = 1 THEN NoBlock ELSE q[k - 1]
        BY <1>2, <2>1
      <4>3. k # m + 1
        BY <1>1, <1>3, <1>5, <2>1, <3>2
      <4>4. k = 1 <=> j = 1
        BY <1>1, <1>3, <1>9, <2>1, <2>2, <2>3, <4>3
      <4>5. ASSUME j # 1
            PROVE  r[j - 1] = q[k - 1]
        <5>1. j - 1 \in 1 .. Len(r)
          BY <1>1, <1>9, <4>5
        <5>2. CASE j < m
          <6>1. j - 1 < m
            BY <1>3, <5>2
          <6> QED
            BY <1>9, <2>2, <5>1, <5>2, <6>1
        <5>3. CASE ~(j < m)
          <6>1. ~(j - 1 < m) /\ (j - 1) + 1 = k - 1
            BY <1>3, <2>3, <4>3, <5>3
          <6> QED
            BY <1>9, <5>1, <6>1
        <5> QED
          BY <5>2, <5>3
      <4> QED
        BY <4>1, <4>2, <4>4, <4>5
    <3> QED
      BY <3>1, <3>2
  <2> QED
    BY <2>7, <2>8
<1>12. Len(q) > 0 /\ hd = q[1] /\ tl = q[Len(q)]
  BY <1>1, <1>3
<1>13. r = <<>> <=> Len(q) = 1
  BY <1>1, <1>9
<1>14. hn = IF r = <<>> THEN NoBlock ELSE r[1]
  <2>1. CASE m = 1
    <3>1. p = NoBlock /\ n = IF Len(q) = 1 THEN NoBlock ELSE q[1 + 1]
      BY <1>5, <2>1
    <3>2. Len(q) # 1 => 1 \in 1 .. Len(r) /\ ~(1 < m)
      BY <1>1, <1>9, <1>12, <2>1
    <3>3. Len(q) # 1 => r[1] = q[1 + 1]
      BY <1>9, <3>2
    <3> QED
      BY <1>13, <3>1, <3>3
  <2>2. CASE m # 1
    <3>1. m - 1 \in 1 .. Len(q) /\ 1 < m /\ Len(q) # 1 /\ 1 \in 1 .. Len(r)
      BY <1>1, <1>3, <1>9, <2>2
    <3>2. p # NoBlock /\ r[1] = q[1]
      BY <1>1, <1>5, <1>9, <2>2, <3>1
    <3> QED
      BY <1>12, <1>13, <3>1, <3>2
  <2> QED
    BY <2>1, <2>2
<1>15. tn = IF r = <<>> THEN NoBlock ELSE r[Len(r)]
  <2>1. CASE m = Len(q)
    <3>1. n = NoBlock /\ p = IF Len(q) = 1 THEN NoBlock ELSE q[Len(q) - 1]
      BY <1>5, <2>1
    <3>2. Len(q) # 1 => Len(r) \in 1 .. Len(r) /\ Len(r) < m /\ Len(r) = Len(q) - 1
      BY <1>1, <1>9, <1>12, <2>1
    <3>3. Len(q) # 1 => r[Len(r)] = q[Len(q) - 1]
      BY <1>9, <3>2
    <3> QED
      BY <1>13, <3>1, <3>3
  <2>2. CASE m # Len(q)
    <3>1. /\ m + 1 \in 1 .. Len(q) /\ ~(Len(r) < m) /\ Len(q) # 1 /\ Len(r) \in 1 .. Len(r)
          /\ Len(r) + 1 = Len(q)
      BY <1>1, <1>3, <1>9, <2>2
    <3>2. n # NoBlock /\ r[Len(r)] = q[Len(q)]
      BY <1>1, <1>5, <1>9, <2>2, <3>1
    <3> QED
      BY <1>12, <1>13, <3>1, <3>2
  <2> QED
    BY <2>1, <2>2
<1> HIDE DEF hn, tn
<1>16. Linked(r, pn, nn, hn, tn)
  BY <1>7, <1>9, <1>10, <1>11, <1>14, <1>15 DEF Linked
<1> QED
  BY <1>16 DEF r, pn, nn, hn, tn, p, n

----------------------------------------------------------------------------
(***************************************************************************)
(* The refinement.                                                         *)
(***************************************************************************)

\* BlockPool::new.
LEMMA InitLinks == Init => LinkInv /\ List!Init
<1> SUFFICES ASSUME Init PROVE LinkInv /\ List!Init
  OBVIOUS
<1> DEFINE q == [i \in 1 .. NumBlocks |-> i - 1]
<1>1. NumBlocks \in Nat /\ NumBlocks > 0 /\ NoBlock \notin BlockId
  BY PoolAssumption, NoBlockAssumption
<1>2. /\ prev = [b \in BlockId |-> IF b = 0 THEN NoBlock ELSE b - 1]
      /\ next = [b \in BlockId |-> IF b = NumBlocks - 1 THEN NoBlock ELSE b + 1]
      /\ lru_head = 0 /\ lru_tail = NumBlocks - 1
  BY DEF Init
<1>3. /\ q \in Seq(BlockId) /\ Len(q) = NumBlocks
      /\ \A i \in 1 .. NumBlocks : q[i] = i - 1 /\ q[i] \in BlockId
  <2>1. \A i \in 1 .. NumBlocks : i - 1 \in BlockId
    BY <1>1 DEF BlockId
  <2> QED
    BY <1>1, <2>1
<1>4. prev \in Pointers /\ next \in Pointers
  BY <1>1, <1>2 DEF Pointers, BlockId
<1>5. q = NewPool.lru
  BY DEF NewPool
<1> HIDE DEF q
<1>6. NoRepeats(q) /\ q # <<>>
  BY <1>1, <1>3 DEF NoRepeats
<1>7. ASSUME NEW i \in 1 .. Len(q)
      PROVE  /\ next[q[i]] = IF i = Len(q) THEN NoBlock ELSE q[i + 1]
             /\ prev[q[i]] = IF i = 1 THEN NoBlock ELSE q[i - 1]
  <2>1. q[i] = i - 1 /\ q[i] \in BlockId /\ i \in 1 .. NumBlocks
    BY <1>3
  <2>2. next[q[i]] = (IF q[i] = NumBlocks - 1 THEN NoBlock ELSE q[i] + 1)
        /\ prev[q[i]] = (IF q[i] = 0 THEN NoBlock ELSE q[i] - 1)
    BY <1>2, <2>1
  <2>3. i # NumBlocks => i + 1 \in 1 .. NumBlocks /\ q[i + 1] = i
    <3>1. i # NumBlocks => i + 1 \in 1 .. NumBlocks /\ (i + 1) - 1 = i
      BY <1>1, <2>1
    <3> QED
      BY <1>3, <3>1
  <2>4. i # 1 => i - 1 \in 1 .. NumBlocks /\ q[i - 1] = (i - 1) - 1
    <3>1. i # 1 => i - 1 \in 1 .. NumBlocks
      BY <1>1, <2>1
    <3> QED
      BY <1>3, <3>1
  <2> QED
    BY <1>1, <1>3, <2>1, <2>2, <2>3, <2>4
<1>8. lru_head = q[1] /\ lru_tail = q[Len(q)]
  BY <1>1, <1>2, <1>3
<1>9. Linked(q, prev, next, lru_head, lru_tail)
  BY <1>3, <1>4, <1>6, <1>7, <1>8 DEF Linked
<1>10. Walk = q
  BY <1>9, WalkIs DEF Walk
<1> QED
  BY <1>5, <1>9, <1>10 DEF LinkInv, List!Init, List!NewPool, List!BlockId, NewPool, BlockId

\* Each pointer update is the operation on the sequence.
LEMMA StepLinks == LinkInv /\ [Next]_vars => LinkInv' /\ [List!Next]_Walk
<1> SUFFICES ASSUME LinkInv, [Next]_vars PROVE LinkInv' /\ [List!Next]_Walk
  OBVIOUS
<1>1. Linked(Walk, prev, next, lru_head, lru_tail)
  BY DEF LinkInv
<1>2. ASSUME NEW r, Linked(r, prev', next', lru_head', lru_tail')
      PROVE  LinkInv' /\ Walk' = r
  <2>1. WalkFrom(lru_head', next') = r
    BY <1>2, WalkIs
  <2>2. Walk' = r
    BY <2>1 DEF Walk, WalkFrom
  <2>3. LinkInv' <=> Linked(Walk', prev', next', lru_head', lru_tail')
    BY DEF LinkInv, Linked, Pointers
  <2> QED
    BY <1>2, <2>2, <2>3
<1>3. CASE UNCHANGED vars
  <2>1. Linked(Walk, prev', next', lru_head', lru_tail')
    BY <1>1, <1>3 DEF vars
  <2> QED
    BY <1>2, <2>1
<1>4. ASSUME NEW b \in BlockId, PushFront(b)
      PROVE  LinkInv' /\ List!Next
  <2>1. ~InList(Walk, b)
    BY <1>4 DEF PushFront
  <2>2. Linked(<<b>> \o Walk, prev', next', lru_head', lru_tail')
    <3>1. Linked(<<b>> \o Walk,
                 IF lru_head # NoBlock THEN [prev EXCEPT ![b] = NoBlock, ![lru_head] = b]
                                       ELSE [prev EXCEPT ![b] = NoBlock],
                 [next EXCEPT ![b] = lru_head],
                 b,
                 IF lru_head # NoBlock THEN lru_tail ELSE b)
      BY ONLY <1>1, <2>1, PushFrontLinks, b \in BlockId, Zenon
    <3> QED
      BY ONLY <1>4, <3>1, Zenon DEF PushFront
  <2>3. LinkInv' /\ Walk' = push_front(Walk, b)
    BY <1>2, <2>2 DEF push_front
  <2>4. List!PushFront(b)
    BY <2>1, <2>3 DEF List!PushFront, List!InList, List!push_front, InList, push_front
  <2> QED
    BY <2>3, <2>4 DEF List!Next, List!BlockId, BlockId
<1>5. ASSUME NEW b \in BlockId, PushBack(b)
      PROVE  LinkInv' /\ List!Next
  <2>1. ~InList(Walk, b)
    BY <1>5 DEF PushBack
  <2>2. Linked(Append(Walk, b), prev', next', lru_head', lru_tail')
    <3>1. Linked(Append(Walk, b),
                 [prev EXCEPT ![b] = lru_tail],
                 IF lru_tail # NoBlock THEN [next EXCEPT ![b] = NoBlock, ![lru_tail] = b]
                                       ELSE [next EXCEPT ![b] = NoBlock],
                 IF lru_tail # NoBlock THEN lru_head ELSE b,
                 b)
      BY ONLY <1>1, <2>1, PushBackLinks, b \in BlockId, Zenon
    <3> QED
      BY ONLY <1>5, <3>1, Zenon DEF PushBack
  <2>3. LinkInv' /\ Walk' = push_back(Walk, b)
    BY <1>2, <2>2 DEF push_back
  <2>4. List!PushBack(b)
    BY <2>1, <2>3 DEF List!PushBack, List!InList, List!push_back, InList, push_back
  <2> QED
    BY <2>3, <2>4 DEF List!Next, List!BlockId, BlockId
<1>6. ASSUME NEW b \in BlockId, Unlink(b)
      PROVE  LinkInv' /\ List!Next
  <2>1. InList(Walk, b)
    BY <1>6 DEF Unlink
  <2>2. Linked(unlink(Walk, b), prev', next', lru_head', lru_tail')
    BY <1>1, <1>6, <2>1, UnlinkLinks DEF Unlink
  <2>3. LinkInv' /\ Walk' = unlink(Walk, b)
    BY <1>2, <2>2
  <2>4. List!Unlink(b)
    BY <2>1, <2>3 DEF List!Unlink, List!InList, List!unlink, InList, unlink
  <2> QED
    BY <2>3, <2>4 DEF List!Next, List!BlockId, BlockId
<1> QED
  BY <1>3, <1>4, <1>5, <1>6 DEF Next

\* pool.rs: whatever the order of pushes and removals, the intrusive list is
\* the sequence of free blocks the pool's model works on, each pointer update
\* one operation of it.
THEOREM LinksImplementList == Spec => ImplementsList
<1>1. Spec => []LinkInv
  <2>1. LinkInv /\ [Next]_vars => LinkInv'
    BY StepLinks
  <2>2. Init => LinkInv
    BY InitLinks
  <2> QED
    BY <2>1, <2>2, PTL DEF Spec
<1>2. Init => List!Init
  BY InitLinks
<1>3. LinkInv /\ [Next]_vars => [List!Next]_Walk
  BY StepLinks
<1> QED
  BY <1>1, <1>2, <1>3, PTL DEF Spec, ImplementsList, List!Spec
=============================================================================
