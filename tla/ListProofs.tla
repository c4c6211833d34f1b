----------------------------- MODULE ListProofs -----------------------------
(***************************************************************************)
(* Facts about lists, proved once for all the proofs of the project.       *)
(*                                                                         *)
(* The library's induction theorems take the property as an operator,      *)
(* which the provers cannot instantiate.  Induction is available all the   *)
(* same: the least-element principle for sets of naturals, and from it     *)
(* induction for a set of naturals.                                        *)
(***************************************************************************)
EXTENDS Lists, SequencesExt, WellFoundedInduction, TLAPS

\* Every non-empty set of naturals has a least element: induction, in the
\* form of a least counterexample.
LEMMA LeastNat ==
    ASSUME NEW T \in SUBSET Nat, T # {}
    PROVE  \E x \in T : \A y \in T : x <= y
<1> DEFINE R == OpToRel(<, Nat)
<1>1. IsWellFoundedOn(R, Nat)
  BY NatLessThanWellFounded
<1>2. \A x, y \in Nat : <<x, y>> \in R <=> x < y
  BY DEF OpToRel
<1> HIDE DEF R
<1>3. PICK x \in T : \A y \in T : ~ (<<y, x>> \in R)
  BY <1>1, WFMin
<1>4. x \in Nat /\ \A y \in T : y \in Nat /\ ~(y < x)
  BY <1>2, <1>3
<1> QED
  BY <1>4

\* Induction over the naturals, the property being given as a set.
LEMMA Induction ==
    ASSUME NEW P, 0 \in P, \A n \in Nat : n \in P => n + 1 \in P
    PROVE  Nat \subseteq P
<1> SUFFICES ASSUME Nat \ P # {} PROVE FALSE
  OBVIOUS
<1>1. PICK x \in Nat \ P : \A y \in Nat \ P : x <= y
  <2> DEFINE T == Nat \ P
  <2>1. T \in SUBSET Nat /\ T # {}
    OBVIOUS
  <2> HIDE DEF T
  <2>2. \E x \in T : \A y \in T : x <= y
    BY <2>1, LeastNat
  <2> QED
    BY <2>2 DEF T
<1>2. x # 0
  BY <1>1
<1>3. x - 1 \in Nat /\ x - 1 + 1 = x
  BY <1>2
<1>4. x - 1 \in P
  BY <1>1, <1>3
<1> QED
  BY <1>1, <1>3, <1>4

----------------------------------------------------------------------------
(***************************************************************************)
(* Without.                                                                *)
(***************************************************************************)

\* The recursive function of Without, on the first m places of q.
KeptUpTo(g, q, S, m) ==
    g = [n \in 0 .. m |-> IF n = 0 THEN <<>> ELSE Keep(g[n - 1], q[n], S)]

\* There is such a function: the recursive definition of Without defines one.
LEMMA KeptExists ==
    ASSUME NEW q, NEW S, NEW m \in Nat
    PROVE  \E g : KeptUpTo(g, q, S, m)
<1> DEFINE P == {n \in Nat : \E g : KeptUpTo(g, q, S, n)}
<1>1. 0 \in P
  <2>1. KeptUpTo([n \in 0 .. 0 |-> <<>>], q, S, 0)
    BY DEF KeptUpTo
  <2> QED
    BY <2>1
<1>2. ASSUME NEW n \in Nat, n \in P
      PROVE  n + 1 \in P
  <2>1. PICK g : KeptUpTo(g, q, S, n)
    BY <1>2
  <2> DEFINE h == [k \in 0 .. (n + 1) |->
                      IF k <= n THEN g[k] ELSE Keep(g[k - 1], q[k], S)]
  <2>2. KeptUpTo(h, q, S, n + 1)
    BY <2>1 DEF KeptUpTo
  <2> QED
    BY <2>2
<1> HIDE DEF P
<1>3. Nat \subseteq P
  BY <1>1, <1>2, Induction
<1> QED
  BY <1>3 DEF P

\* r is what is left of the first n places of q without the members of S, in
\* the order of q: e maps the places of r to those of q.
Filtered(r, q, n, S) ==
    \E e \in [1 .. Len(r) -> 1 .. n] :
        /\ \A i \in 1 .. Len(r) : r[i] = q[e[i]]
        /\ \A i, j \in 1 .. Len(r) : i < j => e[i] < e[j]
        /\ \A k \in 1 .. n : q[k] \notin S <=> \E i \in 1 .. Len(r) : e[i] = k

\* Without filters, and keeps the order of what it leaves.
LEMMA WithoutFilters ==
    ASSUME NEW A, NEW q \in Seq(A), NEW S
    PROVE  Without(q, S) \in Seq(A) /\ Filtered(Without(q, S), q, Len(q), S)
<1> DEFINE kept == CHOOSE g : KeptUpTo(g, q, S, Len(q))
<1>1. KeptUpTo(kept, q, S, Len(q))
  BY KeptExists
<1>2. Without(q, S) = kept[Len(q)]
  BY DEF Without, KeptUpTo
<1> HIDE DEF kept
<1>3. kept[0] = <<>>
  BY <1>1 DEF KeptUpTo
<1>4. ASSUME NEW n \in 1 .. Len(q)
      PROVE  kept[n] = Keep(kept[n - 1], q[n], S)
  BY <1>1 DEF KeptUpTo
<1> DEFINE Good(n) == kept[n] \in Seq(A) /\ Filtered(kept[n], q, n, S)
           P == {n \in Nat : n <= Len(q) => Good(n)}
<1>5. 0 \in P
  <2> DEFINE e == [i \in 1 .. Len(kept[0]) |-> 0]
  <2>1. kept[0] \in Seq(A) /\ 1 .. Len(kept[0]) = {} /\ 1 .. 0 = {}
    BY <1>3
  <2>2. e \in [1 .. Len(kept[0]) -> 1 .. 0]
    BY <2>1
  <2>3. Filtered(kept[0], q, 0, S)
    BY <2>1, <2>2 DEF Filtered
  <2> QED
    BY <2>1, <2>3
<1>6. ASSUME NEW n \in Nat, n \in P
      PROVE  n + 1 \in P
  <2> SUFFICES ASSUME n + 1 <= Len(q) PROVE Good(n + 1)
    OBVIOUS
  <2>1. Good(n) /\ q[n + 1] \in A
    BY <1>6
  <2>4. kept[n + 1] = Keep(kept[n], q[n + 1], S)
    <3>1. n + 1 \in 1 .. Len(q) /\ (n + 1) - 1 = n
      OBVIOUS
    <3> QED
      BY <1>4, <3>1
  <2>2. CASE q[n + 1] \in S
    <3>1. kept[n + 1] = kept[n]
      BY <2>2, <2>4 DEF Keep
    <3>3. PICK e \in [1 .. Len(kept[n]) -> 1 .. n] :
             /\ \A i \in 1 .. Len(kept[n]) : kept[n][i] = q[e[i]]
             /\ \A i, j \in 1 .. Len(kept[n]) : i < j => e[i] < e[j]
             /\ \A k \in 1 .. n : q[k] \notin S <=> \E i \in 1 .. Len(kept[n]) : e[i] = k
      BY <2>1 DEF Filtered
    <3>4. e \in [1 .. Len(kept[n]) -> 1 .. (n + 1)]
      BY <3>3
    <3>5. ASSUME NEW k \in 1 .. (n + 1)
          PROVE  q[k] \notin S <=> \E i \in 1 .. Len(kept[n]) : e[i] = k
      <4>1. CASE k = n + 1
        BY <2>2, <3>3, <4>1
      <4>2. CASE k # n + 1
        BY <3>3, <4>2
      <4> QED
        BY <4>1, <4>2
    <3>2. Filtered(kept[n], q, n + 1, S)
      BY <3>3, <3>4, <3>5 DEF Filtered
    <3> QED
      BY <2>1, <3>1, <3>2
  <2>3. CASE q[n + 1] \notin S
    <3> DEFINE r == kept[n]
               t == Append(r, q[n + 1])
    <3>1. kept[n + 1] = t
      BY <2>3, <2>4 DEF Keep
    <3>2. PICK e \in [1 .. Len(r) -> 1 .. n] :
             /\ \A i \in 1 .. Len(r) : r[i] = q[e[i]]
             /\ \A i, j \in 1 .. Len(r) : i < j => e[i] < e[j]
             /\ \A k \in 1 .. n : q[k] \notin S <=> \E i \in 1 .. Len(r) : e[i] = k
      BY <2>1 DEF Filtered
    <3>3. /\ t \in Seq(A) /\ Len(t) = Len(r) + 1 /\ t[Len(r) + 1] = q[n + 1]
          /\ \A i \in 1 .. Len(r) : t[i] = r[i]
          /\ Len(r) \in Nat
      BY <2>1
    <3> HIDE DEF r, t
    <3> DEFINE f == [i \in 1 .. Len(t) |-> IF i <= Len(r) THEN e[i] ELSE n + 1]
    <3>4. f \in [1 .. Len(t) -> 1 .. (n + 1)]
      BY <3>2, <3>3
    <3>5. \A i \in 1 .. Len(t) : t[i] = q[f[i]]
      BY <3>2, <3>3
    <3>6. ASSUME NEW i \in 1 .. Len(t), NEW j \in 1 .. Len(t), i < j
          PROVE  f[i] < f[j]
      <4>1. i \in 1 .. Len(r) /\ f[i] = e[i] /\ e[i] \in 1 .. n
        BY <3>2, <3>3, <3>6, SMTT(20)
      <4>2. CASE j <= Len(r)
        BY <3>2, <3>6, <4>1, <4>2
      <4>3. CASE ~(j <= Len(r))
        BY <3>3, <4>1, <4>3
      <4> QED
        BY <4>2, <4>3
    <3>7. ASSUME NEW k \in 1 .. (n + 1)
          PROVE  q[k] \notin S <=> \E i \in 1 .. Len(t) : f[i] = k
      <4>1. CASE k = n + 1
        <5>1. Len(r) + 1 \in 1 .. Len(t) /\ f[Len(r) + 1] = n + 1
          BY <3>3
        <5> QED
          BY <2>3, <4>1, <5>1
      <4>2. CASE k # n + 1
        <5>1. k \in 1 .. n
          BY <4>2
        <5>2. ASSUME NEW i \in 1 .. Len(r) PROVE i \in 1 .. Len(t) /\ f[i] = e[i]
          BY <3>3
        <5>3. ASSUME NEW i \in 1 .. Len(t), f[i] = k PROVE i \in 1 .. Len(r)
          BY <3>3, <4>2, <5>3
        <5> HIDE DEF f
        <5> QED
          BY <3>2, <5>1, <5>2, <5>3
      <4> QED
        BY <4>1, <4>2
    <3>8. Filtered(t, q, n + 1, S)
      BY <3>4, <3>5, <3>6, <3>7 DEF Filtered
    <3> QED
      BY <3>1, <3>3, <3>8
  <2> QED
    BY <2>2, <2>3
<1> HIDE DEF P
<1>7. Nat \subseteq P
  BY <1>5, <1>6, Induction
<1>8. Good(Len(q))
  BY <1>7 DEF P
<1> QED
  BY <1>2, <1>8

\* What callers of Without use: members, repetitions and order.
LEMMA WithoutFacts ==
    ASSUME NEW A, NEW q \in Seq(A), NEW S
    PROVE  /\ Without(q, S) \in Seq(A)
           /\ \A x : InList(Without(q, S), x) <=> InList(q, x) /\ x \notin S
           /\ NoRepeats(q) => NoRepeats(Without(q, S))
           /\ \A i, j \in 1 .. Len(Without(q, S)) : i < j =>
                 \E k, l \in 1 .. Len(q) :
                     k < l /\ Without(q, S)[i] = q[k] /\ Without(q, S)[j] = q[l]
<1> DEFINE r == Without(q, S)
<1>1. r \in Seq(A) /\ Filtered(r, q, Len(q), S)
  BY WithoutFilters
<1> HIDE DEF r
<1>2. PICK e \in [1 .. Len(r) -> 1 .. Len(q)] :
         /\ \A i \in 1 .. Len(r) : r[i] = q[e[i]]
         /\ \A i, j \in 1 .. Len(r) : i < j => e[i] < e[j]
         /\ \A k \in 1 .. Len(q) : q[k] \notin S <=> \E i \in 1 .. Len(r) : e[i] = k
  BY <1>1 DEF Filtered
<1>3. Len(r) \in Nat /\ Len(q) \in Nat /\ \A i \in 1 .. Len(r) : e[i] \in 1 .. Len(q)
  BY <1>1, <1>2
<1>4. ASSUME NEW x
      PROVE  InList(r, x) <=> InList(q, x) /\ x \notin S
  <2>1. ASSUME InList(r, x) PROVE InList(q, x) /\ x \notin S
    <3>1. PICK i \in 1 .. Len(r) : r[i] = x
      BY <2>1 DEF InList
    <3>2. e[i] \in 1 .. Len(q) /\ q[e[i]] = x
      BY <1>2, <1>3, <3>1
    <3> QED
      BY <1>2, <3>2 DEF InList
  <2>2. ASSUME InList(q, x), x \notin S PROVE InList(r, x)
    <3>1. PICK k \in 1 .. Len(q) : q[k] = x
      BY <2>2 DEF InList
    <3>2. PICK i \in 1 .. Len(r) : e[i] = k
      BY <1>2, <2>2, <3>1
    <3>3. r[i] = x
      BY <1>2, <3>1, <3>2
    <3> QED
      BY <3>3 DEF InList
  <2> QED
    BY <2>1, <2>2
<1>5. ASSUME NoRepeats(q)
      PROVE  NoRepeats(r)
  <2>1. ASSUME NEW i \in 1 .. Len(r), NEW j \in 1 .. Len(r), r[i] = r[j]
        PROVE  e[i] = e[j]
    <3>1. q[e[i]] = q[e[j]]
      BY <1>2, <2>1
    <3> QED
      BY <1>3, <1>5, <3>1 DEF NoRepeats
  <2>2. ASSUME NEW i \in 1 .. Len(r), NEW j \in 1 .. Len(r), e[i] = e[j]
        PROVE  i = j
    <3>1. e[i] \in Int /\ e[j] \in Int /\ ~(e[i] < e[j]) /\ ~(e[j] < e[i])
      BY <1>3, <2>2
    <3>2. \A k, l \in 1 .. Len(r) : k < l => e[k] < e[l]
      BY <1>2
    <3>3. ~(i < j) /\ ~(j < i)
      BY <3>1, <3>2
    <3> QED
      BY <1>3, <3>3
  <2> QED
    BY <2>1, <2>2 DEF NoRepeats
<1>6. ASSUME NEW i \in 1 .. Len(r), NEW j \in 1 .. Len(r), i < j
      PROVE  \E k, l \in 1 .. Len(q) : k < l /\ r[i] = q[k] /\ r[j] = q[l]
  BY <1>2, <1>3, <1>6
<1> QED
  BY <1>1, <1>4, <1>5, <1>6 DEF r

\* A list followed by copies of something that is not in it.
LEMMA WithoutPadding ==
    ASSUME NEW A, NEW q \in Seq(A), NEW x, x \notin A, NEW p \in Seq(A \cup {x}), Len(q) <= Len(p),
           \A i \in 1 .. Len(p) : p[i] = IF i <= Len(q) THEN q[i] ELSE x
    PROVE  Without(p, {x}) = q
<1> DEFINE kept == CHOOSE g : KeptUpTo(g, p, {x}, Len(p))
<1>1. Len(q) \in Nat /\ Len(p) \in Nat
  OBVIOUS
<1>2. KeptUpTo(kept, p, {x}, Len(p))
  <2>1. \E g : KeptUpTo(g, p, {x}, Len(p))
    BY <1>1, KeptExists
  <2> QED
    BY <2>1
<1>3. Without(p, {x}) = kept[Len(p)]
  BY DEF Without, KeptUpTo
<1> HIDE DEF kept
<1>4. kept[0] = <<>> /\ \A n \in 1 .. Len(p) : kept[n] = Keep(kept[n - 1], p[n], {x})
  BY <1>1, <1>2, SMTT(20) DEF KeptUpTo
<1> DEFINE Good(n) == /\ kept[n] \in Seq(A)
                      /\ Len(kept[n]) = IF n <= Len(q) THEN n ELSE Len(q)
                      /\ \A i \in 1 .. Len(kept[n]) : kept[n][i] = q[i]
           P == {n \in Nat : n <= Len(p) => Good(n)}
<1>5. Good(0)
  BY <1>1, <1>4
<1>6. ASSUME NEW n \in Nat, Good(n), n + 1 <= Len(p)
      PROVE  Good(n + 1)
  <2>1. n + 1 \in 1 .. Len(p) /\ (n + 1) - 1 = n
    BY <1>1, <1>6
  <2>2. kept[n + 1] = Keep(kept[n], p[n + 1], {x})
    BY <1>4, <2>1
  <2>3. CASE n + 1 <= Len(q)
    <3>1. p[n + 1] = q[n + 1] /\ q[n + 1] \in A
      BY <1>1, <2>1, <2>3
    <3>2. kept[n + 1] = Append(kept[n], q[n + 1])
      BY <2>2, <3>1 DEF Keep
    <3>3. Len(kept[n]) = n /\ kept[n] \in Seq(A)
      BY <1>1, <1>6, <2>3
    <3>4. /\ kept[n + 1] \in Seq(A) /\ Len(kept[n + 1]) = n + 1 /\ kept[n + 1][n + 1] = q[n + 1]
          /\ \A i \in 1 .. n : kept[n + 1][i] = kept[n][i]
      BY <3>1, <3>2, <3>3
    <3> QED
      BY <1>6, <2>3, <3>3, <3>4
  <2>4. CASE ~(n + 1 <= Len(q))
    <3>1. kept[n + 1] = kept[n]
      BY <2>1, <2>2, <2>4 DEF Keep
    <3>2. (IF n <= Len(q) THEN n ELSE Len(q)) = (IF n + 1 <= Len(q) THEN n + 1 ELSE Len(q))
      BY <1>1, <2>4
    <3> QED
      BY <1>6, <3>1, <3>2
  <2> QED
    BY <2>3, <2>4
<1> HIDE DEF Good
<1>7. 0 \in P /\ \A n \in Nat : n \in P => n + 1 \in P
  BY <1>1, <1>5, <1>6
<1> HIDE DEF P
<1>8. Nat \subseteq P
  BY <1>7, Induction
<1>9. Good(Len(p))
  BY <1>1, <1>8 DEF P
<1>10. /\ kept[Len(p)] \in Seq(A) /\ Len(kept[Len(p)]) = Len(q)
       /\ \A i \in 1 .. Len(q) : kept[Len(p)][i] = q[i]
  BY <1>1, <1>9 DEF Good
<1> QED
  BY <1>3, <1>10

----------------------------------------------------------------------------
(***************************************************************************)
(* The ends of a list.                                                     *)
(***************************************************************************)

\* Append.
LEMMA AppendFacts ==
    ASSUME NEW A, NEW q \in Seq(A), NEW x \in A
    PROVE  /\ Append(q, x) \in Seq(A)
           /\ \A y : InList(Append(q, x), y) <=> InList(q, y) \/ y = x
           /\ NoRepeats(q) /\ ~InList(q, x) => NoRepeats(Append(q, x))
<1> DEFINE r == Append(q, x)
<1>1. /\ r \in Seq(A) /\ Len(q) \in Nat /\ Len(r) = Len(q) + 1 /\ r[Len(q) + 1] = x
      /\ \A i \in 1 .. Len(q) : r[i] = q[i]
  OBVIOUS
<1> HIDE DEF r
<1>2. \A i \in 1 .. Len(r) : i = Len(q) + 1 \/ i \in 1 .. Len(q)
  BY <1>1
<1>3. Len(q) + 1 \in 1 .. Len(r) /\ \A i \in 1 .. Len(q) : i \in 1 .. Len(r)
  BY <1>1
<1>4. \A y : InList(r, y) <=> InList(q, y) \/ y = x
  BY <1>1, <1>2, <1>3 DEF InList
<1>5. NoRepeats(q) /\ ~InList(q, x) => NoRepeats(r)
  BY <1>1, <1>2 DEF InList, NoRepeats
<1> QED
  BY <1>1, <1>4, <1>5 DEF r

\* A new head.
LEMMA ConsFacts ==
    ASSUME NEW A, NEW q \in Seq(A), NEW x \in A
    PROVE  /\ <<x>> \o q \in Seq(A)
           /\ \A y : InList(<<x>> \o q, y) <=> InList(q, y) \/ y = x
           /\ NoRepeats(q) /\ ~InList(q, x) => NoRepeats(<<x>> \o q)
           /\ Len(<<x>> \o q) = Len(q) + 1
           /\ (<<x>> \o q)[1] = x
           /\ \A i \in 2 .. (Len(q) + 1) : (<<x>> \o q)[i] = q[i - 1]
<1> DEFINE r == <<x>> \o q
<1>1. /\ r \in Seq(A) /\ Len(q) \in Nat /\ Len(r) = Len(q) + 1 /\ r[1] = x
      /\ \A i \in 2 .. (Len(q) + 1) : r[i] = q[i - 1]
  OBVIOUS
<1> HIDE DEF r
<1>2. \A i \in 1 .. Len(r) : i = 1 \/ (i \in 2 .. Len(r) /\ i - 1 \in 1 .. Len(q) /\ r[i] = q[i - 1])
  BY <1>1
<1>3. 1 \in 1 .. Len(r) /\ \A i \in 1 .. Len(q) : i + 1 \in 1 .. Len(r) /\ r[i + 1] = q[i]
  BY <1>1
<1>4. ASSUME NEW y PROVE InList(r, y) <=> InList(q, y) \/ y = x
  <2>1. ASSUME NEW i \in 1 .. Len(r), r[i] = y PROVE InList(q, y) \/ y = x
    BY <1>1, <1>2, <2>1 DEF InList
  <2>2. ASSUME NEW i \in 1 .. Len(q), q[i] = y PROVE InList(r, y)
    BY <1>3, <2>2 DEF InList
  <2>3. InList(r, x)
    BY <1>1, <1>3 DEF InList
  <2> QED
    BY <2>1, <2>2, <2>3 DEF InList
<1>5. ASSUME NoRepeats(q), ~InList(q, x), NEW i \in 1 .. Len(r), NEW j \in 1 .. Len(r), r[i] = r[j]
      PROVE  i = j
  <2>1. CASE i = 1 \/ j = 1
    BY <1>1, <1>2, <1>5, <2>1 DEF InList
  <2>2. CASE i # 1 /\ j # 1
    <3>1. i - 1 = j - 1
      BY <1>2, <1>5, <2>2 DEF NoRepeats
    <3> QED
      BY <1>1, <3>1
  <2> QED
    BY <2>1, <2>2
<1>6. NoRepeats(q) /\ ~InList(q, x) => NoRepeats(r)
  BY <1>5 DEF NoRepeats
<1> QED
  BY <1>1, <1>4, <1>6 DEF r

\* The head and the rest.
LEMMA TailFacts ==
    ASSUME NEW A, NEW q \in Seq(A), q # <<>>
    PROVE  /\ Head(q) \in A /\ Tail(q) \in Seq(A) /\ Head(q) = q[1]
           /\ \A y : InList(q, y) <=> InList(Tail(q), y) \/ y = Head(q)
           /\ NoRepeats(q) => NoRepeats(Tail(q)) /\ ~InList(Tail(q), Head(q))
           /\ Len(Tail(q)) = Len(q) - 1
           /\ \A i \in 1 .. Len(Tail(q)) : Tail(q)[i] = q[i + 1]
<1> DEFINE r == Tail(q)
<1>1. /\ r \in Seq(A) /\ Len(q) \in Nat /\ Len(q) > 0 /\ Len(r) = Len(q) - 1
      /\ Head(q) = q[1] /\ q[1] \in A
      /\ \A i \in 1 .. Len(r) : r[i] = q[i + 1]
  OBVIOUS
<1> HIDE DEF r
<1>2. \A i \in 1 .. Len(q) : i = 1 \/ (i - 1 \in 1 .. Len(r) /\ r[i - 1] = q[i])
  BY <1>1
<1>3. 1 \in 1 .. Len(q) /\ \A i \in 1 .. Len(r) : i + 1 \in 1 .. Len(q) /\ i + 1 # 1
  BY <1>1
<1>4. \A y : InList(q, y) <=> InList(r, y) \/ y = q[1]
  BY <1>1, <1>2, <1>3 DEF InList
<1>5. NoRepeats(q) => ~InList(r, q[1])
  BY <1>1, <1>3 DEF InList, NoRepeats
<1>6. ASSUME NoRepeats(q), NEW i \in 1 .. Len(r), NEW j \in 1 .. Len(r), r[i] = r[j]
      PROVE  i = j
  <2>1. i + 1 = j + 1
    BY <1>1, <1>3, <1>6 DEF NoRepeats
  <2> QED
    BY <1>1, <2>1
<1>7. NoRepeats(q) => NoRepeats(r)
  BY <1>6 DEF NoRepeats
<1> QED
  BY <1>1, <1>4, <1>5, <1>7 DEF r

\* Concatenation.
LEMMA ConcatFacts ==
    ASSUME NEW A, NEW q \in Seq(A), NEW r \in Seq(A)
    PROVE  /\ q \o r \in Seq(A)
           /\ \A y : InList(q \o r, y) <=> InList(q, y) \/ InList(r, y)
           /\ (NoRepeats(q) /\ NoRepeats(r) /\ \A y : ~(InList(q, y) /\ InList(r, y)))
                 <=> NoRepeats(q \o r)
<1> DEFINE t == q \o r
<1>1. /\ t \in Seq(A) /\ Len(q) \in Nat /\ Len(r) \in Nat /\ Len(t) = Len(q) + Len(r)
      /\ \A i \in 1 .. Len(t) : t[i] = IF i <= Len(q) THEN q[i] ELSE r[i - Len(q)]
  OBVIOUS
<1> HIDE DEF t
<1>2. ASSUME NEW i \in 1 .. Len(t), i \notin 1 .. Len(q)
      PROVE  i - Len(q) \in 1 .. Len(r) /\ t[i] = r[i - Len(q)]
  BY <1>1, <1>2
<1>3. ASSUME NEW i \in 1 .. Len(q)
      PROVE  i \in 1 .. Len(t) /\ t[i] = q[i]
  BY <1>1
<1>7. ASSUME NEW i \in 1 .. Len(r)
      PROVE  i + Len(q) \in 1 .. Len(t) /\ t[i + Len(q)] = r[i]
  <2>1. i + Len(q) \in 1 .. Len(t) /\ ~(i + Len(q) <= Len(q)) /\ (i + Len(q)) - Len(q) = i
    BY <1>1
  <2> QED
    BY <1>1, <2>1
<1>4. ASSUME NEW y PROVE InList(t, y) <=> InList(q, y) \/ InList(r, y)
  <2>1. ASSUME NEW i \in 1 .. Len(t), t[i] = y PROVE InList(q, y) \/ InList(r, y)
    BY <1>2, <1>3, <2>1 DEF InList
  <2>2. ASSUME NEW i \in 1 .. Len(q), q[i] = y PROVE InList(t, y)
    BY <1>3, <2>2 DEF InList
  <2>3. ASSUME NEW i \in 1 .. Len(r), r[i] = y PROVE InList(t, y)
    BY <1>7, <2>3 DEF InList
  <2> QED
    BY <2>1, <2>2, <2>3 DEF InList
<1>5. ASSUME NoRepeats(q), NoRepeats(r), \A y : ~(InList(q, y) /\ InList(r, y)),
             NEW i \in 1 .. Len(t), NEW j \in 1 .. Len(t), t[i] = t[j]
      PROVE  i = j
  <2>1. CASE i \in 1 .. Len(q) /\ j \in 1 .. Len(q)
    BY <1>3, <1>5, <2>1 DEF NoRepeats
  <2>2. CASE i \notin 1 .. Len(q) /\ j \notin 1 .. Len(q)
    <3>1. i - Len(q) = j - Len(q)
      BY <1>2, <1>5, <2>2 DEF NoRepeats
    <3> QED
      BY <1>1, <3>1
  <2>3. CASE i \in 1 .. Len(q) /\ j \notin 1 .. Len(q)
    BY <1>2, <1>3, <1>5, <2>3 DEF InList
  <2>4. CASE i \notin 1 .. Len(q) /\ j \in 1 .. Len(q)
    BY <1>2, <1>3, <1>5, <2>4 DEF InList
  <2> QED
    BY <2>1, <2>2, <2>3, <2>4
<1>6. (NoRepeats(q) /\ NoRepeats(r) /\ \A y : ~(InList(q, y) /\ InList(r, y))) => NoRepeats(t)
  BY <1>5 DEF NoRepeats
<1>8. ASSUME NoRepeats(t)
      PROVE  NoRepeats(q) /\ NoRepeats(r) /\ \A y : ~(InList(q, y) /\ InList(r, y))
  <2>1. NoRepeats(q)
    BY <1>3, <1>8 DEF NoRepeats
  <2>2. ASSUME NEW i \in 1 .. Len(r), NEW j \in 1 .. Len(r), r[i] = r[j]
        PROVE  i = j
    <3>1. i + Len(q) = j + Len(q)
      BY <1>7, <1>8, <2>2 DEF NoRepeats
    <3> QED
      BY <1>1, <3>1
  <2>3. ASSUME NEW i \in 1 .. Len(q), NEW j \in 1 .. Len(r), q[i] = r[j]
        PROVE  FALSE
    <3>1. i = j + Len(q)
      BY <1>3, <1>7, <1>8, <2>3 DEF NoRepeats
    <3> QED
      BY <1>1, <3>1
  <2> QED
    BY <2>1, <2>2, <2>3 DEF NoRepeats, InList
<1> QED
  BY <1>1, <1>4, <1>6, <1>8 DEF t

----------------------------------------------------------------------------
(***************************************************************************)
(* Lists and their members.                                                *)
(***************************************************************************)

\* The members of a list.
LEMMA Members ==
    ASSUME NEW A, NEW q \in Seq(A), NEW x
    PROVE  x \in ToSet(q) <=> InList(q, x)
  BY DEF ToSet, InList

\* retain.
LEMMA WithoutSet ==
    ASSUME NEW A, NEW q \in Seq(A), NEW S
    PROVE  /\ Without(q, S) \in Seq(A)
           /\ ToSet(Without(q, S)) = ToSet(q) \ S
           /\ NoRepeats(q) => NoRepeats(Without(q, S))
  BY WithoutFacts, Members

\* push_back.
LEMMA AppendSet ==
    ASSUME NEW A, NEW q \in Seq(A), NEW x \in A
    PROVE  /\ Append(q, x) \in Seq(A)
           /\ ToSet(Append(q, x)) = ToSet(q) \cup {x}
           /\ NoRepeats(q) /\ x \notin ToSet(q) => NoRepeats(Append(q, x))
<1>1. /\ Append(q, x) \in Seq(A)
      /\ \A y : InList(Append(q, x), y) <=> InList(q, y) \/ y = x
      /\ NoRepeats(q) /\ ~InList(q, x) => NoRepeats(Append(q, x))
  BY AppendFacts
<1> QED
  BY <1>1, Members

\* push_front.
LEMMA ConsSet ==
    ASSUME NEW A, NEW q \in Seq(A), NEW x \in A
    PROVE  /\ <<x>> \o q \in Seq(A)
           /\ ToSet(<<x>> \o q) = ToSet(q) \cup {x}
           /\ NoRepeats(q) /\ x \notin ToSet(q) => NoRepeats(<<x>> \o q)
<1>1. /\ <<x>> \o q \in Seq(A)
      /\ \A y : InList(<<x>> \o q, y) <=> InList(q, y) \/ y = x
      /\ NoRepeats(q) /\ ~InList(q, x) => NoRepeats(<<x>> \o q)
  BY ConsFacts
<1> QED
  BY <1>1, Members

\* pop_front.
LEMMA TailSet ==
    ASSUME NEW A, NEW q \in Seq(A), q # <<>>
    PROVE  /\ Head(q) \in A /\ Tail(q) \in Seq(A)
           /\ Head(q) \in ToSet(q)
           /\ ToSet(q) = ToSet(Tail(q)) \cup {Head(q)}
           /\ NoRepeats(q) => NoRepeats(Tail(q)) /\ Head(q) \notin ToSet(Tail(q))
<1>1. /\ Head(q) \in A /\ Tail(q) \in Seq(A)
      /\ \A y : InList(q, y) <=> InList(Tail(q), y) \/ y = Head(q)
      /\ NoRepeats(q) => NoRepeats(Tail(q)) /\ ~InList(Tail(q), Head(q))
  BY TailFacts
<1> QED
  BY <1>1, Members

\* extend.
LEMMA ConcatSet ==
    ASSUME NEW A, NEW q \in Seq(A), NEW r \in Seq(A)
    PROVE  /\ q \o r \in Seq(A)
           /\ ToSet(q \o r) = ToSet(q) \cup ToSet(r)
           /\ (NoRepeats(q) /\ NoRepeats(r) /\ ToSet(q) \cap ToSet(r) = {}) <=> NoRepeats(q \o r)
<1>1. /\ q \o r \in Seq(A)
      /\ \A y : InList(q \o r, y) <=> InList(q, y) \/ InList(r, y)
      /\ (NoRepeats(q) /\ NoRepeats(r) /\ \A y : ~(InList(q, y) /\ InList(r, y)))
            <=> NoRepeats(q \o r)
  BY ConcatFacts
<1> QED
  BY <1>1, Members

\* The empty list.
LEMMA EmptySet == ToSet(<<>>) = {} /\ <<>> \in Seq(Nat) /\ NoRepeats(<<>>) /\ <<>> \in Seq({})
  BY DEF ToSet, NoRepeats

\* A list is a list of its own elements.
LEMMA OwnElements ==
    ASSUME NEW A, NEW r \in Seq(A)
    PROVE  r \in Seq(ToSet(r))
<1>1. Len(r) \in Nat /\ r \in [1 .. Len(r) -> A] /\ DOMAIN r = 1 .. Len(r)
  OBVIOUS
<1> DEFINE B == ToSet(r)
<1>2. \A k \in 1 .. Len(r) : r[k] \in B
  BY <1>1 DEF ToSet
<1> HIDE DEF B
<1>3. r \in [1 .. Len(r) -> B]
  BY <1>1, <1>2
<1>4. r \in Seq(B)
  BY <1>1, <1>3
<1> QED
  BY <1>4 DEF B

----------------------------------------------------------------------------
(***************************************************************************)
(* Total.                                                                  *)
(***************************************************************************)

\* f gives the sums of len over the first places of q.
SumsTo(f, q, len) ==
    /\ f[0] = 0
    /\ \A n \in 1 .. Len(q) : f[n] = f[n - 1] + len[q[n]]

\* There is one such function of the places of q, and Total takes its last
\* value.
LEMMA TotalUnique ==
    ASSUME NEW A, NEW q \in Seq(A), NEW len, NEW f, SumsTo(f, q, len)
    PROVE  Total(q, len) = f[Len(q)]
<1> DEFINE IsSum(g) == g = [n \in 0 .. Len(q) |-> IF n = 0 THEN 0 ELSE g[n - 1] + len[q[n]]]
           h == [n \in 0 .. Len(q) |-> f[n]]
           sum == CHOOSE g : IsSum(g)
<1>1. Len(q) \in Nat
  OBVIOUS
<1>2. IsSum(h)
  <2>1. ASSUME NEW n \in 0 .. Len(q), n # 0
        PROVE  n \in 1 .. Len(q) /\ n - 1 \in 0 .. Len(q)
    BY <1>1, <2>1
  <2>2. \A n \in 0 .. Len(q) : f[n] = IF n = 0 THEN 0 ELSE h[n - 1] + len[q[n]]
    BY <2>1 DEF SumsTo
  <2> QED
    BY <2>2
<1>3. IsSum(sum)
  <2> HIDE DEF h, IsSum
  <2> QED
    BY <1>2
<1>4. Total(q, len) = sum[Len(q)]
  BY DEF Total
<1> HIDE DEF sum, h
<1> DEFINE P == {n \in Nat : n <= Len(q) => sum[n] = f[n]}
<1>5. 0 \in P
  BY <1>1, <1>3 DEF SumsTo
<1>6. ASSUME NEW n \in Nat, n \in P
      PROVE  n + 1 \in P
  <2> SUFFICES ASSUME n + 1 <= Len(q) PROVE sum[n + 1] = f[n + 1]
    OBVIOUS
  <2>1. n + 1 \in 1 .. Len(q) /\ n + 1 \in 0 .. Len(q) /\ n + 1 # 0 /\ (n + 1) - 1 = n /\ n <= Len(q)
    BY <1>1
  <2>2. sum[n + 1] = sum[n] + len[q[n + 1]]
    BY <1>3, <2>1
  <2>3. f[n + 1] = f[n] + len[q[n + 1]]
    BY <2>1 DEF SumsTo
  <2> QED
    BY <1>6, <2>1, <2>2, <2>3
<1> HIDE DEF P
<1>7. Nat \subseteq P
  BY <1>5, <1>6, Induction
<1> QED
  BY <1>1, <1>4, <1>7 DEF P

\* There is one when the lengths are numbers.
LEMMA TotalExists ==
    ASSUME NEW A, NEW q \in Seq(A), NEW len, \A n \in 1 .. Len(q) : len[q[n]] \in Nat
    PROVE  \E f \in [0 .. Len(q) -> Nat] : SumsTo(f, q, len)
<1> DEFINE Sums(f, m) == f[0] = 0 /\ \A n \in 1 .. m : f[n] = f[n - 1] + len[q[n]]
           Has(m) == \E f \in [0 .. m -> Nat] : Sums(f, m)
           P == {m \in Nat : m <= Len(q) => Has(m)}
<1>1. Has(0)
  <2>1. [n \in 0 .. 0 |-> 0] \in [0 .. 0 -> Nat] /\ Sums([n \in 0 .. 0 |-> 0], 0)
    OBVIOUS
  <2> QED
    BY <2>1
<1>2. ASSUME NEW m \in Nat, Has(m), m + 1 <= Len(q)
      PROVE  Has(m + 1)
  <2>1. Len(q) \in Nat /\ m + 1 \in 1 .. Len(q)
    BY <1>2
  <2>2. PICK f \in [0 .. m -> Nat] : Sums(f, m)
    BY <1>2
  <2> DEFINE g == [n \in 0 .. (m + 1) |-> IF n <= m THEN f[n] ELSE f[m] + len[q[m + 1]]]
  <2>3. g \in [0 .. (m + 1) -> Nat]
    BY <2>1, <2>2
  <2>4. ASSUME NEW n \in 1 .. (m + 1)
        PROVE  g[n] = g[n - 1] + len[q[n]]
    <3>1. CASE n = m + 1
      BY <3>1
    <3>2. CASE n # m + 1
      BY <2>2, <3>2
    <3> QED
      BY <3>1, <3>2
  <2>5. Sums(g, m + 1)
    BY <2>2, <2>4
  <2> QED
    BY <2>3, <2>5
<1>3. Len(q) \in Nat
  OBVIOUS
<1> HIDE DEF Has
<1>4. 0 \in P /\ \A m \in Nat : m \in P => m + 1 \in P
  BY <1>1, <1>2, <1>3
<1> HIDE DEF P
<1>5. Nat \subseteq P
  BY <1>4, Induction
<1>6. Has(Len(q))
  BY <1>3, <1>5 DEF P
<1> QED
  BY <1>6 DEF SumsTo, Has

\* The sums of what an LRU list is put through.
LEMMA TotalEmpty == \A len : Total(<<>>, len) = 0
<1> SUFFICES ASSUME NEW len PROVE Total(<<>>, len) = 0
  OBVIOUS
<1>1. <<>> \in Seq(Nat) /\ Len(<<>>) = 0
  OBVIOUS
<1> DEFINE f == [n \in {0} |-> 0]
<1>2. SumsTo(f, <<>>, len)
  BY <1>1 DEF SumsTo
<1> HIDE DEF f
<1>3. Total(<<>>, len) = f[0]
  BY <1>1, <1>2, TotalUnique
<1> QED
  BY <1>2, <1>3 DEF SumsTo

\* A total is a number, and depends on the lengths of the members only.
LEMMA TotalSame ==
    ASSUME NEW A, NEW q \in Seq(A), NEW len, NEW other,
           \A n \in 1 .. Len(q) : len[q[n]] \in Nat /\ other[q[n]] = len[q[n]]
    PROVE  Total(q, len) \in Nat /\ Total(q, other) = Total(q, len)
<1>1. PICK f \in [0 .. Len(q) -> Nat] : SumsTo(f, q, len)
  BY TotalExists
<1>2. SumsTo(f, q, other)
  BY <1>1 DEF SumsTo
<1>3. Total(q, len) = f[Len(q)] /\ Total(q, other) = f[Len(q)]
  BY <1>1, <1>2, TotalUnique
<1> QED
  BY <1>1, <1>3

\* One more at the end.
LEMMA TotalAppend ==
    ASSUME NEW A, NEW q \in Seq(A), NEW x \in A, NEW len,
           \A n \in 1 .. Len(q) : len[q[n]] \in Nat
    PROVE  Total(Append(q, x), len) = Total(q, len) + len[x]
<1> DEFINE r == Append(q, x)
<1>1. PICK f \in [0 .. Len(q) -> Nat] : SumsTo(f, q, len)
  BY TotalExists
<1>2. /\ r \in Seq(A) /\ Len(q) \in Nat /\ Len(r) = Len(q) + 1 /\ r[Len(q) + 1] = x
      /\ \A i \in 1 .. Len(q) : r[i] = q[i]
  OBVIOUS
<1> HIDE DEF r
<1> DEFINE g == [n \in 0 .. Len(r) |-> IF n <= Len(q) THEN f[n] ELSE f[Len(q)] + len[x]]
<1>3. SumsTo(g, r, len)
  <2>1. ASSUME NEW n \in 1 .. Len(r)
        PROVE  g[n] = g[n - 1] + len[r[n]]
    <3>1. CASE n = Len(r)
      BY <1>1, <1>2, <3>1
    <3>2. CASE n # Len(r)
      BY <1>1, <1>2, <3>2, SMTT(20) DEF SumsTo
    <3> QED
      BY <3>1, <3>2
  <2>2. g[0] = 0
    BY <1>1, <1>2 DEF SumsTo
  <2> HIDE DEF g
  <2> QED
    BY <2>1, <2>2 DEF SumsTo
<1>4. g[Len(r)] = f[Len(q)] + len[x]
  BY <1>2
<1> HIDE DEF g
<1>5. Total(r, len) = g[Len(r)] /\ Total(q, len) = f[Len(q)]
  BY <1>1, <1>2, <1>3, TotalUnique
<1> QED
  BY <1>4, <1>5 DEF r

\* One less at the head.
LEMMA TotalTail ==
    ASSUME NEW A, NEW q \in Seq(A), q # <<>>, NEW len,
           \A n \in 1 .. Len(q) : len[q[n]] \in Nat
    PROVE  Total(Tail(q), len) = Total(q, len) - len[Head(q)]
<1> DEFINE r == Tail(q)
<1>1. PICK f \in [0 .. Len(q) -> Nat] : SumsTo(f, q, len)
  BY TotalExists
<1>2. /\ r \in Seq(A) /\ Len(q) \in Nat /\ Len(q) > 0 /\ Len(r) = Len(q) - 1
      /\ \A i \in 1 .. Len(r) : r[i] = q[i + 1]
      /\ Head(q) = q[1]
  OBVIOUS
<1>3. f[1] = len[Head(q)] /\ f[1] \in Nat
  <2>1. 1 \in 1 .. Len(q) /\ f[1] = f[1 - 1] + len[q[1]] /\ f[0] = 0 /\ 1 - 1 = 0 /\ len[q[1]] \in Nat
    BY <1>1, <1>2 DEF SumsTo
  <2> QED
    BY <1>2, <2>1
<1> HIDE DEF r
<1> DEFINE g == [n \in 0 .. Len(r) |-> f[n + 1] - f[1]]
<1>4. SumsTo(g, r, len)
  <2>1. ASSUME NEW n \in 1 .. Len(r)
        PROVE  g[n] = g[n - 1] + len[r[n]]
    <3>1. /\ n \in 0 .. Len(r) /\ n - 1 \in 0 .. Len(r) /\ (n - 1) + 1 = n
          /\ n + 1 \in 1 .. Len(q) /\ n \in 0 .. Len(q) /\ n + 1 \in 0 .. Len(q) /\ (n + 1) - 1 = n
      BY <1>2
    <3>2. f[n + 1] = f[n] + len[q[n + 1]]
      BY <1>1, <3>1 DEF SumsTo
    <3>3. f[n] \in Nat /\ f[n + 1] \in Nat /\ len[q[n + 1]] \in Nat
      BY <1>1, <3>1
    <3>4. g[n] = f[n + 1] - f[1] /\ g[n - 1] = f[n] - f[1] /\ r[n] = q[n + 1]
      BY <1>2, <3>1
    <3> HIDE DEF g
    <3> QED
      BY <1>3, <3>2, <3>3, <3>4, SMTT(20)
  <2>2. g[0] = 0
    BY <1>2, <1>3
  <2> HIDE DEF g
  <2> QED
    BY <2>1, <2>2 DEF SumsTo
<1>5. g[Len(r)] = f[Len(q)] - f[1]
  BY <1>2
<1> HIDE DEF g
<1>6. Total(r, len) = g[Len(r)] /\ Total(q, len) = f[Len(q)]
  BY <1>1, <1>2, <1>4, TotalUnique
<1> QED
  BY <1>3, <1>5, <1>6 DEF r

\* retain leaves the rest counted.
LEMMA TotalWithout ==
    ASSUME NEW A, NEW q \in Seq(A), NEW x, NEW len, \A y \in A : len[y] \in Nat,
           NoRepeats(q), InList(q, x)
    PROVE  Total(Without(q, {x}), len) = Total(q, len) - len[x]
<1> DEFINE kept == CHOOSE g : KeptUpTo(g, q, {x}, Len(q))
<1>1. KeptUpTo(kept, q, {x}, Len(q))
  <2>1. Len(q) \in Nat
    OBVIOUS
  <2>2. \E g : KeptUpTo(g, q, {x}, Len(q))
    BY <2>1, KeptExists
  <2> QED
    BY <2>2
<1>2. Without(q, {x}) = kept[Len(q)]
  BY DEF Without, KeptUpTo
<1> HIDE DEF kept
<1>3. PICK f \in [0 .. Len(q) -> Nat] : SumsTo(f, q, len)
  BY TotalExists
<1>4. PICK p \in 1 .. Len(q) : q[p] = x
  BY DEF InList
<1>5. Len(q) \in Nat /\ x \in A /\ \A n \in 1 .. Len(q) : q[n] = x => n = p
  BY <1>4 DEF NoRepeats
<1> DEFINE Left(n) == IF n < p THEN f[n] ELSE f[n] - len[x]
           Good(n) == kept[n] \in Seq(A) /\ Total(kept[n], len) = Left(n)
           P == {n \in Nat : n <= Len(q) => Good(n)}
<1>6. Good(0)
  <2>1. kept[0] = <<>> /\ <<>> \in Seq(A) /\ f[0] = 0 /\ 0 < p
    BY <1>1, <1>3, <1>4 DEF KeptUpTo, SumsTo
  <2> QED
    BY <2>1, TotalEmpty
<1>7. ASSUME NEW n \in Nat, Good(n), n + 1 <= Len(q)
      PROVE  Good(n + 1)
  <2>1. /\ n + 1 \in 1 .. Len(q) /\ n + 1 \in 0 .. Len(q) /\ n \in 0 .. Len(q)
        /\ n + 1 # 0 /\ (n + 1) - 1 = n
    BY <1>5, <1>7
  <2>2. kept[n + 1] = Keep(kept[n], q[n + 1], {x})
    BY <1>1, <2>1 DEF KeptUpTo
  <2>3. f[n + 1] = f[n] + len[q[n + 1]] /\ f[n] \in Nat /\ f[n + 1] \in Nat
    BY <1>3, <2>1 DEF SumsTo
  <2>4. q[n + 1] \in A /\ len[q[n + 1]] \in Nat
    BY <2>1
  <2>5. CASE n + 1 = p
    <3>1. kept[n + 1] = kept[n]
      BY <1>4, <2>2, <2>5 DEF Keep
    <3> QED
      BY <1>4, <1>7, <2>3, <2>4, <2>5, <3>1
  <2>6. CASE n + 1 # p
    <3>1. kept[n + 1] = Append(kept[n], q[n + 1])
      BY <1>5, <2>1, <2>2, <2>6 DEF Keep
    <3>2. \A i \in 1 .. Len(kept[n]) : len[kept[n][i]] \in Nat
      BY <1>7
    <3>3. Total(kept[n + 1], len) = Total(kept[n], len) + len[q[n + 1]]
      BY <1>7, <2>4, <3>1, <3>2, TotalAppend, ZenonT(40)
    <3>4. n + 1 < p <=> n < p
      BY <1>4, <2>6
    <3>5. kept[n + 1] \in Seq(A)
      BY <1>7, <2>4, <3>1
    <3>6. len[x] \in Nat
      BY <1>5
    <3> QED
      BY <1>7, <2>3, <2>4, <3>3, <3>4, <3>5, <3>6
  <2> QED
    BY <2>5, <2>6
<1> HIDE DEF Good
<1>8. 0 \in P /\ \A n \in Nat : n \in P => n + 1 \in P
  BY <1>5, <1>6, <1>7
<1> HIDE DEF P
<1>9. Nat \subseteq P
  BY <1>8, Induction
<1>10. Good(Len(q))
  BY <1>5, <1>9 DEF P
<1>11. Total(q, len) = f[Len(q)] /\ ~(Len(q) < p)
  BY <1>3, <1>4, TotalUnique
<1> QED
  BY <1>2, <1>10, <1>11 DEF Good
=============================================================================
