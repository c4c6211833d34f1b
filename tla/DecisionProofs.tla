--------------------------- MODULE DecisionProofs ---------------------------
(***************************************************************************)
(* Two theorems about /v1/decisions, whatever the questions, the limits    *)
(* and the number of requests: rows are scored in arrival order            *)
(* (InArrivalOrder), and the mask tokens of a question's sequence are its  *)
(* option markers and nothing else (MarkersExact).                         *)
(***************************************************************************)
EXTENDS DecisionPath, ListProofs

\* A list, whatever it is a list of.
IsList(s) == s \in Seq(ToSet(s))

\* A pending request has one slot per row.
Shaped(p) ==
    /\ p = [id |-> p.id, rows |-> p.rows, scores |-> p.scores]
    /\ IsList(p.rows) /\ IsList(p.scores) /\ Len(p.scores) = Len(p.rows)

\* The lists of the engine are lists; decision_rows and the slots admit
\* makes for them depend on it.
ListsHold ==
    /\ IsList(jobs) /\ \A k \in DOMAIN jobs : IsList(jobs[k].rows)
    /\ IsList(queue) /\ \A q \in DOMAIN queue : Shaped(queue[q])

ArrivalInv == ListsHold /\ InArrivalOrder

-----------------------------------------------------------------------------
(* Lists.                                                                  *)

\* A function on 1..n is a list, and what makes TLC see that it is one
\* changes nothing.
LEMMA Listed ==
    ASSUME NEW n \in Nat, NEW f, f = [i \in 1 .. n |-> f[i]]
    PROVE  IsList(f) /\ f \o <<>> = f /\ Len(f) = n /\ DOMAIN f = 1 .. n
<1> DEFINE A == {f[i] : i \in 1 .. n}
<1>1. f \in [1 .. n -> A]
  OBVIOUS
<1>2. f \in Seq(A) /\ Len(f) = n
  BY <1>1
<1> HIDE DEF A
<1>3. f \o <<>> = f
  BY <1>2
<1>4. f \in Seq(ToSet(f))
  BY <1>2, OwnElements
<1> QED
  BY <1>1, <1>2, <1>3, <1>4 DEF IsList

\* A list is a function on 1..Len.
LEMMA Places ==
    ASSUME NEW s, IsList(s)
    PROVE  Len(s) \in Nat /\ DOMAIN s = 1 .. Len(s) /\ s = [i \in 1 .. Len(s) |-> s[i]]
<1> DEFINE A == ToSet(s)
<1>1. s \in Seq(A)
  BY DEF IsList
<1> HIDE DEF A
<1> QED
  BY <1>1

\* One more at the end.
LEMMA AppendListed ==
    ASSUME NEW s, IsList(s), NEW x
    PROVE  /\ IsList(Append(s, x)) /\ Len(Append(s, x)) = Len(s) + 1
           /\ \A i \in 1 .. Len(s) : Append(s, x)[i] = s[i]
           /\ Append(s, x)[Len(s) + 1] = x
<1> DEFINE A == ToSet(s) \cup {x}
<1>1. s \in Seq(A)
  <2>1. s \in Seq(ToSet(s))
    BY DEF IsList
  <2> QED
    BY <2>1
<1>2. x \in A
  OBVIOUS
<1> HIDE DEF A
<1>3. Append(s, x) \in Seq(A)
  BY <1>1, <1>2
<1>4. Append(s, x) \in Seq(ToSet(Append(s, x)))
  BY <1>3, OwnElements
<1> QED
  BY <1>1, <1>2, <1>4 DEF IsList

\* All but the first.
LEMMA TailListed ==
    ASSUME NEW s, IsList(s), s # <<>>
    PROVE  /\ IsList(Tail(s)) /\ Len(Tail(s)) = Len(s) - 1
           /\ \A i \in 1 .. Len(Tail(s)) : i + 1 \in 1 .. Len(s) /\ Tail(s)[i] = s[i + 1]
           /\ Head(s) = s[1] /\ 1 \in 1 .. Len(s)
<1> DEFINE A == ToSet(s)
<1>1. s \in Seq(A)
  BY DEF IsList
<1> HIDE DEF A
<1>2. Tail(s) \in Seq(A)
  BY <1>1
<1>3. Tail(s) \in Seq(ToSet(Tail(s)))
  BY <1>2, OwnElements
<1> QED
  BY <1>1, <1>2, <1>3 DEF IsList

-----------------------------------------------------------------------------
(* The backlog.                                                            *)

\* A row of the queue that has no scores yet.
Open(at) ==
    /\ at = <<at[1], at[2]>>
    /\ at[1] \in DOMAIN queue /\ at[2] \in DOMAIN queue[at[1]].rows
    /\ queue[at[1]].scores[at[2]] = Unanswered

\* An older request, or an earlier row of the same one.
Before(x, y) == x[1] < y[1] \/ (x[1] = y[1] /\ x[2] < y[2])

\* b is the open rows of the first n requests, in order.
OpenRows(b, n) ==
    /\ IsList(b)
    /\ \A k \in 1 .. Len(b) : Open(b[k]) /\ b[k][1] <= n
    /\ \A at : Open(at) /\ at[1] <= n => \E k \in 1 .. Len(b) : b[k] = at
    /\ \A k, l \in 1 .. Len(b) : k < l => Before(b[k], b[l])

\* A request's own part of the backlog.
LEMMA RowsOfFacts ==
    ASSUME ListsHold, NEW q \in DOMAIN queue
    PROVE  /\ IsList(RowsOf(q))
           /\ \A k \in 1 .. Len(RowsOf(q)) : Open(RowsOf(q)[k]) /\ RowsOf(q)[k][1] = q
           /\ \A at : Open(at) /\ at[1] = q => \E k \in 1 .. Len(RowsOf(q)) : RowsOf(q)[k] = at
           /\ \A k, l \in 1 .. Len(RowsOf(q)) : k < l => Before(RowsOf(q)[k], RowsOf(q)[l])
<1> DEFINE rows == queue[q].rows
           all == [i \in DOMAIN rows |-> i]
           done == {i \in DOMAIN rows : queue[q].scores[i] # Unanswered}
           u == Without(all, done)
           f == [i \in DOMAIN u |-> <<q, u[i]>>]
<1>1. Len(rows) \in Nat /\ DOMAIN rows = 1 .. Len(rows)
  BY Places DEF ListsHold, Shaped
<1>2. /\ all \in Seq(1 .. Len(rows)) /\ Len(all) = Len(rows)
      /\ \A i \in 1 .. Len(rows) : all[i] = i
  BY <1>1
<1>3. \A i \in DOMAIN rows : i \in done <=> queue[q].scores[i] # Unanswered
  OBVIOUS
<1>4. RowsOf(q) = f \o <<>>
  BY DEF RowsOf, unanswered
<1> HIDE DEF rows, all, done
<1>5. /\ u \in Seq(1 .. Len(rows))
      /\ \A x : InList(u, x) <=> InList(all, x) /\ x \notin done
      /\ \A i, j \in 1 .. Len(u) : i < j =>
            \E k, l \in 1 .. Len(all) : k < l /\ u[i] = all[k] /\ u[j] = all[l]
  BY <1>2, WithoutFacts
<1> HIDE DEF u
<1>6. Len(u) \in Nat /\ DOMAIN u = 1 .. Len(u) /\ \A i \in 1 .. Len(u) : u[i] \in 1 .. Len(rows)
  BY <1>5
<1>7. f = [i \in 1 .. Len(u) |-> f[i]] /\ \A i \in 1 .. Len(u) : f[i] = <<q, u[i]>>
  BY <1>6
<1> HIDE DEF f
<1>8. IsList(f) /\ RowsOf(q) = f /\ Len(f) = Len(u)
  BY <1>4, <1>6, <1>7, Listed
<1>9. ASSUME NEW i \in 1 .. Len(u), NEW j \in 1 .. Len(u), i < j
      PROVE  u[i] < u[j]
  <2>1. PICK k, l \in 1 .. Len(all) : k < l /\ u[i] = all[k] /\ u[j] = all[l]
    BY <1>5, <1>9
  <2>2. all[k] = k /\ all[l] = l
    BY <1>2
  <2> QED
    BY <2>1, <2>2
<1>10. \A i \in 1 .. Len(u) : u[i] \notin done
  BY <1>5 DEF InList
<1>11. \A i \in 1 .. Len(rows) : i \notin done => \E k \in 1 .. Len(u) : u[k] = i
  <2> TAKE i \in 1 .. Len(rows)
  <2>1. InList(all, i)
    BY <1>2 DEF InList
  <2> QED
    BY <1>5, <2>1 DEF InList
<1>12. \A i \in 1 .. Len(u) : Open(f[i]) /\ f[i][1] = q /\ f[i][2] = u[i]
  BY <1>1, <1>3, <1>6, <1>7, <1>10 DEF Open, rows
<1>13. ASSUME NEW at, Open(at), at[1] = q
       PROVE  \E k \in 1 .. Len(u) : f[k] = at
  <2>1. at = <<q, at[2]>> /\ at[2] \in 1 .. Len(rows) /\ at[2] \notin done
    BY <1>1, <1>3, <1>13 DEF Open, rows
  <2>2. PICK k \in 1 .. Len(u) : u[k] = at[2]
    BY <1>11, <2>1
  <2>3. f[k] = <<q, at[2]>>
    BY <1>7, <2>2
  <2> QED
    BY <2>1, <2>3
<1>14. \A k, l \in 1 .. Len(u) : k < l => Before(f[k], f[l])
  BY <1>6, <1>9, <1>12 DEF Before
<1> QED
  BY <1>8, <1>12, <1>13, <1>14

\* f[n] is the backlog of the first n requests.
UpTo(f, m) ==
    f = [q \in 0 .. m |-> IF q = 0 THEN <<>> ELSE AddRows(f[q - 1], q)]

\* The backlog of any number of requests exists.
LEMMA UpToExists ==
    ASSUME NEW m \in Nat
    PROVE  \E f : UpTo(f, m)
<1> DEFINE H == {n \in Nat : \E f : UpTo(f, n)}
<1>1. 0 \in H
  <2>1. UpTo([q \in 0 .. 0 |-> <<>>], 0)
    BY DEF UpTo
  <2> QED
    BY <2>1
<1>2. ASSUME NEW n \in Nat, n \in H
      PROVE  n + 1 \in H
  <2>1. PICK f : UpTo(f, n)
    BY <1>2
  <2> DEFINE g == [q \in 0 .. (n + 1) |-> IF q <= n THEN f[q] ELSE AddRows(f[q - 1], q)]
  <2>2. f[0] = <<>> /\ \A q \in 1 .. n : f[q] = AddRows(f[q - 1], q)
    BY <2>1 DEF UpTo
  <2>3. \A q \in 0 .. (n + 1) : g[q] = IF q = 0 THEN <<>> ELSE AddRows(g[q - 1], q)
    <3> TAKE q \in 0 .. (n + 1)
    <3>1. CASE q = 0
      BY <2>2, <3>1
    <3>2. CASE q \in 1 .. n
      <4>1. g[q] = f[q] /\ g[q - 1] = f[q - 1]
        BY <3>2
      <4> QED
        BY <2>2, <3>2, <4>1
    <3>3. CASE q = n + 1
      <4>1. g[q] = AddRows(f[q - 1], q) /\ g[q - 1] = f[q - 1] /\ q # 0
        BY <3>3
      <4> QED
        BY <4>1
    <3> QED
      BY <3>1, <3>2, <3>3
  <2>4. UpTo(g, n + 1)
    <3>1. g = [q \in 0 .. (n + 1) |-> g[q]]
      OBVIOUS
    <3> HIDE DEF g
    <3> QED
      BY <2>3, <3>1 DEF UpTo
  <2> QED
    BY <2>4
<1> HIDE DEF H
<1>3. Nat \subseteq H
  BY <1>1, <1>2, Induction
<1> QED
  BY <1>3 DEF H

\* One request more.
LEMMA OneMoreRequest ==
    ASSUME ListsHold, NEW n \in Nat, n + 1 \in DOMAIN queue, NEW b, OpenRows(b, n)
    PROVE  OpenRows(AddRows(b, n + 1), n + 1)
<1> DEFINE r == RowsOf(n + 1)
           A == ToSet(b) \cup ToSet(r)
           t == b \o r
<1>1. /\ IsList(r)
      /\ \A k \in 1 .. Len(r) : Open(r[k]) /\ r[k][1] = n + 1
      /\ \A at : Open(at) /\ at[1] = n + 1 => \E k \in 1 .. Len(r) : r[k] = at
      /\ \A k, l \in 1 .. Len(r) : k < l => Before(r[k], r[l])
  BY RowsOfFacts
<1> HIDE DEF r
<1>2. /\ IsList(b)
      /\ \A k \in 1 .. Len(b) : Open(b[k]) /\ b[k][1] <= n
      /\ \A at : Open(at) /\ at[1] <= n => \E k \in 1 .. Len(b) : b[k] = at
      /\ \A k, l \in 1 .. Len(b) : k < l => Before(b[k], b[l])
  BY DEF OpenRows
<1>3. b \in Seq(A) /\ r \in Seq(A)
  <2>1. b \in Seq(ToSet(b)) /\ r \in Seq(ToSet(r))
    BY <1>1, <1>2 DEF IsList
  <2> QED
    BY <2>1
<1> HIDE DEF A
<1>4. /\ t \in Seq(A) /\ Len(b) \in Nat /\ Len(r) \in Nat /\ Len(t) = Len(b) + Len(r)
      /\ \A i \in 1 .. Len(t) : t[i] = IF i <= Len(b) THEN b[i] ELSE r[i - Len(b)]
  BY <1>3
<1> HIDE DEF t
<1>5. IsList(t)
  BY <1>4, OwnElements DEF IsList
<1>6. /\ \A i \in 1 .. Len(b) : i \in 1 .. Len(t) /\ t[i] = b[i]
      /\ \A i \in 1 .. Len(r) : Len(b) + i \in 1 .. Len(t) /\ t[Len(b) + i] = r[i]
  BY <1>4, SMTT(20)
<1>7. \A i \in 1 .. Len(t) : i \in 1 .. Len(b) \/ (i > Len(b) /\ i - Len(b) \in 1 .. Len(r) /\ t[i] = r[i - Len(b)])
  BY <1>4
<1>8. DOMAIN queue = 1 .. Len(queue) /\ Len(queue) \in Nat
  BY Places DEF ListsHold
<1>9. \A k \in 1 .. Len(b) : b[k][1] \in Nat
  BY <1>2, <1>8 DEF Open
<1>10. \A k \in 1 .. Len(t) : Open(t[k]) /\ t[k][1] <= n + 1
  <2> TAKE k \in 1 .. Len(t)
  <2>1. CASE k \in 1 .. Len(b)
    BY <1>2, <1>6, <1>9, <2>1
  <2>2. CASE k - Len(b) \in 1 .. Len(r) /\ t[k] = r[k - Len(b)]
    BY <1>1, <2>2
  <2> QED
    BY <1>7, <2>1, <2>2
<1>11. ASSUME NEW at, Open(at), at[1] <= n + 1
       PROVE  \E k \in 1 .. Len(t) : t[k] = at
  <2>1. at[1] \in Nat
    BY <1>8, <1>11 DEF Open
  <2>2. CASE at[1] <= n
    <3>1. PICK k \in 1 .. Len(b) : b[k] = at
      BY <1>2, <1>11, <2>2
    <3> QED
      BY <1>6, <3>1
  <2>3. CASE at[1] = n + 1
    <3>1. PICK k \in 1 .. Len(r) : r[k] = at
      BY <1>1, <1>11, <2>3
    <3> QED
      BY <1>6, <3>1
  <2> QED
    BY <1>11, <2>1, <2>2, <2>3
<1>12. ASSUME NEW k \in 1 .. Len(t), NEW l \in 1 .. Len(t), k < l
       PROVE  Before(t[k], t[l])
  <2>1. CASE l \in 1 .. Len(b)
    <3>1. k \in 1 .. Len(b)
      BY <1>4, <1>12, <2>1
    <3>2. t[k] = b[k] /\ t[l] = b[l]
      BY <1>6, <2>1, <3>1
    <3>3. Before(b[k], b[l])
      BY <1>2, <1>12, <2>1, <3>1
    <3> QED
      BY <3>2, <3>3
  <2>2. CASE k \in 1 .. Len(b) /\ l - Len(b) \in 1 .. Len(r) /\ t[l] = r[l - Len(b)]
    <3>1. t[k] = b[k] /\ b[k][1] <= n /\ b[k][1] \in Nat /\ t[l][1] = n + 1
      BY <1>1, <1>2, <1>6, <1>9, <2>2
    <3> QED
      BY <3>1 DEF Before
  <2>3. CASE /\ k - Len(b) \in 1 .. Len(r) /\ t[k] = r[k - Len(b)]
             /\ l - Len(b) \in 1 .. Len(r) /\ t[l] = r[l - Len(b)]
    <3>1. k - Len(b) < l - Len(b)
      BY <1>4, <1>12
    <3>2. Before(r[k - Len(b)], r[l - Len(b)])
      BY <1>1, <2>3, <3>1
    <3> QED
      BY <2>3, <3>2
  <2> QED
    BY <1>4, <1>7, <1>12, <2>1, <2>2, <2>3
<1>13. OpenRows(t, n + 1)
  BY <1>5, <1>10, <1>11, <1>12 DEF OpenRows
<1> QED
  BY <1>13 DEF t, r, AddRows

\* The backlog is every open row, the oldest request's first.
LEMMA BacklogFacts ==
    ASSUME ListsHold
    PROVE  OpenRows(Backlog, Len(queue))
<1> DEFINE upto == CHOOSE f : UpTo(f, Len(queue))
<1>1. Len(queue) \in Nat /\ DOMAIN queue = 1 .. Len(queue)
  BY Places DEF ListsHold
<1>2. UpTo(upto, Len(queue))
  <2>1. \E f : UpTo(f, Len(queue))
    BY <1>1, UpToExists
  <2> QED
    BY <2>1
<1>3. Backlog = upto[Len(queue)]
  BY DEF Backlog, UpTo
<1> HIDE DEF upto
<1>4. upto[0] = <<>> /\ \A q \in 1 .. Len(queue) : upto[q] = AddRows(upto[q - 1], q)
  BY <1>1, <1>2 DEF UpTo
<1> DEFINE Good(n) == OpenRows(upto[n], n)
           H == {n \in Nat : n <= Len(queue) => Good(n)}
<1>5. Good(0)
  <2>1. IsList(<<>>) /\ Len(<<>>) = 0
    BY EmptySet DEF IsList
  <2>2. \A at : Open(at) => at[1] \in Nat /\ at[1] >= 1
    BY <1>1 DEF Open
  <2> QED
    BY <1>4, <2>1, <2>2 DEF OpenRows
<1>6. ASSUME NEW n \in Nat, Good(n), n + 1 <= Len(queue)
      PROVE  Good(n + 1)
  <2>1. n + 1 \in DOMAIN queue /\ upto[n + 1] = AddRows(upto[n], n + 1)
    BY <1>1, <1>4, <1>6
  <2> QED
    BY <1>6, <2>1, OneMoreRequest
<1> HIDE DEF Good
<1>7. 0 \in H /\ \A n \in Nat : n \in H => n + 1 \in H
  BY <1>1, <1>5, <1>6
<1> HIDE DEF H
<1>8. Nat \subseteq H
  BY <1>7, Induction
<1>9. Good(Len(queue))
  BY <1>1, <1>8 DEF H
<1> QED
  BY <1>3, <1>9 DEF Good

-----------------------------------------------------------------------------
(* A pass.                                                                 *)

\* at is in the list.
Picked(picked, at) == \E i \in DOMAIN picked : picked[i] = at

\* A pass takes a prefix of the backlog.
LEMMA SelectIsPrefix ==
    ASSUME ListsHold
    PROVE  \E m \in 0 .. Len(Backlog) : select = SubSeq(Backlog, 1, m)
<1> DEFINE fits == {n \in 0 .. Len(Backlog) : \A k \in 1 .. n : Fits(SubSeq(Backlog, 1, k))}
           gap == {Len(Backlog) - n : n \in fits}
<1>1. Len(Backlog) \in Nat
  BY BacklogFacts, Places DEF OpenRows
<1>2. fits \subseteq 0 .. Len(Backlog) /\ 0 \in fits
  BY <1>1
<1>3. select = SubSeq(Backlog, 1, Max(fits))
  BY DEF select
<1> HIDE DEF fits
<1>4. gap \in SUBSET Nat /\ gap # {}
  BY <1>1, <1>2
<1>5. \A n \in fits : Len(Backlog) - n \in gap
  OBVIOUS
<1>6. \A d \in gap : \E n \in fits : d = Len(Backlog) - n
  OBVIOUS
<1> HIDE DEF gap
<1>7. PICK d \in gap : \A e \in gap : d <= e
  BY <1>4, LeastNat
<1>8. PICK n \in fits : d = Len(Backlog) - n
  BY <1>6
<1>9. \A k \in fits : n >= k
  BY <1>1, <1>2, <1>5, <1>7, <1>8
<1>10. Max(fits) \in fits
  BY <1>9 DEF Max
<1> QED
  BY <1>2, <1>3, <1>10

\* What a pass takes has no scores yet, and nothing that waits is older.
LEMMA SelectOldest ==
    ASSUME ListsHold
    PROVE  /\ \A at : Picked(select, at) => Open(at)
           /\ \A x, y : Open(x) /\ Picked(select, y) /\ Before(x, y) => Picked(select, x)
<1> DEFINE b == Backlog
           s == select
<1>1. PICK m \in 0 .. Len(b) : s = SubSeq(b, 1, m)
  BY SelectIsPrefix
<1>2. OpenRows(b, Len(queue))
  BY BacklogFacts
<1>3. DOMAIN queue = 1 .. Len(queue) /\ Len(queue) \in Nat
  BY Places DEF ListsHold
<1>4. /\ \A k \in 1 .. Len(b) : Open(b[k])
      /\ \A at : Open(at) => \E k \in 1 .. Len(b) : b[k] = at
      /\ \A k, l \in 1 .. Len(b) : k < l => Before(b[k], b[l])
  <2>1. \A at : Open(at) => at[1] <= Len(queue)
    BY <1>3 DEF Open
  <2> QED
    BY <1>2, <2>1 DEF OpenRows
<1>5. b \in Seq(ToSet(b))
  BY <1>2 DEF OpenRows, IsList
<1> HIDE DEF b, s
<1> DEFINE A == ToSet(b)
<1>6. b \in Seq(A) /\ Len(b) \in Nat
  BY <1>5
<1> HIDE DEF A
<1>7. Len(s) = m /\ DOMAIN s = 1 .. m /\ \A i \in 1 .. m : s[i] = b[i] /\ i \in 1 .. Len(b)
  BY <1>1, <1>6
<1>8. ASSUME NEW at, Picked(s, at)
      PROVE  Open(at)
  BY <1>4, <1>7, <1>8 DEF Picked
<1>9. ASSUME NEW x, NEW y, Open(x), Picked(s, y), Before(x, y)
      PROVE  Picked(s, x)
  <2>1. PICK k \in 1 .. m : s[k] = y
    BY <1>7, <1>9 DEF Picked
  <2>2. b[k] = y /\ k \in 1 .. Len(b)
    BY <1>7, <2>1
  <2>3. PICK l \in 1 .. Len(b) : b[l] = x
    BY <1>4, <1>9
  <2>4. ~Before(y, x)
    <3>1. Open(y)
      BY <1>4, <2>2
    <3>2. /\ x[1] \in Nat /\ y[1] \in Nat
          /\ x[1] \in DOMAIN queue /\ y[1] \in DOMAIN queue
      BY <1>3, <1>9, <3>1 DEF Open
    <3>3. x[2] \in Nat /\ y[2] \in Nat
      <4>1. \A q \in DOMAIN queue : DOMAIN queue[q].rows = 1 .. Len(queue[q].rows) /\ Len(queue[q].rows) \in Nat
        BY Places DEF ListsHold, Shaped
      <4> QED
        BY <1>9, <3>1, <4>1 DEF Open
    <3> QED
      BY <1>9, <3>2, <3>3 DEF Before
  <2>5. l \in 1 .. m
    <3>1. ~(k < l)
      BY <1>4, <2>2, <2>3, <2>4
    <3> QED
      BY <1>6, <2>1, <2>3, <3>1
  <2> QED
    BY <1>7, <2>3, <2>5 DEF Picked
<1> QED
  BY <1>8, <1>9 DEF s

\* What a pass answers is filled in, and nothing else changes.
LEMMA ScoredFacts ==
    ASSUME ListsHold, NEW picked, NEW answers
    PROVE  LET scored == Scored(picked, answers) IN
           /\ IsList(scored) /\ Len(scored) = Len(queue)
           /\ \A q \in DOMAIN queue :
                /\ Shaped(scored[q]) /\ scored[q].rows = queue[q].rows /\ scored[q].id = queue[q].id
                /\ \A i \in DOMAIN queue[q].rows :
                      scored[q].scores[i] = Unanswered
                         <=> queue[q].scores[i] = Unanswered /\ ~Picked(picked, <<q, i>>)
<1> DEFINE slots(q) == [r \in DOMAIN queue[q].rows |->
             IF \E i \in DOMAIN picked : picked[i] = <<q, r>>
             THEN Some(answers[CHOOSE i \in DOMAIN picked : picked[i] = <<q, r>>])
             ELSE queue[q].scores[r]]
           f == [q \in DOMAIN queue |-> [queue[q] EXCEPT !.scores = slots(q) \o <<>>]]
           scored == Scored(picked, answers)
<1>1. Len(queue) \in Nat /\ DOMAIN queue = 1 .. Len(queue)
  BY Places DEF ListsHold
<1>2. scored = f \o <<>>
  BY DEF Scored
<1>3. f = [q \in 1 .. Len(queue) |-> f[q]]
  BY <1>1
<1>4. \A q \in DOMAIN queue : f[q] = [queue[q] EXCEPT !.scores = slots(q) \o <<>>]
  OBVIOUS
<1> HIDE DEF f, scored
<1>5. IsList(scored) /\ Len(scored) = Len(queue) /\ scored = f
  BY <1>1, <1>2, <1>3, Listed
<1>6. ASSUME NEW q \in DOMAIN queue
      PROVE  /\ Shaped(scored[q]) /\ scored[q].rows = queue[q].rows /\ scored[q].id = queue[q].id
             /\ \A i \in DOMAIN queue[q].rows :
                   scored[q].scores[i] = Unanswered
                      <=> queue[q].scores[i] = Unanswered /\ ~Picked(picked, <<q, i>>)
  <2> DEFINE rows == queue[q].rows
             g == slots(q)
  <2>1. /\ queue[q] = [id |-> queue[q].id, rows |-> queue[q].rows, scores |-> queue[q].scores]
        /\ IsList(rows) /\ Len(queue[q].scores) = Len(rows)
    BY DEF ListsHold, Shaped
  <2>2. Len(rows) \in Nat /\ DOMAIN rows = 1 .. Len(rows)
    BY <2>1, Places
  <2>3. g = [i \in 1 .. Len(rows) |-> g[i]]
    BY <2>2
  <2>4. \A i \in DOMAIN rows : g[i] = Unanswered <=> queue[q].scores[i] = Unanswered /\ ~Picked(picked, <<q, i>>)
    BY DEF Picked, Some, Unanswered
  <2>5. scored[q] = [queue[q] EXCEPT !.scores = g \o <<>>]
    BY <1>4, <1>5
  <2> HIDE DEF g, rows
  <2>6. IsList(g) /\ g \o <<>> = g /\ Len(g) = Len(rows)
    BY <2>2, <2>3, Listed
  <2>7. scored[q] = [id |-> queue[q].id, rows |-> rows, scores |-> g]
    <3>1. scored[q] = [queue[q] EXCEPT !.scores = g]
      BY <2>5, <2>6
    <3> QED
      BY ONLY <2>1, <3>1 DEF rows
  <2>8. scored[q].rows = rows /\ scored[q].scores = g /\ scored[q].id = queue[q].id
    BY <2>7
  <2>9. Shaped(scored[q])
    BY <2>1, <2>6, <2>7, <2>8 DEF Shaped
  <2> QED
    BY <2>4, <2>8, <2>9 DEF rows
<1> QED
  BY <1>5, <1>6 DEF scored

\* After a pass a row is answered only with everything before it, so what
\* is left in the queue is in order.
LEMMA StepArrival == ASSUME ArrivalInv, step PROVE ArrivalInv'
<1> DEFINE picked == select
           answers == CandleEncoder_forward([i \in DOMAIN picked |->
                            queue[picked[i][1]].rows[picked[i][2]]] \o <<>>, flash)
           scored == Scored(picked, answers)
           full == {p \in ToSet(scored) : complete(p)}
           left == Without(scored, full)
<1>1. queue' = left /\ jobs' = jobs
  BY DEF step
<1>2. /\ IsList(scored) /\ Len(scored) = Len(queue)
      /\ \A q \in DOMAIN queue :
            /\ Shaped(scored[q]) /\ scored[q].rows = queue[q].rows /\ scored[q].id = queue[q].id
            /\ \A i \in DOMAIN queue[q].rows :
                  scored[q].scores[i] = Unanswered
                     <=> queue[q].scores[i] = Unanswered /\ ~Picked(picked, <<q, i>>)
  BY ScoredFacts DEF ArrivalInv
<1>3. /\ \A at : Picked(picked, at) => Open(at)
      /\ \A x, y : Open(x) /\ Picked(picked, y) /\ Before(x, y) => Picked(picked, x)
  BY SelectOldest DEF ArrivalInv
<1> HIDE DEF picked, scored
<1>4. DOMAIN queue = 1 .. Len(queue) /\ Len(queue) \in Nat /\ DOMAIN scored = 1 .. Len(queue)
  BY <1>2, Places DEF ArrivalInv, ListsHold
<1>5. \A q \in DOMAIN queue : /\ Len(queue[q].rows) \in Nat
                              /\ DOMAIN queue[q].rows = 1 .. Len(queue[q].rows)
                              /\ DOMAIN scored[q].scores = 1 .. Len(queue[q].rows)
  BY <1>2, Places, ZenonT(40) DEF ArrivalInv, ListsHold, Shaped
<1>6. ASSUME NEW q \in DOMAIN queue, NEW i \in DOMAIN queue[q].rows, scored[q].scores[i] # Unanswered,
             NEW p \in DOMAIN queue, NEW j \in DOMAIN queue[p].rows, Before(<<p, j>>, <<q, i>>)
      PROVE  scored[p].scores[j] # Unanswered
  <2>1. CASE Picked(picked, <<q, i>>)
    <3>1. CASE queue[p].scores[j] = Unanswered
      <4>1. Open(<<p, j>>)
        BY <3>1 DEF Open
      <4>2. Picked(picked, <<p, j>>)
        BY <1>3, <1>6, <2>1, <4>1
      <4> QED
        BY <1>2, <4>2
    <3> QED
      BY <1>2, <3>1
  <2>2. CASE ~Picked(picked, <<q, i>>)
    <3>1. queue[q].scores[i] # Unanswered
      BY <1>2, <1>6, <2>2
    <3>2. q = 1 /\ \A k \in 1 .. i : queue[q].scores[k] # Unanswered
      BY <3>1 DEF ArrivalInv, InArrivalOrder
    <3>3. p = q /\ j < i
      BY <1>4, <1>6, <3>2 DEF Before
    <3>4. j \in 1 .. i
      BY <1>5, <3>3
    <3> QED
      BY <1>2, <3>2, <3>3, <3>4
  <2> QED
    BY <2>1, <2>2
<1> DEFINE A == ToSet(scored)
<1>7. scored \in Seq(A)
  BY <1>2 DEF IsList
<1>8. \A q \in DOMAIN queue : complete(scored[q]) => scored[q] \in full
  BY <1>4 DEF ToSet
<1> HIDE DEF A, full
<1>9. /\ left \in Seq(A)
      /\ \A x : InList(left, x) <=> InList(scored, x) /\ x \notin full
      /\ \A i, j \in 1 .. Len(left) : i < j =>
            \E k, l \in 1 .. Len(scored) : k < l /\ left[i] = scored[k] /\ left[j] = scored[l]
  BY <1>7, WithoutFacts
<1> HIDE DEF left
<1>10. IsList(left) /\ Len(left) \in Nat /\ DOMAIN left = 1 .. Len(left)
  BY <1>9, OwnElements DEF IsList
<1>11. \A k \in 1 .. Len(left) : left[k] \notin full /\ \E q \in DOMAIN queue : left[k] = scored[q]
  BY <1>2, <1>4, <1>9 DEF InList
<1>12. ListsHold'
  <2>1. \A k \in DOMAIN left : Shaped(left[k])
    BY <1>2, <1>10, <1>11
  <2>2. \A k \in DOMAIN queue' : Shaped(queue'[k])
    BY <1>1, <2>1
  <2> QED
    BY <1>1, <1>10, <2>2 DEF ArrivalInv, ListsHold, Shaped, IsList
<1>13. ASSUME NEW k \in DOMAIN left, NEW i \in DOMAIN left[k].rows, left[k].scores[i] # Unanswered
       PROVE  k = 1 /\ \A j \in 1 .. i : left[k].scores[j] # Unanswered
  <2>1. PICK q \in DOMAIN queue : left[k] = scored[q]
    BY <1>10, <1>11
  <2>2. i \in DOMAIN queue[q].rows /\ i \in 1 .. Len(queue[q].rows) /\ scored[q].scores[i] # Unanswered
    BY <1>2, <1>5, <1>13, <2>1
  <2>3. \A j \in 1 .. i : left[k].scores[j] # Unanswered
    <3> TAKE j \in 1 .. i
    <3>1. CASE j = i
      BY <1>13, <3>1
    <3>2. CASE j < i
      <4>1. j \in DOMAIN queue[q].rows /\ Before(<<q, j>>, <<q, i>>)
        BY <1>5, <2>2, <3>2 DEF Before
      <4> QED
        BY <1>6, <2>1, <2>2, <4>1
    <3> QED
      BY <1>5, <2>2, <3>1, <3>2
  <2>4. k = 1
    <3> SUFFICES ASSUME k # 1 PROVE FALSE
      OBVIOUS
    <3>1. 1 \in 1 .. Len(left) /\ k \in 1 .. Len(left) /\ 1 < k
      BY <1>10, <1>13
    <3>2. PICK a, c \in 1 .. Len(scored) : a < c /\ left[1] = scored[a] /\ left[k] = scored[c]
      BY <1>9, <3>1
    <3>3. a \in DOMAIN queue /\ c \in DOMAIN queue
      BY <1>2, <1>4
    <3>4. i \in DOMAIN queue[c].rows /\ scored[c].scores[i] # Unanswered
      BY <1>2, <1>13, <3>2, <3>3
    <3>5. ASSUME NEW j \in DOMAIN scored[a].scores
          PROVE  scored[a].scores[j] # Unanswered
      <4>1. j \in DOMAIN queue[a].rows /\ Before(<<a, j>>, <<c, i>>)
        BY <1>5, <3>2, <3>3, <3>5 DEF Before
      <4> QED
        BY <1>6, <3>3, <3>4, <4>1
    <3>6. scored[a] \in full
      BY <1>8, <3>3, <3>5 DEF complete
    <3> QED
      BY <1>11, <3>1, <3>2, <3>6
  <2> QED
    BY <2>3, <2>4
<1>14. InArrivalOrder'
  BY <1>1, <1>13 DEF InArrivalOrder, Unanswered
<1> QED
  BY <1>12, <1>14 DEF ArrivalInv

-----------------------------------------------------------------------------
(* The other steps.                                                        *)

\* A published job's rows are a list, one for each question.
LEMMA JobListed ==
    ASSUME NEW r, NEW a \in Asks
    PROVE  IsList(JobOf(r, a, Built(a)).rows)
<1> DEFINE f == [i \in DOMAIN a.questions |->
                   build(a.questions[i].q, option_texts(a.questions[i].q), state_text(a))]
           b == Built(a)
           g == [i \in DOMAIN b |-> [len |-> Len(b[i].tokens), markers |-> b[i].markers,
                                      qtype |-> index(a.questions[i].q.qtype)]]
<1>1. Len(a.questions) \in Nat /\ DOMAIN a.questions = 1 .. Len(a.questions)
  BY DecisionAssumption, Places DEF IsList
<1>2. f = [i \in 1 .. Len(a.questions) |-> f[i]] /\ b = f \o <<>>
  BY <1>1 DEF Built
<1> HIDE DEF f
<1>3. b = f /\ DOMAIN b = 1 .. Len(a.questions)
  BY <1>1, <1>2, Listed
<1>4. JobOf(r, a, b).rows = g \o <<>>
  BY DEF JobOf
<1> HIDE DEF b
<1>5. g = [i \in 1 .. Len(a.questions) |-> g[i]]
  BY <1>3
<1> HIDE DEF g
<1>6. IsList(g) /\ g \o <<>> = g
  BY <1>1, <1>5, Listed
<1> QED
  BY <1>4, <1>6 DEF b

\* The gateway publishes.
LEMMA DecisionsArrival ==
    ASSUME ArrivalInv, NEW r \in Requests, NEW a \in Asks, decisions(r, a)
    PROVE  ArrivalInv'
<1> DEFINE job == JobOf(r, a, Built(a))
<1>1. queue' = queue /\ (jobs' = jobs \/ jobs' = Append(jobs, job))
  BY DEF decisions
<1>2. IsList(job.rows)
  BY JobListed
<1> HIDE DEF job
<1>3. IsList(jobs) /\ \A k \in DOMAIN jobs : IsList(jobs[k].rows)
  BY DEF ArrivalInv, ListsHold
<1>4. IsList(jobs') /\ \A k \in DOMAIN jobs' : IsList(jobs'[k].rows)
  <2>1. CASE jobs' = jobs
    BY <1>3, <2>1
  <2>2. CASE jobs' = Append(jobs, job)
    <3> DEFINE js == Append(jobs, job)
    <3>1. /\ IsList(js) /\ Len(js) = Len(jobs) + 1
          /\ \A i \in 1 .. Len(jobs) : js[i] = jobs[i]
          /\ js[Len(jobs) + 1] = job
      BY <1>3, AppendListed
    <3> HIDE DEF js
    <3>2. Len(jobs) \in Nat /\ DOMAIN jobs = 1 .. Len(jobs) /\ DOMAIN js = 1 .. Len(js)
      BY <1>3, <3>1, Places
    <3>3. \A k \in DOMAIN js : IsList(js[k].rows)
      <4> TAKE k \in DOMAIN js
      <4>1. k \in 1 .. Len(jobs) \/ k = Len(jobs) + 1
        BY <3>1, <3>2
      <4> QED
        BY <1>2, <1>3, <3>1, <3>2, <4>1
    <3> QED
      BY <2>2, <3>1, <3>3 DEF js
  <2> QED
    BY <1>1, <2>1, <2>2
<1> QED
  BY <1>1, <1>4 DEF ArrivalInv, ListsHold, Shaped, IsList, InArrivalOrder, Unanswered

\* The rows of a job are a list.
LEMMA RowsListed ==
    ASSUME NEW job, IsList(job.rows)
    PROVE  IsList(decision_rows(job))
<1>1. Len(job.rows) \in Nat /\ DOMAIN job.rows = 1 .. Len(job.rows)
  BY Places
<1>2. IsList(<<>>)
  BY EmptySet DEF IsList
<1>3. ASSUME NEW cu
      PROVE  IsList([i \in DOMAIN job.rows |->
                [tokens |-> SubSeq(job.prompt_tokens, cu[i - 1] + 1, cu[i]),
                 markers |-> job.rows[i].markers, qtype |-> job.rows[i].qtype]] \o <<>>)
  <2> DEFINE f == [i \in DOMAIN job.rows |->
                [tokens |-> SubSeq(job.prompt_tokens, cu[i - 1] + 1, cu[i]),
                 markers |-> job.rows[i].markers, qtype |-> job.rows[i].qtype]]
  <2>1. f = [i \in 1 .. Len(job.rows) |-> f[i]]
    BY <1>1
  <2> HIDE DEF f
  <2>2. IsList(f) /\ f \o <<>> = f
    BY <1>1, <2>1, Listed
  <2>3. IsList(f \o <<>>)
    BY <2>2
  <2> QED
    BY <2>3 DEF f
<1> QED
  BY <1>2, <1>3 DEF decision_rows

\* The engine admits: a new request comes last and has nothing answered.
LEMMA AdmitArrival == ASSUME ArrivalInv, admit PROVE ArrivalInv'
<1> DEFINE rows == decision_rows(Head(jobs))
           blank == [i \in DOMAIN rows |-> Unanswered]
           new == [id |-> Head(jobs).id, rows |-> rows, scores |-> blank \o <<>>]
<1>1. /\ jobs # <<>> /\ jobs' = Tail(jobs)
      /\ queue' = queue \/ queue' = Append(queue, new)
  BY DEF admit
<1>2. /\ IsList(jobs) /\ \A k \in DOMAIN jobs : IsList(jobs[k].rows)
      /\ IsList(queue) /\ \A q \in DOMAIN queue : Shaped(queue[q])
  BY DEF ArrivalInv, ListsHold
<1>3. /\ IsList(Tail(jobs)) /\ Head(jobs) = jobs[1] /\ 1 \in 1 .. Len(jobs)
      /\ \A i \in 1 .. Len(Tail(jobs)) : i + 1 \in 1 .. Len(jobs) /\ Tail(jobs)[i] = jobs[i + 1]
  BY <1>1, <1>2, TailListed
<1>4. Len(jobs) \in Nat /\ DOMAIN jobs = 1 .. Len(jobs) /\ DOMAIN Tail(jobs) = 1 .. Len(Tail(jobs))
  BY <1>2, <1>3, Places
<1>5. IsList(jobs') /\ \A k \in DOMAIN jobs' : IsList(jobs'[k].rows)
  <2> DEFINE t == Tail(jobs)
  <2>1. IsList(t) /\ \A k \in DOMAIN t : IsList(t[k].rows)
    BY <1>2, <1>3, <1>4
  <2> HIDE DEF t
  <2>2. jobs' = t
    BY <1>1 DEF t
  <2> QED
    BY <2>1, <2>2
<1>6. IsList(rows)
  <2>1. IsList(Head(jobs).rows)
    BY <1>2, <1>3, <1>4
  <2> QED
    BY <2>1, RowsListed
<1> HIDE DEF rows
<1>7. Len(rows) \in Nat /\ DOMAIN rows = 1 .. Len(rows)
  BY <1>6, Places
<1>8. blank = [i \in 1 .. Len(rows) |-> blank[i]] /\ \A i \in 1 .. Len(rows) : blank[i] = Unanswered
  BY <1>7
<1> HIDE DEF blank
<1>9. IsList(blank) /\ blank \o <<>> = blank /\ Len(blank) = Len(rows)
  BY <1>7, <1>8, Listed
<1>10. new = [id |-> new.id, rows |-> rows, scores |-> blank] /\ new.rows = rows /\ new.scores = blank
  BY <1>9
<1> HIDE DEF new
<1>11. Shaped(new)
  BY <1>6, <1>9, <1>10 DEF Shaped
<1>12. CASE queue' = queue
  BY <1>5, <1>12 DEF ArrivalInv, ListsHold, Shaped, IsList, InArrivalOrder, Unanswered
<1>13. CASE queue' = Append(queue, new)
  <2> DEFINE qs == Append(queue, new)
  <2>1. /\ IsList(qs) /\ Len(qs) = Len(queue) + 1
        /\ \A i \in 1 .. Len(queue) : qs[i] = queue[i]
        /\ qs[Len(queue) + 1] = new
    BY <1>2, AppendListed
  <2> HIDE DEF qs
  <2>2. Len(queue) \in Nat /\ DOMAIN queue = 1 .. Len(queue) /\ DOMAIN qs = 1 .. Len(qs)
    BY <1>2, <2>1, Places
  <2>3. \A k \in DOMAIN qs : (k \in DOMAIN queue /\ qs[k] = queue[k]) \/ qs[k] = new
    BY <2>1, <2>2
  <2>4. \A k \in DOMAIN qs : Shaped(qs[k])
    BY <1>2, <1>11, <2>3
  <2>5. ASSUME NEW q \in DOMAIN qs, NEW i \in DOMAIN qs[q].rows, qs[q].scores[i] # Unanswered
        PROVE  q = 1 /\ \A j \in 1 .. i : qs[q].scores[j] # Unanswered
    <3>1. CASE qs[q] = new
      BY <1>7, <1>8, <1>10, <2>5, <3>1
    <3>2. CASE q \in DOMAIN queue /\ qs[q] = queue[q]
      BY <2>5, <3>2 DEF ArrivalInv, InArrivalOrder
    <3> QED
      BY <2>3, <3>1, <3>2
  <2>6. queue' = qs
    BY <1>13 DEF qs
  <2>7. ListsHold'
    BY <1>5, <2>1, <2>4, <2>6 DEF ListsHold, Shaped, IsList
  <2>8. InArrivalOrder'
    BY <2>5, <2>6 DEF InArrivalOrder, Unanswered
  <2> QED
    BY <2>7, <2>8 DEF ArrivalInv
<1> QED
  BY <1>1, <1>12, <1>13

\* A cancellation leaves the others in the order they had, and whoever is
\* part-way through was first.
LEMMA CancelArrival == ASSUME ArrivalInv, NEW r \in Requests, cancel(r) PROVE ArrivalInv'
<1> DEFINE gone == {p \in ToSet(queue) : p.id = r}
           left == Without(queue, gone)
           A == ToSet(queue)
<1>1. queue' = left /\ jobs' = jobs
  BY DEF cancel
<1>2. DOMAIN queue = 1 .. Len(queue) /\ Len(queue) \in Nat
  BY Places DEF ArrivalInv, ListsHold, IsList
<1>3. queue \in Seq(A)
  BY DEF ArrivalInv, ListsHold, IsList
<1> HIDE DEF A, gone
<1>4. /\ left \in Seq(A)
      /\ \A x : InList(left, x) <=> InList(queue, x) /\ x \notin gone
      /\ \A i, j \in 1 .. Len(left) : i < j =>
            \E k, l \in 1 .. Len(queue) : k < l /\ left[i] = queue[k] /\ left[j] = queue[l]
  BY ONLY <1>3, WithoutFacts
<1> HIDE DEF left
<1>5. IsList(left) /\ Len(left) \in Nat /\ DOMAIN left = 1 .. Len(left)
  BY <1>4, OwnElements DEF IsList
<1>6. \A k \in DOMAIN left : \E q \in DOMAIN queue : left[k] = queue[q]
  BY <1>2, <1>4, <1>5 DEF InList
<1>7. ListsHold'
  <2>1. \A k \in DOMAIN left : Shaped(left[k])
    BY <1>6 DEF ArrivalInv, ListsHold
  <2>2. \A k \in DOMAIN queue' : Shaped(queue'[k])
    BY <1>1, <2>1
  <2> QED
    BY <1>1, <1>5, <2>2 DEF ArrivalInv, ListsHold, Shaped, IsList
<1>8. ASSUME NEW k \in DOMAIN left, NEW i \in DOMAIN left[k].rows, left[k].scores[i] # Unanswered
      PROVE  k = 1 /\ \A j \in 1 .. i : left[k].scores[j] # Unanswered
  <2>1. PICK q \in DOMAIN queue : left[k] = queue[q]
    BY <1>6
  <2>2. \A j \in 1 .. i : left[k].scores[j] # Unanswered
    BY <1>8, <2>1 DEF ArrivalInv, InArrivalOrder
  <2>3. k = 1
    <3> SUFFICES ASSUME k # 1 PROVE FALSE
      OBVIOUS
    <3>1. 1 \in 1 .. Len(left) /\ k \in 1 .. Len(left) /\ 1 < k
      BY <1>5
    <3>2. PICK a, c \in 1 .. Len(queue) : a < c /\ left[1] = queue[a] /\ left[k] = queue[c]
      BY <1>4, <3>1
    <3>3. c \in DOMAIN queue /\ i \in DOMAIN queue[c].rows /\ queue[c].scores[i] # Unanswered
      BY <1>2, <1>8, <3>2
    <3>4. c = 1
      BY <3>3 DEF ArrivalInv, InArrivalOrder
    <3> QED
      BY <1>2, <3>2, <3>4
  <2> QED
    BY <2>2, <2>3
<1>9. InArrivalOrder'
  BY <1>1, <1>8 DEF InArrivalOrder, Unanswered
<1> QED
  BY <1>7, <1>9 DEF ArrivalInv

-----------------------------------------------------------------------------
(* The first theorem.                                                      *)

\* The inductive invariant holds.
LEMMA ArrivalHolds == Spec => []ArrivalInv
<1>1. Init => ArrivalInv
  <2> SUFFICES ASSUME Init PROVE ArrivalInv
    OBVIOUS
  <2>1. jobs = <<>> /\ queue = <<>> /\ IsList(<<>>) /\ DOMAIN <<>> = {}
    BY EmptySet DEF Init, IsList
  <2> QED
    BY <2>1 DEF ArrivalInv, ListsHold, InArrivalOrder
<1>2. ArrivalInv /\ [Next]_vars => ArrivalInv'
  <2> SUFFICES ASSUME ArrivalInv, [Next]_vars PROVE ArrivalInv'
    OBVIOUS
  <2>1. ASSUME NEW r \in Requests, NEW a \in Asks, decisions(r, a)
        PROVE  ArrivalInv'
    BY <2>1, DecisionsArrival
  <2>2. CASE admit
    BY <2>2, AdmitArrival
  <2>3. CASE step
    BY <2>3, StepArrival
  <2>4. CASE step_fails
    <3>1. queue' = <<>> /\ jobs' = jobs /\ IsList(<<>>) /\ DOMAIN <<>> = {}
      BY <2>4, EmptySet DEF step_fails, IsList
    <3> QED
      BY <3>1 DEF ArrivalInv, ListsHold, InArrivalOrder, IsList
  <2>5. CASE UNCHANGED vars
    BY <2>5 DEF vars, ArrivalInv, ListsHold, Shaped, IsList, InArrivalOrder, Unanswered
  <2>6. CASE Done
    BY <2>5, <2>6 DEF Done
  <2>7. ASSUME NEW r \in Requests, cancel(r) PROVE ArrivalInv'
    BY <2>7, CancelArrival
  <2> QED
    BY <2>1, <2>2, <2>3, <2>4, <2>5, <2>6, <2>7 DEF Next
<1> QED
  BY <1>1, <1>2, PTL DEF Spec

\* Rows are scored in arrival order: whatever the questions, the limits of
\* a pass and the faults of the device, only the oldest request is ever
\* part-way through and its first rows are the ones scored, so no supply of
\* short questions overtakes a long one (DecisionEngine::select, ::step).
THEOREM AlwaysInArrivalOrder == Spec => []InArrivalOrder
<1>1. ArrivalInv => InArrivalOrder
  BY DEF ArrivalInv
<1> QED
  BY <1>1, ArrivalHolds, PTL

-----------------------------------------------------------------------------
(* Slices of a list, end to end.                                           *)

\* What stands at a place of a list is cut out of it again.
LEMMA SliceBack ==
    ASSUME NEW A, NEW t \in Seq(A), NEW s \in Seq(A), NEW x \in Nat, NEW y,
           y = x + Len(s), y <= Len(t), \A i \in 1 .. Len(s) : t[x + i] = s[i]
    PROVE  SubSeq(t, x + 1, y) = s
<1> DEFINE w == SubSeq(t, x + 1, y)
<1>1. Len(s) \in Nat /\ Len(t) \in Nat /\ x + 1 \in Int /\ y \in Int
  OBVIOUS
<1>2. \A i \in x + 1 .. y : t[i] \in A
  <2> TAKE i \in x + 1 .. y
  <2>1. i \in 1 .. Len(t)
    BY <1>1
  <2> QED
    BY <2>1
<1>3. /\ w \in Seq(A)
      /\ Len(w) = IF x + 1 <= y THEN y - (x + 1) + 1 ELSE 0
      /\ \A i \in 1 .. y - (x + 1) + 1 : w[i] = t[(x + 1) + i - 1]
  BY ONLY <1>1, <1>2
<1> HIDE DEF w
<1>4. y - (x + 1) + 1 = Len(s) /\ Len(w) = Len(s)
  BY <1>1, <1>3
<1>5. \A i \in 1 .. Len(s) : w[i] = s[i]
  <2> TAKE i \in 1 .. Len(s)
  <2>1. (x + 1) + i - 1 = x + i
    OBVIOUS
  <2>2. w[i] = t[(x + 1) + i - 1]
    BY <1>3, <1>4
  <2> QED
    BY <2>1, <2>2
<1>6. w \in [1 .. Len(s) -> A] /\ s \in [1 .. Len(s) -> A]
  BY ONLY <1>3, <1>4, s \in Seq(A)
<1>7. w = s
  BY ONLY <1>5, <1>6
<1> QED
  BY <1>7 DEF w

\* Vec::truncate.
LEMMA TruncateFacts ==
    ASSUME NEW A, NEW s \in Seq(A), NEW n \in Nat
    PROVE  /\ truncate(s, n) \in Seq(A)
           /\ Len(truncate(s, n)) = IF n <= Len(s) THEN n ELSE Len(s)
           /\ \A i \in 1 .. Len(truncate(s, n)) : truncate(s, n)[i] = s[i]
<1>1. Len(s) \in Nat
  OBVIOUS
<1> DEFINE m == IF n <= Len(s) THEN n ELSE Len(s)
<1>2. Min({n, Len(s)}) = m
  <2>1. m \in {n, Len(s)} /\ \A y \in {n, Len(s)} : m <= y
    BY <1>1
  <2>2. \A x \in {n, Len(s)} : (\A y \in {n, Len(s)} : x <= y) => x = m
    BY <1>1
  <2> HIDE DEF m
  <2> QED
    BY <2>1, <2>2 DEF Min
<1>3. m \in 0 .. Len(s)
  BY <1>1
<1> HIDE DEF m
<1>5. truncate(s, n) = SubSeq(s, 1, m)
  BY <1>2 DEF truncate
<1>4. SubSeq(s, 1, m) \in Seq(A) /\ Len(SubSeq(s, 1, m)) = m /\ \A i \in 1 .. m : SubSeq(s, 1, m)[i] = s[i]
  BY <1>3
<1> QED
  BY <1>3, <1>4, <1>5 DEF m

\* The recursive function of Ends, on the first m lengths.
EndsUpTo(g, lens, m) == g = [n \in 0 .. m |-> IF n = 0 THEN 0 ELSE g[n - 1] + lens[n]]

LEMMA EndsExist ==
    ASSUME NEW lens, NEW m \in Nat
    PROVE  \E g : EndsUpTo(g, lens, m)
<1> DEFINE H == {n \in Nat : \E g : EndsUpTo(g, lens, n)}
<1>1. 0 \in H
  <2>1. EndsUpTo([q \in 0 .. 0 |-> 0], lens, 0)
    BY DEF EndsUpTo
  <2> QED
    BY <2>1
<1>2. ASSUME NEW n \in Nat, n \in H
      PROVE  n + 1 \in H
  <2>1. PICK f : EndsUpTo(f, lens, n)
    BY <1>2
  <2> DEFINE g == [q \in 0 .. (n + 1) |-> IF q <= n THEN f[q] ELSE f[q - 1] + lens[q]]
  <2>2. f[0] = 0 /\ \A q \in 1 .. n : f[q] = f[q - 1] + lens[q]
    BY <2>1 DEF EndsUpTo
  <2>3. \A q \in 0 .. (n + 1) : g[q] = IF q = 0 THEN 0 ELSE g[q - 1] + lens[q]
    <3> TAKE q \in 0 .. (n + 1)
    <3>1. CASE q = 0
      BY <2>2, <3>1
    <3>2. CASE q \in 1 .. n
      <4>1. g[q] = f[q] /\ g[q - 1] = f[q - 1] /\ q # 0
        BY <3>2
      <4> QED
        BY <2>2, <3>2, <4>1
    <3>3. CASE q = n + 1
      <4>1. g[q] = f[q - 1] + lens[q] /\ g[q - 1] = f[q - 1] /\ q # 0
        BY <3>3
      <4> QED
        BY <4>1
    <3> QED
      BY <3>1, <3>2, <3>3
  <2>4. EndsUpTo(g, lens, n + 1)
    <3>1. g = [q \in 0 .. (n + 1) |-> g[q]]
      OBVIOUS
    <3> HIDE DEF g
    <3> QED
      BY <2>3, <3>1 DEF EndsUpTo
  <2> QED
    BY <2>4
<1> HIDE DEF H
<1>3. Nat \subseteq H
  BY <1>1, <1>2, Induction
<1> QED
  BY <1>3 DEF H

\* Slices follow one another, and every place is in one of them.
Sliced(e, lens, n) ==
    /\ e \in [0 .. n -> Nat] /\ e[0] = 0
    /\ \A k \in 1 .. n : e[k] = e[k - 1] + lens[k]
    /\ \A j, k \in 0 .. n : j <= k => e[j] <= e[k]
    /\ \A p \in 1 .. e[n] : \E k \in 1 .. n : e[k - 1] < p /\ p <= e[k]

LEMMA EndsSlice ==
    ASSUME NEW n \in Nat, NEW lens, \A k \in 1 .. n : lens[k] \in Nat, Len(lens) = n
    PROVE  Sliced(Ends(lens), lens, n)
<1> DEFINE e == CHOOSE g : EndsUpTo(g, lens, n)
<1>1. EndsUpTo(e, lens, n)
  <2>1. \E g : EndsUpTo(g, lens, n)
    BY EndsExist
  <2> QED
    BY <2>1
<1>2. Ends(lens) = e
  BY DEF Ends, EndsUpTo
<1> HIDE DEF e
<1>3. e = [k \in 0 .. n |-> e[k]] /\ e[0] = 0 /\ \A k \in 1 .. n : e[k] = e[k - 1] + lens[k]
  BY <1>1 DEF EndsUpTo
<1> DEFINE Good(m) == /\ e[m] \in Nat
                      /\ \A j \in 0 .. m : e[j] \in Nat /\ e[j] <= e[m]
                      /\ \A p \in 1 .. e[m] : \E k \in 1 .. m : e[k - 1] < p /\ p <= e[k]
           H == {m \in Nat : m <= n => Good(m)}
<1>4. Good(0)
  BY <1>3
<1>5. ASSUME NEW m \in Nat, Good(m), m + 1 <= n
      PROVE  Good(m + 1)
  <2>1. e[m + 1] = e[m] + lens[m + 1] /\ lens[m + 1] \in Nat /\ m + 1 - 1 = m
    <3>1. m + 1 \in 1 .. n /\ m + 1 - 1 = m
      BY <1>5
    <3>2. \A k \in 1 .. n : e[k] = e[k - 1] + lens[k]
      BY <1>3
    <3>3. e[m + 1] = e[m + 1 - 1] + lens[m + 1]
      BY ONLY <3>1, <3>2
    <3>4. lens[m + 1] \in Nat
      BY <3>1
    <3> QED
      BY <3>1, <3>3, <3>4
  <2>2. e[m + 1] \in Nat /\ e[m] \in Nat /\ e[m] <= e[m + 1]
    BY <1>5, <2>1
  <2>3. ASSUME NEW j \in 0 .. (m + 1) PROVE e[j] \in Nat /\ e[j] <= e[m + 1]
    <3>1. CASE j = m + 1
      BY <2>2, <3>1
    <3>2. CASE j \in 0 .. m
      BY <1>5, <2>2, <3>2
    <3> QED
      BY <3>1, <3>2
  <2>4. ASSUME NEW p \in 1 .. e[m + 1] PROVE \E k \in 1 .. (m + 1) : e[k - 1] < p /\ p <= e[k]
    <3>1. CASE p <= e[m]
      <4>1. p \in 1 .. e[m]
        BY <2>2, <3>1
      <4> QED
        BY <1>5, <4>1
    <3>2. CASE ~(p <= e[m])
      <4>1. m + 1 \in 1 .. (m + 1) /\ e[m + 1 - 1] < p /\ p <= e[m + 1]
        BY <2>1, <2>2, <3>2
      <4> QED
        BY <4>1
    <3> QED
      BY <3>1, <3>2
  <2> QED
    BY <2>2, <2>3, <2>4
<1> HIDE DEF Good
<1>6. 0 \in H /\ \A m \in Nat : m \in H => m + 1 \in H
  BY <1>4, <1>5
<1> HIDE DEF H
<1>7. Nat \subseteq H
  BY <1>6, Induction
<1>8. \A m \in 0 .. n : Good(m)
  BY <1>7 DEF H
<1>9. e \in [0 .. n -> Nat]
  BY <1>3, <1>8 DEF Good
<1>10. \A j, k \in 0 .. n : j <= k => e[j] <= e[k]
  BY <1>8 DEF Good
<1>11. \A p \in 1 .. e[n] : \E k \in 1 .. n : e[k - 1] < p /\ p <= e[k]
  BY <1>8 DEF Good
<1> QED
  BY <1>2, <1>3, <1>9, <1>10, <1>11 DEF Sliced

\* The recursive function of FlattenSeq, on the first m lists.
FlatUpTo(f, s, m) == f = [i \in 1 .. m |-> IF i = 1 THEN s[i] ELSE f[i - 1] \o s[i]]

LEMMA FlatExists ==
    ASSUME NEW s, NEW m \in Nat
    PROVE  \E f : FlatUpTo(f, s, m)
<1> DEFINE H == {n \in Nat : \E f : FlatUpTo(f, s, n)}
<1>1. 0 \in H
  <2>1. FlatUpTo([i \in 1 .. 0 |-> s[i]], s, 0)
    BY DEF FlatUpTo
  <2> QED
    BY <2>1
<1>2. ASSUME NEW n \in Nat, n \in H
      PROVE  n + 1 \in H
  <2>1. PICK f : FlatUpTo(f, s, n)
    BY <1>2
  <2> DEFINE g == [i \in 1 .. (n + 1) |-> IF i <= n THEN f[i] ELSE IF i = 1 THEN s[i] ELSE f[i - 1] \o s[i]]
  <2>2. \A i \in 1 .. n : f[i] = IF i = 1 THEN s[i] ELSE f[i - 1] \o s[i]
    BY <2>1 DEF FlatUpTo
  <2>3. \A i \in 1 .. (n + 1) : g[i] = IF i = 1 THEN s[i] ELSE g[i - 1] \o s[i]
    <3> TAKE i \in 1 .. (n + 1)
    <3>1. CASE i \in 1 .. n
      <4>1. g[i] = f[i] /\ (i # 1 => g[i - 1] = f[i - 1])
        BY <3>1
      <4> QED
        BY <2>2, <3>1, <4>1
    <3>2. CASE i = n + 1
      <4>1. g[i] = (IF i = 1 THEN s[i] ELSE f[i - 1] \o s[i]) /\ (i # 1 => g[i - 1] = f[i - 1])
        BY <3>2
      <4> QED
        BY <4>1
    <3> QED
      BY <3>1, <3>2
  <2>4. FlatUpTo(g, s, n + 1)
    <3>1. g = [i \in 1 .. (n + 1) |-> g[i]]
      OBVIOUS
    <3> HIDE DEF g
    <3> QED
      BY <2>3, <3>1 DEF FlatUpTo
  <2> QED
    BY <2>4
<1> HIDE DEF H
<1>3. Nat \subseteq H
  BY <1>1, <1>2, Induction
<1> QED
  BY <1>3 DEF H

\* t is the first n lists of s end to end, the k-th ending at e[k].
Joined(A, t, s, e, n) ==
    /\ t \in Seq(A) /\ Len(t) = e[n]
    /\ \A k \in 1 .. n : \A i \in 1 .. Len(s[k]) : e[k - 1] + i \in 1 .. Len(t) /\ t[e[k - 1] + i] = s[k][i]

\* A list of lists end to end.
LEMMA FlattenFacts ==
    ASSUME NEW A, NEW n \in Nat \ {0}, NEW s, Len(s) = n, DOMAIN s = 1 .. n, \A k \in 1 .. n : s[k] \in Seq(A)
    PROVE  /\ Sliced(Ends(Lens(s)), [k \in 1 .. n |-> Len(s[k])], n)
           /\ Joined(A, FlattenSeq(s), s, Ends(Lens(s)), n)
<1> DEFINE lens == [k \in 1 .. n |-> Len(s[k])]
<1>1. \A k \in 1 .. n : lens[k] = Len(s[k]) /\ lens[k] \in Nat
  OBVIOUS
<1>2. lens = [k \in 1 .. n |-> lens[k]] /\ Lens(s) = lens \o <<>>
  BY DEF Lens
<1> HIDE DEF lens
<1>3. Lens(s) = lens /\ Len(lens) = n
  BY <1>2, Listed
<1> DEFINE e == Ends(lens)
<1>4. Sliced(e, lens, n)
  BY <1>1, <1>3, EndsSlice
<1> HIDE DEF e
<1> DEFINE f == CHOOSE g : FlatUpTo(g, s, n)
<1>5. FlatUpTo(f, s, n)
  <2>1. \E g : FlatUpTo(g, s, n)
    BY FlatExists
  <2> QED
    BY <2>1
<1>6. FlattenSeq(s) = f[n]
  BY DEF FlattenSeq, FlatUpTo
<1> HIDE DEF f
<1>7. f[1] = s[1] /\ \A i \in 1 .. n : i # 1 => f[i] = f[i - 1] \o s[i]
  <2>1. 1 \in 1 .. n
    OBVIOUS
  <2>2. \A i \in 1 .. n : f[i] = IF i = 1 THEN s[i] ELSE f[i - 1] \o s[i]
    BY <1>5 DEF FlatUpTo
  <2> QED
    BY ONLY <2>1, <2>2, Zenon
<1>8. /\ e \in [0 .. n -> Nat] /\ e[0] = 0
      /\ \A k \in 1 .. n : e[k] = e[k - 1] + lens[k]
  BY <1>4 DEF Sliced
<1> DEFINE Good(m) == Joined(A, f[m], s, e, m)
           H == {m \in Nat : m + 1 <= n => Good(m + 1)}
<1>9. Good(1)
  <2>1. f[1] = s[1] /\ s[1] \in Seq(A) /\ e[1] = e[1 - 1] + lens[1] /\ e[1 - 1] = 0 /\ lens[1] = Len(s[1])
    BY <1>1, <1>7, <1>8
  <2>2. e[1] = Len(s[1]) /\ Len(s[1]) \in Nat
    BY <2>1
  <2>3. \A k \in 1 .. 1 : k = 1
    OBVIOUS
  <2> QED
    BY <2>1, <2>2, <2>3 DEF Joined
<1>10. ASSUME NEW m \in Nat, m # 0, Good(m), m + 1 <= n
       PROVE  Good(m + 1)
  <2> DEFINE t == f[m]
             r == s[m + 1]
  <2>1. f[m + 1] = t \o r /\ r \in Seq(A) /\ lens[m + 1] = Len(r) /\ e[m + 1] = e[m] + Len(r)
    <3>1. m + 1 \in 1 .. n /\ m + 1 # 1 /\ m + 1 - 1 = m
      BY <1>10
    <3> HIDE DEF Good
    <3>2. f[m + 1] = f[m] \o s[m + 1]
      <4>1. \A i \in 1 .. n : i # 1 => f[i] = f[i - 1] \o s[i]
        BY ONLY <1>7, Zenon
      <4>2. \A j \in 1 .. n : j # 1 /\ j - 1 = m => f[j] = f[m] \o s[j]
        BY ONLY <4>1, Zenon
      <4>3. PICK j \in 1 .. n : j = m + 1 /\ j # 1 /\ j - 1 = m
        BY <3>1
      <4>4. f[j] = f[m] \o s[j]
        BY ONLY <4>2, <4>3, Zenon
      <4> QED
        BY ONLY <4>3, <4>4, Zenon
    <3>3. e[m + 1] = e[m + 1 - 1] + lens[m + 1] /\ lens[m + 1] = Len(s[m + 1]) /\ s[m + 1] \in Seq(A)
      <4>1. \A k \in 1 .. n : e[k] = e[k - 1] + lens[k]
        BY <1>8
      <4>2. e[m + 1] = e[m + 1 - 1] + lens[m + 1]
        BY ONLY <3>1, <4>1
      <4> QED
        BY <1>1, <3>1, <4>2
    <3> QED
      BY <3>1, <3>2, <3>3
  <2>2. /\ t \in Seq(A) /\ Len(t) = e[m]
        /\ \A k \in 1 .. m : \A i \in 1 .. Len(s[k]) : e[k - 1] + i \in 1 .. Len(t) /\ t[e[k - 1] + i] = s[k][i]
    BY <1>10 DEF Joined
  <2>3. \A k \in 1 .. m : Len(s[k]) \in Nat /\ e[k - 1] \in Nat
    BY <1>8, <1>10
  <2>4. e[m] \in Nat /\ m + 1 - 1 = m
    BY <1>8, <1>10
  <2> HIDE DEF t, r
  <2>5. /\ t \o r \in Seq(A) /\ Len(t \o r) = Len(t) + Len(r)
        /\ \A i \in 1 .. Len(t) : (t \o r)[i] = t[i]
        /\ \A i \in 1 .. Len(r) : (t \o r)[Len(t) + i] = r[i]
    <3>1. t \in Seq(A) /\ r \in Seq(A)
      BY <2>1, <2>2
    <3> QED
      BY ONLY <3>1
  <2>6. Len(t) \in Nat /\ Len(r) \in Nat
    BY <2>1, <2>2
  <2>7. ASSUME NEW k \in 1 .. (m + 1), NEW i \in 1 .. Len(s[k])
        PROVE  e[k - 1] + i \in 1 .. Len(t \o r) /\ (t \o r)[e[k - 1] + i] = s[k][i]
    <3>1. CASE k \in 1 .. m
      <4>1. e[k - 1] + i \in 1 .. Len(t) /\ t[e[k - 1] + i] = s[k][i]
        BY <2>2, <3>1
      <4> QED
        BY <2>5, <2>6, <4>1
    <3>2. CASE k = m + 1
      <4>1. e[k - 1] = Len(t) /\ s[k] = r /\ i \in 1 .. Len(r)
        BY <2>2, <2>4, <3>2 DEF r
      <4>2. (t \o r)[Len(t) + i] = r[i] /\ Len(t) + i \in 1 .. Len(t \o r)
        BY <2>5, <2>6, <4>1
      <4> QED
        BY <4>1, <4>2
    <3> QED
      BY <3>1, <3>2
  <2> QED
    BY <2>1, <2>2, <2>5, <2>7, SMTT(40) DEF Joined, t
<1> HIDE DEF Good
<1>11. 0 \in H /\ \A m \in Nat : m \in H => m + 1 \in H
  <2>1. 0 \in H
    BY <1>9
  <2>2. ASSUME NEW m \in Nat, m \in H, m + 1 + 1 <= n PROVE Good(m + 1 + 1)
    <3>1. Good(m + 1) /\ m + 1 \in Nat /\ m + 1 # 0
      BY <2>2
    <3> QED
      BY <1>10, <2>2, <3>1
  <2> QED
    BY <2>1, <2>2
<1> HIDE DEF H
<1>12. Nat \subseteq H
  BY <1>11, Induction
<1>13. Good(n)
  <2>1. n - 1 \in H /\ n - 1 + 1 = n
    BY <1>12
  <2> QED
    BY <2>1 DEF H
<1> QED
  BY <1>3, <1>4, <1>6, <1>13 DEF Good, e, lens

\* Two increasing lists of the same numbers are equal.
LEMMA IncreasingEqual ==
    ASSUME NEW s \in Seq(Nat), NEW t \in Seq(Nat),
           \A i, j \in 1 .. Len(s) : i < j => s[i] < s[j],
           \A i, j \in 1 .. Len(t) : i < j => t[i] < t[j],
           \A x : InList(s, x) <=> InList(t, x)
    PROVE  s = t
<1> DEFINE Same(n) == n <= Len(s) /\ n <= Len(t) /\ s[n] = t[n]
           Here(n) == n <= Len(s) \/ n <= Len(t)
           agree == {n \in Nat : \A k \in 1 .. n : Here(k) => Same(k)}
<1>1. Len(s) \in Nat /\ Len(t) \in Nat
  OBVIOUS
<1>2. ASSUME NEW n \in Nat, n \in agree, Here(n + 1)
      PROVE  Same(n + 1)
  <2> DEFINE m == n + 1
  <2>1. \A k \in 1 .. n : k <= Len(s) /\ k <= Len(t) => s[k] = t[k]
    BY <1>2
  <2>2. ASSUME m <= Len(s) PROVE m <= Len(t) /\ t[m] <= s[m]
    <3>1. PICK j \in 1 .. Len(t) : t[j] = s[m]
      <4>1. InList(s, s[m])
        BY <1>1, <2>2 DEF InList
      <4> QED
        BY <4>1 DEF InList
    <3>2. ~(j < m)
      <4> SUFFICES ASSUME j < m PROVE FALSE
        OBVIOUS
      <4>1. j \in 1 .. n /\ j <= Len(s) /\ j <= Len(t) /\ m \in 1 .. Len(s) /\ j \in 1 .. Len(s)
        BY <1>1, <2>2
      <4>2. s[j] = t[j] /\ s[j] < s[m] /\ s[m] \in Nat
        BY <2>1, <4>1
      <4> QED
        BY <3>1, <4>2
    <3>3. m \in 1 .. Len(t) /\ (m = j \/ m < j)
      BY <1>1, <3>2
    <3>4. t[m] <= t[j]
      <4>1. t[j] \in Nat /\ t[m] \in Nat
        BY <3>3
      <4> QED
        BY <3>3, <4>1
    <3> QED
      BY <3>1, <3>3, <3>4
  <2>3. ASSUME m <= Len(t) PROVE m <= Len(s) /\ s[m] <= t[m]
    <3>1. PICK j \in 1 .. Len(s) : s[j] = t[m]
      <4>1. InList(t, t[m])
        BY <1>1, <2>3 DEF InList
      <4> QED
        BY <4>1 DEF InList
    <3>2. ~(j < m)
      <4> SUFFICES ASSUME j < m PROVE FALSE
        OBVIOUS
      <4>1. j \in 1 .. n /\ j <= Len(s) /\ j <= Len(t) /\ m \in 1 .. Len(t) /\ j \in 1 .. Len(t)
        BY <1>1, <2>3
      <4>2. s[j] = t[j] /\ t[j] < t[m] /\ t[m] \in Nat
        BY <2>1, <4>1
      <4> QED
        BY <3>1, <4>2
    <3>3. m \in 1 .. Len(s) /\ (m = j \/ m < j)
      BY <1>1, <3>2
    <3>4. s[m] <= s[j]
      <4>1. s[j] \in Nat /\ s[m] \in Nat
        BY <3>3
      <4> QED
        BY <3>3, <4>1
    <3> QED
      BY <3>1, <3>3, <3>4
  <2>4. m <= Len(s) /\ m <= Len(t) /\ m \in 1 .. Len(s) /\ m \in 1 .. Len(t)
    BY <1>1, <1>2, <2>2, <2>3
  <2>5. s[m] \in Nat /\ t[m] \in Nat
    BY <2>4
  <2> QED
    BY <2>2, <2>3, <2>4, <2>5
<1>3. 0 \in agree /\ \A n \in Nat : n \in agree => n + 1 \in agree
  <2>1. 0 \in agree
    OBVIOUS
  <2>2. ASSUME NEW n \in Nat, n \in agree PROVE n + 1 \in agree
    <3>1. Here(n + 1) => Same(n + 1)
      BY <1>2, <2>2
    <3>2. \A k \in 1 .. n : Here(k) => Same(k)
      BY <2>2
    <3>3. \A k \in 1 .. (n + 1) : k \in 1 .. n \/ k = n + 1
      OBVIOUS
    <3> HIDE DEF Here, Same
    <3> QED
      BY <3>1, <3>2, <3>3
  <2> QED
    BY <2>1, <2>2
<1> HIDE DEF agree
<1>4. Nat \subseteq agree
  BY <1>3, Induction
<1>5. \A k \in Nat : k >= 1 /\ Here(k) => Same(k)
  <2> SUFFICES ASSUME NEW k \in Nat, k >= 1, Here(k) PROVE Same(k)
    OBVIOUS
  <2>1. k \in agree /\ k \in 1 .. k
    BY <1>4
  <2> HIDE DEF Here, Same
  <2> QED
    BY <2>1 DEF agree
<1>6. Len(s) = Len(t)
  <2>1. Len(s) >= 1 => Len(s) <= Len(t)
    BY <1>1, <1>5
  <2>2. Len(t) >= 1 => Len(t) <= Len(s)
    BY <1>1, <1>5
  <2> QED
    BY <1>1, <2>1, <2>2
<1>7. \A k \in 1 .. Len(s) : s[k] = t[k]
  BY <1>1, <1>5
<1> QED
  BY <1>1, <1>6, <1>7, SMTT(40)

-----------------------------------------------------------------------------
(* The tokenizer on a request's text.                                      *)

\* The recursive function of Scan, on the last m places.
ScanFrom(R, piece, width, n, m) ==
    R = [i \in (n + 1 - m) .. (n + 1) |-> IF i > n THEN <<>> ELSE piece[i] \o R[i + width[i]]]

LEMMA ScanExists ==
    ASSUME NEW n \in Nat, NEW piece, NEW width,
           \A i \in 1 .. n : width[i] \in Nat /\ width[i] >= 1 /\ i + width[i] <= n + 1
    PROVE  \E R : ScanFrom(R, piece, width, n, n)
<1> DEFINE H == {m \in Nat : m <= n => \E R : ScanFrom(R, piece, width, n, m)}
<1>1. 0 \in H
  <2> DEFINE S == (n + 1 - 0) .. (n + 1)
             f == [i \in S |-> <<>>]
  <2>1. \A i \in S : i > n
    OBVIOUS
  <2>2. f = [i \in S |-> IF i > n THEN <<>> ELSE piece[i] \o f[i + width[i]]]
    <3> HIDE DEF S
    <3> QED
      BY ONLY <2>1, Zenon DEF f
  <2>3. ScanFrom(f, piece, width, n, 0)
    BY ONLY <2>2, Zenon DEF ScanFrom, S
  <2> QED
    BY <2>3
<1>2. ASSUME NEW m \in Nat, m \in H, m + 1 <= n
      PROVE  \E R : ScanFrom(R, piece, width, n, m + 1)
  <2>1. PICK R : ScanFrom(R, piece, width, n, m)
    BY <1>2
  <2> DEFINE lo == n + 1 - (m + 1)
             S == (n + 1 - m) .. (n + 1)
             T == lo .. (n + 1)
             g == [i \in T |-> IF i = lo THEN piece[i] \o R[i + width[i]] ELSE R[i]]
  <2>2. lo \in 1 .. n /\ T = S \cup {lo} /\ lo \notin S
    BY <1>2
  <2>3. \A i \in T : i <= n => i + width[i] \in S
    <3> SUFFICES ASSUME NEW i \in T, i <= n PROVE i + width[i] \in S
      OBVIOUS
    <3>1. i \in 1 .. n /\ i >= lo
      BY <2>2
    <3> QED
      BY <1>2, <3>1
  <2>4. \A i \in S : R[i] = IF i > n THEN <<>> ELSE piece[i] \o R[i + width[i]]
    BY <2>1, Zenon DEF ScanFrom
  <2>5. \A i \in S : g[i] = R[i]
    BY <2>2
  <2>6. \A i \in T : g[i] = IF i > n THEN <<>> ELSE piece[i] \o g[i + width[i]]
    <3> TAKE i \in T
    <3>1. CASE i = lo
      <4>1. i + width[i] \in S /\ ~(i > n)
        BY <2>2, <2>3, <3>1
      <4>2. g[i] = piece[i] \o R[i + width[i]]
        BY <3>1
      <4> HIDE DEF g, S, T, lo
      <4> QED
        BY ONLY <2>5, <4>1, <4>2, Zenon
    <3>2. CASE i \in S
      <4>1. CASE i > n
        <5> HIDE DEF g, S, T, lo
        <5> QED
          BY ONLY <2>4, <2>5, <3>2, <4>1, Zenon
      <4>2. CASE ~(i > n)
        <5>1. i + width[i] \in S
          BY <2>2, <2>3, <3>2, <4>2
        <5> HIDE DEF g, S, T, lo
        <5> QED
          BY ONLY <2>4, <2>5, <3>2, <4>2, <5>1, Zenon
      <4> QED
        BY <4>1, <4>2
    <3> QED
      BY <2>2, <3>1, <3>2
  <2>7. g = [i \in T |-> g[i]]
    OBVIOUS
  <2> HIDE DEF g
  <2>8. ScanFrom(g, piece, width, n, m + 1)
    <3>1. g = [i \in T |-> IF i > n THEN <<>> ELSE piece[i] \o g[i + width[i]]]
      <4> HIDE DEF T, S, lo
      <4> QED
        BY ONLY <2>6, <2>7, Zenon
    <3> QED
      BY ONLY <3>1, Zenon DEF ScanFrom, T, lo
  <2> QED
    BY <2>8
<1>3. \A m \in Nat : m \in H => m + 1 \in H
  BY <1>2
<1> HIDE DEF H
<1>4. Nat \subseteq H
  BY <1>1, <1>3, Induction
<1> QED
  BY <1>4 DEF H

\* What Scan walks over.
Scanned(A, R, piece, width, n) ==
    /\ R[n + 1] = <<>>
    /\ \A i \in 1 .. (n + 1) : R[i] \in Seq(A)
    /\ \A i \in 1 .. n : R[i] = piece[i] \o R[i + width[i]]

\* What it may walk over: no piece reaches past the end.
Scannable(A, piece, width, n) ==
    /\ Len(piece) = n
    /\ \A i \in 1 .. n : /\ piece[i] \in Seq(A)
                          /\ width[i] \in Nat /\ width[i] >= 1 /\ i + width[i] <= n + 1

LEMMA ScanIs ==
    ASSUME NEW A, NEW n \in Nat, NEW piece, NEW width, Scannable(A, piece, width, n)
    PROVE  \E R : Scanned(A, R, piece, width, n) /\ Scan(piece, width) = R[1]
<1>0. /\ Len(piece) = n
      /\ \A i \in 1 .. n : /\ piece[i] \in Seq(A)
                            /\ width[i] \in Nat /\ width[i] >= 1 /\ i + width[i] <= n + 1
  BY DEF Scannable
<1> DEFINE R == CHOOSE f : f = [i \in 1 .. (n + 1) |-> IF i > n THEN <<>> ELSE piece[i] \o f[i + width[i]]]
<1>1. R = [i \in 1 .. (n + 1) |-> IF i > n THEN <<>> ELSE piece[i] \o R[i + width[i]]]
  <2>1. PICK f : ScanFrom(f, piece, width, n, n)
    BY <1>0, ScanExists
  <2>2. n + 1 - n = 1
    OBVIOUS
  <2>3. f = [i \in 1 .. (n + 1) |-> IF i > n THEN <<>> ELSE piece[i] \o f[i + width[i]]]
    BY ONLY <2>1, <2>2 DEF ScanFrom
  <2> QED
    BY ONLY <2>3, Zenon
<1>2. Scan(piece, width) = R[1]
  BY <1>0 DEF Scan
<1> HIDE DEF R
<1>3. \A i \in 1 .. (n + 1) : R[i] = IF i > n THEN <<>> ELSE piece[i] \o R[i + width[i]]
  BY ONLY <1>1, Zenon
<1>4. R[n + 1] = <<>>
  <2>1. n + 1 \in 1 .. (n + 1) /\ n + 1 > n
    OBVIOUS
  <2> QED
    BY ONLY <1>3, <2>1, Zenon
<1>5. \A i \in 1 .. n : R[i] = piece[i] \o R[i + width[i]]
  <2> TAKE i \in 1 .. n
  <2>1. i \in 1 .. (n + 1) /\ ~(i > n)
    OBVIOUS
  <2> QED
    BY ONLY <1>3, <2>1, Zenon
<1> DEFINE Good(m) == \A i \in (n + 1 - m) .. (n + 1) : R[i] \in Seq(A)
           H == {m \in Nat : m <= n => Good(m)}
<1>6. Good(0)
  <2>1. \A i \in (n + 1 - 0) .. (n + 1) : i = n + 1
    OBVIOUS
  <2>2. R[n + 1] \in Seq(A)
    BY <1>4
  <2> QED
    BY <2>1, <2>2
<1>7. ASSUME NEW m \in Nat, Good(m), m + 1 <= n PROVE Good(m + 1)
  <2> DEFINE lo == n + 1 - (m + 1)
  <2>1. lo \in 1 .. n /\ \A i \in lo .. (n + 1) : i = lo \/ i \in (n + 1 - m) .. (n + 1)
    BY <1>7
  <2>2. lo + width[lo] \in (n + 1 - m) .. (n + 1)
    BY <1>0, <1>7, <2>1
  <2>3. piece[lo] \in Seq(A) /\ R[lo + width[lo]] \in Seq(A) /\ R[lo] = piece[lo] \o R[lo + width[lo]]
    BY <1>0, <1>5, <1>7, <2>1, <2>2
  <2>4. R[lo] \in Seq(A)
    BY ONLY <2>3
  <2> QED
    BY <1>7, <2>1, <2>4
<1> HIDE DEF Good
<1>8. 0 \in H /\ \A m \in Nat : m \in H => m + 1 \in H
  BY <1>6, <1>7
<1> HIDE DEF H
<1>9. Nat \subseteq H
  BY <1>8, Induction
<1>10. \A i \in 1 .. (n + 1) : R[i] \in Seq(A)
  <2>1. Good(n) /\ n + 1 - n = 1
    BY <1>9 DEF H
  <2> QED
    BY <2>1 DEF Good
<1> QED
  BY <1>2, <1>4, <1>5, <1>10 DEF Scanned

\* A text that spells the mask token nowhere.
Unspelled(t) == \A i \in 1 .. Len(t) : ~Spells(t, i)

\* One symbol more in front.
LEMMA ConsUnspelled ==
    ASSUME NEW x \in Nat, NEW r \in Seq(Nat), Unspelled(r), ~(x = LEFT /\ r # <<>> /\ r[1] = RIGHT)
    PROVE  <<x>> \o r \in Seq(Nat) /\ Unspelled(<<x>> \o r)
<1> DEFINE t == <<x>> \o r
<1>1. /\ t \in Seq(Nat) /\ Len(t) = Len(r) + 1 /\ t[1] = x
      /\ \A i \in 2 .. (Len(r) + 1) : t[i] = r[i - 1]
  BY ConsFacts
<1>2. Len(r) \in Nat /\ (r = <<>> <=> Len(r) = 0)
  OBVIOUS
<1> HIDE DEF t
<1>3. ASSUME NEW i \in 1 .. Len(t), Spells(t, i)
      PROVE  FALSE
  <2>1. i < Len(t) /\ t[i] = LEFT /\ t[i + 1] = RIGHT
    BY <1>3 DEF Spells
  <2>2. t[i + 1] = r[i] /\ i \in 1 .. Len(r)
    <3>1. i + 1 \in 2 .. (Len(r) + 1) /\ i + 1 - 1 = i
      BY <1>1, <1>2, <2>1
    <3>2. t[i + 1] = r[i + 1 - 1]
      BY ONLY <1>1, <3>1
    <3> QED
      BY <1>1, <1>2, <2>1, <3>1, <3>2
  <2>3. CASE i = 1
    BY <1>1, <1>2, <2>1, <2>2, <2>3
  <2>4. CASE i # 1
    <3>1. i - 1 \in 1 .. Len(r) /\ i - 1 < Len(r) /\ i - 1 + 1 = i /\ i \in 2 .. (Len(r) + 1)
      BY <1>1, <1>2, <2>2, <2>4
    <3>2. r[i - 1] = LEFT /\ r[i - 1 + 1] = RIGHT
      BY <1>1, <2>1, <2>2, <3>1
    <3>3. Spells(r, i - 1)
      BY <3>1, <3>2 DEF Spells
    <3> QED
      BY <3>1, <3>3 DEF Unspelled
  <2> QED
    BY <2>3, <2>4
<1> QED
  BY <1>1, <1>3 DEF Unspelled, t

\* What scrub leaves spells the mask token nowhere, not even across what it
\* took out.
LEMMA ScrubFacts ==
    ASSUME NEW text \in Seq(Nat)
    PROVE  scrub(text) \in Seq(Nat) /\ Unspelled(scrub(text))
<1> DEFINE n == Len(text)
           piece == [i \in DOMAIN text |-> IF Spells(text, i) THEN <<SPACE>> ELSE <<text[i]>>]
           width == [i \in DOMAIN text |-> IF Spells(text, i) THEN 2 ELSE 1]
           x(i) == IF Spells(text, i) THEN SPACE ELSE text[i]
<1>1. n \in Nat /\ DOMAIN text = 1 .. n /\ \A i \in 1 .. n : text[i] \in Nat
  OBVIOUS
<1>2. \A i \in 1 .. n : x(i) \in Nat /\ piece[i] = <<x(i)>> /\ width[i] = IF Spells(text, i) THEN 2 ELSE 1
  BY <1>1 DEF SPACE
<1>3. \A i \in 1 .. n : /\ piece[i] \in Seq(Nat)
                        /\ width[i] \in Nat /\ width[i] >= 1 /\ i + width[i] <= n + 1
  <2> TAKE i \in 1 .. n
  <2>1. piece[i] \in Seq(Nat)
    <3>1. x(i) \in Nat /\ piece[i] = <<x(i)>>
      BY <1>2
    <3> HIDE DEF x, piece
    <3> QED
      BY <3>1
  <2>2. Spells(text, i) => i < n
    BY DEF Spells
  <2> HIDE DEF piece, x, width, n
  <2> QED
    BY <1>1, <1>2, <2>1, <2>2, SMTT(40)
<1>4. Len(piece) = n
  <2>1. piece = [i \in 1 .. n |-> piece[i]]
    BY <1>1
  <2> HIDE DEF piece
  <2> QED
    BY <1>1, <2>1, Listed
<1>5. scrub(text) = Scan(piece, width)
  BY DEF scrub, Replaced
<1> HIDE DEF piece, width
<1>6. PICK R : Scanned(Nat, R, piece, width, n) /\ Scan(piece, width) = R[1]
  <2> HIDE DEF n, x
  <2>1. n \in Nat
    BY <1>1
  <2>2. Scannable(Nat, piece, width, n)
    BY ONLY <1>3, <1>4 DEF Scannable
  <2> QED
    BY ONLY <2>1, <2>2, ScanIs
<1>7. /\ R[n + 1] = <<>>
      /\ \A i \in 1 .. (n + 1) : R[i] \in Seq(Nat)
      /\ \A i \in 1 .. n : R[i] = <<x(i)>> \o R[i + width[i]]
  BY <1>2, <1>6 DEF Scanned
<1>8. \A i \in 1 .. n : i + width[i] \in 1 .. (n + 1) /\ x(i) \in Nat
  BY <1>1, <1>2, <1>3
<1> HIDE DEF x
<1>9. \A i \in 1 .. n : R[i][1] = x(i)
  <2> TAKE i \in 1 .. n
  <2>1. R[i + width[i]] \in Seq(Nat) /\ x(i) \in Nat /\ R[i] = <<x(i)>> \o R[i + width[i]]
    BY <1>7, <1>8
  <2> QED
    BY <2>1, ConsFacts
<1> DEFINE Good(m) == \A i \in (n + 1 - m) .. (n + 1) : Unspelled(R[i])
           H == {m \in Nat : m <= n => Good(m)}
<1>10. Good(0)
  <2>1. \A i \in (n + 1 - 0) .. (n + 1) : i = n + 1
    BY <1>1
  <2>2. Unspelled(R[n + 1])
    BY <1>7 DEF Unspelled
  <2> QED
    BY <2>1, <2>2
<1>11. ASSUME NEW m \in Nat, Good(m), m + 1 <= n PROVE Good(m + 1)
  <2> DEFINE lo == n + 1 - (m + 1)
  <2>1. lo \in 1 .. n /\ \A i \in lo .. (n + 1) : i = lo \/ i \in (n + 1 - m) .. (n + 1)
    <3>1. n \in Nat /\ m \in Nat /\ m + 1 <= n
      BY <1>1, <1>11
    <3> HIDE DEF n
    <3> QED
      BY ONLY <3>1 DEF lo
  <2>2. lo + width[lo] \in (n + 1 - m) .. (n + 1) /\ lo + width[lo] \in 1 .. (n + 1)
    BY <1>1, <1>3, <1>11, <2>1
  <2> DEFINE r == R[lo + width[lo]]
  <2>3. r \in Seq(Nat) /\ x(lo) \in Nat /\ R[lo] = <<x(lo)>> \o r /\ Unspelled(r)
    BY <1>7, <1>8, <1>11, <2>1, <2>2
  <2>4. ~(x(lo) = LEFT /\ r # <<>> /\ r[1] = RIGHT)
    <3> SUFFICES ASSUME x(lo) = LEFT, r # <<>>, r[1] = RIGHT PROVE FALSE
      OBVIOUS
    <3>1. ~Spells(text, lo) /\ text[lo] = LEFT
      BY DEF x, LEFT, SPACE
    <3>2. width[lo] = 1
      BY <1>2, <2>1, <3>1
    <3>3. lo + 1 \in 1 .. n
      <4>1. lo + 1 # n + 1
        BY <1>7, <3>2
      <4> QED
        BY <1>1, <2>1, <4>1
    <3>4. x(lo + 1) = RIGHT
      BY <1>9, <3>2, <3>3
    <3>5. text[lo + 1] = RIGHT
      BY <3>4 DEF x, RIGHT, SPACE
    <3>6. lo < n
      BY <1>1, <2>1, <3>3
    <3> QED
      BY <3>1, <3>5, <3>6 DEF Spells
  <2> HIDE DEF r, lo
  <2>5. Unspelled(R[lo])
    BY <2>3, <2>4, ConsUnspelled
  <2> QED
    BY <1>11, <2>1, <2>5 DEF lo
<1> HIDE DEF Good
<1>12. 0 \in H /\ \A m \in Nat : m \in H => m + 1 \in H
  BY <1>10, <1>11
<1> HIDE DEF H
<1>13. Nat \subseteq H
  BY <1>12, Induction
<1>14. Good(n) /\ n + 1 - n = 1 /\ 1 \in 1 .. (n + 1)
  BY <1>1, <1>13 DEF H
<1> QED
  BY <1>5, <1>6, <1>7, <1>14 DEF Good

\* A text that does not spell the mask token is encoded without it.
LEMMA EncodeFacts ==
    ASSUME NEW text \in Seq(Nat), Unspelled(text)
    PROVE  encode(text) \in Seq(Nat)
<1> DEFINE n == Len(text)
           piece == [i \in DOMAIN text |-> IF Spells(text, i) THEN <<MASK>>
                        ELSE IF Folded(text, i) THEN <<100 + text[i + 1]>> ELSE <<text[i]>>]
           width == [i \in DOMAIN text |-> IF Spells(text, i) \/ Folded(text, i) THEN 2 ELSE 1]
           x(i) == IF Folded(text, i) THEN 100 + text[i + 1] ELSE text[i]
<1>1. n \in Nat /\ DOMAIN text = 1 .. n /\ \A i \in 1 .. n : text[i] \in Nat
  OBVIOUS
<1>2. \A i \in 1 .. n : ~Spells(text, i) /\ (Folded(text, i) => i < n /\ i + 1 \in 1 .. n)
  BY <1>1 DEF Unspelled, Folded
<1>3. \A i \in 1 .. n : piece[i] = <<x(i)>> /\ width[i] = IF Folded(text, i) THEN 2 ELSE 1
  BY <1>1, <1>2
<1>4. \A i \in 1 .. n : x(i) \in Nat
  BY <1>1, <1>2
<1>5. Len(piece) = n
  <2>1. piece = [i \in 1 .. n |-> piece[i]]
    BY <1>1
  <2> HIDE DEF piece
  <2> QED
    BY <1>1, <2>1, Listed
<1>6. encode(text) = Scan(piece, width)
  BY DEF encode
<1> HIDE DEF piece, width, x
<1>7. \A i \in 1 .. n : /\ piece[i] \in Seq(Nat)
                        /\ width[i] \in Nat /\ width[i] >= 1 /\ i + width[i] <= n + 1
  <2> TAKE i \in 1 .. n
  <2>1. piece[i] \in Seq(Nat)
    <3>1. piece[i] = <<x(i)>> /\ x(i) \in Nat
      BY <1>3, <1>4
    <3> QED
      BY ONLY <3>1
  <2> QED
    BY <1>1, <1>2, <1>3, <2>1
<1>8. PICK R : Scanned(Nat, R, piece, width, n) /\ Scan(piece, width) = R[1]
  <2> HIDE DEF n
  <2>1. n \in Nat
    BY <1>1
  <2>2. Scannable(Nat, piece, width, n)
    BY ONLY <1>5, <1>7 DEF Scannable
  <2> QED
    BY ONLY <2>1, <2>2, ScanIs
<1>9. 1 \in 1 .. (n + 1)
  BY <1>1
<1> QED
  BY <1>6, <1>8, <1>9 DEF Scanned

\* A request's text, with or without the space before it.
LEMMA PlainText ==
    ASSUME NEW text \in Seq(Nat)
    PROVE  encode(scrub(text)) \in Seq(Nat) /\ encode(<<SPACE>> \o scrub(text)) \in Seq(Nat)
<1>1. scrub(text) \in Seq(Nat) /\ Unspelled(scrub(text))
  BY ScrubFacts
<1>2. SPACE \in Nat /\ SPACE # LEFT
  BY DEF SPACE, LEFT
<1>3. <<SPACE>> \o scrub(text) \in Seq(Nat) /\ Unspelled(<<SPACE>> \o scrub(text))
  BY <1>1, <1>2, ConsUnspelled
<1> QED
  BY <1>1, <1>3, EncodeFacts

-----------------------------------------------------------------------------
(* The texts of a question.                                                *)

\* A function on 1..n into texts is a list of them.
LEMMA TextList ==
    ASSUME NEW n \in Nat, NEW A, NEW f, f = [i \in 1 .. n |-> f[i]], \A i \in 1 .. n : f[i] \in A
    PROVE  f \in Seq(A) /\ Len(f) = n /\ f \o <<>> = f
<1>1. f \in [1 .. n -> A]
  <2>1. [i \in 1 .. n |-> f[i]] \in [1 .. n -> A]
    OBVIOUS
  <2> QED
    BY ONLY <2>1, f = [i \in 1 .. n |-> f[i]]
<1>2. f \in Seq(A) /\ Len(f) = n
  BY ONLY <1>1, n \in Nat
<1> QED
  BY <1>2

LEMMA JoinTexts ==
    ASSUME NEW a \in Seq(Nat), NEW b \in Seq(Nat)
    PROVE  a \o b \in Seq(Nat)
  OBVIOUS

LEMMA JsonText ==
    ASSUME NEW v \in Value
    PROVE  python_json(v) \in Seq(Nat)
<1>1. CASE v.kind = "string"
  <2>1. v.text \in Seq(Nat)
    BY <1>1 DEF Value, Text
  <2> QED
    BY <1>1, <2>1 DEF python_json
<1>2. CASE v.kind # "string"
  <2> DEFINE w == v.fields
             n == Len(w)
             s == [i \in DOMAIN w |-> (IF i = 1 THEN <<>> ELSE <<COMMA, SPACE>>)
                                         \o w[i][1] \o <<COLON, SPACE>> \o w[i][2]]
  <2>1. w \in Seq(Seq(Nat) \X Seq(Nat))
    BY <1>2 DEF Value, Text
  <2>2. n \in Nat /\ DOMAIN w = 1 .. n /\ \A i \in 1 .. n : w[i] \in Seq(Nat) \X Seq(Nat)
    BY <2>1
  <2>3. \A i \in 1 .. n : w[i][1] \in Seq(Nat) /\ w[i][2] \in Seq(Nat)
    BY <2>2
  <2>4. python_json(v) = <<BRACE>> \o FlattenSeq(s) \o <<BRACE>>
    BY <1>2 DEF python_json
  <2> HIDE DEF w, n
  <2>5. \A i \in 1 .. n : s[i] \in Seq(Nat)
    <3> TAKE i \in 1 .. n
    <3> DEFINE a == IF i = 1 THEN <<>> ELSE <<COMMA, SPACE>>
    <3>1. a \in Seq(Nat) /\ <<COLON, SPACE>> \in Seq(Nat)
      BY DEF COMMA, SPACE, COLON
    <3>2. s[i] = a \o w[i][1] \o <<COLON, SPACE>> \o w[i][2]
      BY <2>2
    <3> HIDE DEF a, s
    <3>3. a \o w[i][1] \in Seq(Nat)
      BY <2>3, <3>1, JoinTexts
    <3>4. a \o w[i][1] \o <<COLON, SPACE>> \in Seq(Nat)
      BY <3>1, <3>3, JoinTexts
    <3>5. a \o w[i][1] \o <<COLON, SPACE>> \o w[i][2] \in Seq(Nat)
      BY <2>3, <3>4, JoinTexts
    <3> QED
      BY <3>2, <3>5
  <2>6. s = [i \in 1 .. n |-> s[i]]
    BY <2>2
  <2> HIDE DEF s
  <2>7. s \in Seq(Seq(Nat)) /\ Len(s) = n /\ DOMAIN s = 1 .. n
    BY <2>2, <2>5, <2>6, TextList
  <2>8. FlattenSeq(s) \in Seq(Nat)
    <3>1. CASE n = 0
      <4>1. FlattenSeq(s) = s /\ s = <<>>
        BY <2>7, <3>1 DEF FlattenSeq
      <4> QED
        BY <4>1
    <3>2. CASE n # 0
      <4>1. Joined(Nat, FlattenSeq(s), s, Ends(Lens(s)), n)
        BY <2>2, <2>5, <2>7, <3>2, FlattenFacts
      <4> QED
        BY <4>1 DEF Joined
    <3> QED
      BY <3>1, <3>2
  <2>9. <<BRACE>> \in Seq(Nat)
    BY DEF BRACE
  <2> QED
    BY <2>4, <2>8, <2>9, JoinTexts
<1> QED
  BY <1>1, <1>2

\* "key: description".
LEMMA DescribedText ==
    ASSUME NEW o \in Seq(Nat) \X Seq(Nat)
    PROVE  Described(o) \in Seq(Nat)
<1>1. o[1] \in Seq(Nat) /\ o[2] \in Seq(Nat) /\ <<COLON, SPACE>> \in Seq(Nat)
  BY DEF COLON, SPACE
<1>2. o[1] \o <<COLON, SPACE>> \in Seq(Nat)
  BY <1>1, JoinTexts
<1>3. o[1] \o <<COLON, SPACE>> \o o[2] \in Seq(Nat)
  BY <1>1, <1>2, JoinTexts
<1> QED
  BY <1>1, <1>3 DEF Described

\* A yes/no question's own descriptions.
LEMMA PickText ==
    ASSUME NEW q \in Question, NEW key, NEW default \in Seq(Nat)
    PROVE  pick(q, key, default) \in Seq(Nat)
<1> DEFINE options == q.criteria.options
           given == IF q.criteria.kind # "named" THEN {} ELSE {i \in DOMAIN options : options[i][1] = <<key>>}
<1>1. CASE given = {}
  BY <1>1 DEF pick
<1>2. CASE given # {}
  <2>1. q.criteria.kind = "named" /\ q.criteria \in Criteria
    BY <1>2 DEF Question
  <2>2. options \in Seq(Seq(Nat) \X Seq(Nat))
    BY <2>1 DEF Criteria, Text
  <2>3. given \in SUBSET Nat /\ given \subseteq DOMAIN options
    BY <2>2
  <2>4. Min(given) \in given
    <3> HIDE DEF given
    <3>1. \E x \in given : \A y \in given : x <= y
      BY <1>2, <2>3, LeastNat
    <3> QED
      BY <3>1 DEF Min
  <2>5. options[Min(given)][2] \in Seq(Nat)
    <3>1. Min(given) \in DOMAIN options
      BY <2>3, <2>4
    <3> HIDE DEF given, options
    <3>2. options[Min(given)] \in Seq(Nat) \X Seq(Nat)
      BY <2>2, <3>1
    <3> QED
      BY <3>2
  <2>6. pick(q, key, default) = IF options[Min(given)][2] = <<>> THEN default ELSE options[Min(given)][2]
    BY <1>2 DEF pick
  <2> HIDE DEF given, options
  <2> QED
    BY <2>5, <2>6
<1> QED
  BY <1>1, <1>2

\* The options shown are texts, one per label.
LEMMA OptionTexts ==
    ASSUME NEW q \in Question, ~(Len(option_texts(q)) < 2)
    PROVE  option_texts(q) \in Seq(Seq(Nat)) /\ Len(option_texts(q)) = Len(labels(q))
<1> DEFINE options == q.criteria.options
           n == Len(options)
           t == CASE q.qtype = "noul" ->
                        << <<FALSE_WORD, COLON, SPACE>> \o pick(q, FALSE_WORD, <<NO>>),
                           <<TRUE_WORD, COLON, SPACE>> \o pick(q, TRUE_WORD, <<YES>>) >>
                   [] q.qtype = "choice" /\ q.criteria.kind = "named" ->
                        [i \in DOMAIN options |-> Described(options[i])]
                   [] q.qtype = "choice" /\ q.criteria.kind = "list" -> options
                   [] q.qtype = "score" /\ q.criteria.kind = "named" ->
                        [i \in DOMAIN options |-> LevelPrefix(i) \o Described(options[i])]
                   [] q.qtype = "score" /\ q.criteria.kind = "list" ->
                        [i \in DOMAIN options |-> LevelPrefix(i) \o options[i]]
                   [] q.qtype # "noul" /\ q.criteria.kind = "none" -> <<>>
<1>1. option_texts(q) = IF Len(t) < 2 THEN <<>> ELSE t
  BY DEF option_texts
<1>2. q.qtype \in {"choice", "score", "noul"} /\ q.criteria \in Criteria
  BY DEF Question
<1>3. option_texts(q) = t
  <2> HIDE DEF t
  <2>1. Len(<<>>) = 0
    OBVIOUS
  <2> QED
    BY <1>1, <2>1
<1>4. /\ q.criteria.kind \in {"named", "list", "none"}
      /\ q.criteria.kind = "named" => options \in Seq(Seq(Nat) \X Seq(Nat))
      /\ q.criteria.kind = "list" => options \in Seq(Seq(Nat))
  BY <1>2 DEF Criteria, Text
<1>5. \A i \in Nat : i >= 1 => LevelPrefix(i) \in Seq(Nat)
  BY DEF LevelPrefix, LEVEL, SPACE, Digit, COLON
<1>6. CASE q.qtype = "noul"
  <2> DEFINE a == <<FALSE_WORD, COLON, SPACE>> \o pick(q, FALSE_WORD, <<NO>>)
             b == <<TRUE_WORD, COLON, SPACE>> \o pick(q, TRUE_WORD, <<YES>>)
  <2>1. <<NO>> \in Seq(Nat) /\ <<YES>> \in Seq(Nat)
    BY DEF NO, YES
  <2>2. <<FALSE_WORD, COLON, SPACE>> \in Seq(Nat) /\ <<TRUE_WORD, COLON, SPACE>> \in Seq(Nat)
    BY DEF FALSE_WORD, TRUE_WORD, COLON, SPACE
  <2>3. a \in Seq(Nat) /\ b \in Seq(Nat)
    BY <2>1, <2>2, PickText, JoinTexts
  <2>4. t = <<a, b>> /\ labels(q) = <<<<FALSE_WORD>>, <<TRUE_WORD>>>>
    BY <1>6 DEF labels
  <2> HIDE DEF a, b, t
  <2> QED
    BY <1>3, <2>3, <2>4
<1>7. CASE q.qtype # "noul" /\ q.criteria.kind = "named"
  <2>1. options \in Seq(Seq(Nat) \X Seq(Nat))
    BY <1>4, <1>7
  <2>2. n \in Nat /\ DOMAIN options = 1 .. n /\ \A i \in 1 .. n : Described(options[i]) \in Seq(Nat)
    BY <2>1, DescribedText, SMTT(40)
  <2>3. labels(q) = [i \in DOMAIN options |-> options[i][1]]
    BY <1>7 DEF labels
  <2>4. Len(labels(q)) = n
    BY <2>2, <2>3
  <2>5. CASE q.qtype = "choice"
    <3>1. t = [i \in DOMAIN options |-> Described(options[i])]
      BY <1>7, <2>5
    <3>2. t = [i \in 1 .. n |-> t[i]] /\ \A i \in 1 .. n : t[i] \in Seq(Nat)
      <4> HIDE DEF t, n, options
      <4> QED
        BY <2>2, <3>1
    <3> HIDE DEF t, n, options
    <3>3. t \in Seq(Seq(Nat)) /\ Len(t) = n
      BY <2>2, <3>2, TextList
    <3> QED
      BY <1>3, <2>4, <3>3
  <2>6. CASE q.qtype = "score"
    <3>1. t = [i \in DOMAIN options |-> LevelPrefix(i) \o Described(options[i])]
      BY <1>7, <2>6
    <3>2. t = [i \in 1 .. n |-> t[i]] /\ \A i \in 1 .. n : t[i] \in Seq(Nat)
      <4> HIDE DEF t, n, options
      <4>1. \A i \in 1 .. n : LevelPrefix(i) \o Described(options[i]) \in Seq(Nat)
        BY <1>5, <2>2, JoinTexts
      <4> QED
        BY <2>2, <3>1, <4>1
    <3> HIDE DEF t, n, options
    <3>3. t \in Seq(Seq(Nat)) /\ Len(t) = n
      BY <2>2, <3>2, TextList
    <3> QED
      BY <1>3, <2>4, <3>3
  <2> QED
    BY <1>2, <1>7, <2>5, <2>6
<1>8. CASE q.qtype # "noul" /\ q.criteria.kind = "list"
  <2>1. options \in Seq(Seq(Nat))
    BY <1>4, <1>8
  <2>2. n \in Nat /\ DOMAIN options = 1 .. n /\ \A i \in 1 .. n : options[i] \in Seq(Nat)
    BY <2>1
  <2>3. CASE q.qtype = "choice"
    <3>1. t = options /\ labels(q) = options
      BY <1>8, <2>3 DEF labels
    <3> QED
      BY <1>3, <2>1, <3>1
  <2>4. CASE q.qtype = "score"
    <3>1. t = [i \in DOMAIN options |-> LevelPrefix(i) \o options[i]]
      BY <1>8, <2>4
    <3>2. labels(q) = [i \in DOMAIN options |-> <<Digit(i - 1)>>]
      BY <1>8, <2>4 DEF labels
    <3>3. Len(labels(q)) = n
      BY <2>2, <3>2
    <3>4. t = [i \in 1 .. n |-> t[i]] /\ \A i \in 1 .. n : t[i] \in Seq(Nat)
      <4> HIDE DEF t, n, options
      <4>1. \A i \in 1 .. n : LevelPrefix(i) \o options[i] \in Seq(Nat)
        BY <1>5, <2>2, JoinTexts
      <4> QED
        BY <2>2, <3>1, <4>1
    <3> HIDE DEF t, n, options
    <3>5. t \in Seq(Seq(Nat)) /\ Len(t) = n
      BY <2>2, <3>4, TextList
    <3> QED
      BY <1>3, <3>3, <3>5
  <2> QED
    BY <1>2, <1>8, <2>3, <2>4
<1>9. CASE q.qtype # "noul" /\ q.criteria.kind = "none"
  <2>1. t = <<>>
    BY <1>2, <1>9
  <2> HIDE DEF t
  <2> QED
    BY <1>3, <2>1
<1> QED
  BY <1>4, <1>6, <1>7, <1>8, <1>9

-----------------------------------------------------------------------------
(* The builder.                                                            *)

\* An option's row: its marker, and then nothing that is one.
Marked(row) ==
    row \in Seq(Int) /\ Len(row) >= 1 /\ row[1] = MASK /\ \A k \in 2 .. Len(row) : row[k] \in Nat

\* A list in which there is no mask token.
Unmarked(s) == s \in Seq(Int) /\ \A k \in 1 .. Len(s) : s[k] # MASK

LEMMA LimitTypes ==
    /\ config.max_len \in Nat /\ head_max \in Nat
    /\ \A a, b \in Nat : saturating_sub(a, b) \in Nat /\ Max({a, b}) \in Nat
<1>1. config.max_len \in Nat /\ config.head_max_len \in Nat
  BY FormatAssumption DEF config, from_json, or_default, Default
<1>2. \A a, b \in Nat : Min({a, b}) \in Nat /\ Max({a, b}) \in Nat
  <2> TAKE a, b \in Nat
  <2>1. \E x \in {a, b} : \A y \in {a, b} : x <= y
    OBVIOUS
  <2>2. \E x \in {a, b} : \A y \in {a, b} : x >= y
    OBVIOUS
  <2> QED
    BY <2>1, <2>2 DEF Min, Max
<1> QED
  BY <1>1, <1>2 DEF head_max, saturating_sub

LEMMA ShareNat == \A a, n \in Nat : n >= 2 => a \div n \in Nat
  OBVIOUS

\* Plain tokens are not markers.
LEMMA PlainUnmarked ==
    ASSUME NEW s \in Seq(Nat)
    PROVE  Unmarked(s)
<1>1. s \in Seq(Int) /\ \A k \in 1 .. Len(s) : s[k] \in Nat
  OBVIOUS
<1> QED
  BY <1>1 DEF Unmarked, MASK

LEMMA JoinUnmarked ==
    ASSUME NEW s, NEW t, Unmarked(s), Unmarked(t)
    PROVE  Unmarked(s \o t) /\ Len(s \o t) = Len(s) + Len(t)
<1>1. s \in Seq(Int) /\ t \in Seq(Int)
  BY DEF Unmarked
<1>2. /\ s \o t \in Seq(Int) /\ Len(s \o t) = Len(s) + Len(t)
      /\ \A i \in 1 .. Len(s) : (s \o t)[i] = s[i]
      /\ \A i \in (Len(s) + 1) .. (Len(s) + Len(t)) : (s \o t)[i] = t[i - Len(s)]
  BY ONLY <1>1
<1>3. ASSUME NEW i \in 1 .. Len(s \o t) PROVE (s \o t)[i] # MASK
  <2>1. Len(s) \in Nat /\ Len(t) \in Nat
    BY <1>1
  <2>2. CASE i <= Len(s)
    BY <1>2, <2>1, <2>2 DEF Unmarked
  <2>3. CASE ~(i <= Len(s))
    <3>1. i \in (Len(s) + 1) .. (Len(s) + Len(t)) /\ i - Len(s) \in 1 .. Len(t)
      BY <1>2, <2>1, <2>3
    <3> QED
      BY <1>2, <3>1 DEF Unmarked
  <2> QED
    BY <2>2, <2>3
<1> QED
  BY <1>2, <1>3 DEF Unmarked

LEMMA OptionRowMarked ==
    ASSUME NEW text \in Seq(Nat)
    PROVE  Marked(OptionRow(text))
<1> DEFINE r == truncate(encode(<<SPACE>> \o scrub(text)), OPTION_TOKEN_CAP)
<1>1. r \in Seq(Nat)
  BY PlainText, TruncateFacts, FormatAssumption
<1>2. OptionRow(text) = <<MASK>> \o r
  BY DEF OptionRow
<1> HIDE DEF r
<1>3. r \in Seq(Int) /\ \A k \in 1 .. Len(r) : r[k] \in Nat
  BY <1>1
<1>4. MASK \in Int
  BY DEF MASK
<1>5. /\ <<MASK>> \o r \in Seq(Int) /\ Len(<<MASK>> \o r) = Len(r) + 1 /\ (<<MASK>> \o r)[1] = MASK
      /\ \A i \in 2 .. (Len(r) + 1) : (<<MASK>> \o r)[i] = r[i - 1]
  BY <1>3, <1>4, ConsFacts
<1>6. Len(r) \in Nat
  BY <1>3
<1>7. \A i \in 2 .. (Len(r) + 1) : i - 1 \in 1 .. Len(r)
  BY <1>6
<1> QED
  BY <1>2, <1>3, <1>5, <1>6, <1>7 DEF Marked

LEMMA TruncateMarked ==
    ASSUME NEW row, Marked(row), NEW n \in Nat, n >= 1
    PROVE  Marked(truncate(row, n))
<1> DEFINE t == truncate(row, n)
<1>1. row \in Seq(Int) /\ Len(row) >= 1 /\ row[1] = MASK /\ \A k \in 2 .. Len(row) : row[k] \in Nat
  BY DEF Marked
<1>2. /\ t \in Seq(Int) /\ Len(t) = (IF n <= Len(row) THEN n ELSE Len(row))
      /\ \A i \in 1 .. Len(t) : t[i] = row[i]
  BY <1>1, TruncateFacts
<1> HIDE DEF t
<1>3. Len(row) \in Nat /\ Len(t) \in Nat /\ Len(t) >= 1 /\ Len(t) <= Len(row)
  BY <1>1, <1>2
<1> QED
  BY <1>1, <1>2, <1>3 DEF Marked, t

\* What is left of the options when the question is not refused.
LEMMA KeptMarked ==
    ASSUME NEW options \in Seq(Seq(Nat)), Len(options) >= 2,
           ~(Crowded(OptionRows(options)) /\ Share(OptionRows(options)) < MIN_TOKENS_PER_OPTION)
    PROVE  /\ Len(Kept(OptionRows(options))) = Len(options)
           /\ DOMAIN Kept(OptionRows(options)) = 1 .. Len(options)
           /\ \A i \in 1 .. Len(options) : Marked(Kept(OptionRows(options))[i])
<1> DEFINE n == Len(options)
           f == [i \in DOMAIN options |-> OptionRow(options[i])]
           rows == OptionRows(options)
<1>1. n \in Nat /\ DOMAIN options = 1 .. n /\ \A i \in 1 .. n : options[i] \in Seq(Nat)
  OBVIOUS
<1>2. f = [i \in 1 .. n |-> f[i]] /\ \A i \in 1 .. n : f[i] = OptionRow(options[i])
  BY <1>1
<1>3. rows = f \o <<>>
  BY DEF OptionRows
<1> HIDE DEF f, n
<1>4. rows = f /\ Len(rows) = n /\ DOMAIN rows = 1 .. n
  BY <1>1, <1>2, <1>3, Listed
<1>5. \A i \in 1 .. n : Marked(rows[i])
  BY <1>1, <1>2, <1>4, OptionRowMarked
<1> HIDE DEF rows
<1>6. CASE ~Crowded(rows)
  BY <1>4, <1>5, <1>6 DEF Kept, n, rows
<1>7. CASE Crowded(rows)
  <2> DEFINE m == Share(rows)
             g == [i \in DOMAIN rows |-> truncate(rows[i], m)]
  <2>1. m \in Nat /\ m >= 1
    <3>1. saturating_sub(head_max, MIN_OPTION_BUDGET) \in Nat
      BY LimitTypes, FormatAssumption
    <3>2. n >= 2
      BY DEF n
    <3>3. m = saturating_sub(head_max, MIN_OPTION_BUDGET) \div n
      BY <1>4 DEF Share
    <3>4. m \in Nat
      <4>1. n \in Nat
        BY <1>1
      <4> HIDE DEF m
      <4> QED
        BY ONLY <3>1, <3>2, <3>3, <4>1, ShareNat
    <3>5. ~(m < MIN_TOKENS_PER_OPTION)
      BY <1>7 DEF rows
    <3> HIDE DEF m
    <3> QED
      BY <3>4, <3>5, FormatAssumption
  <2>2. g = [i \in 1 .. n |-> g[i]] /\ \A i \in 1 .. n : g[i] = truncate(rows[i], m)
    BY <1>4
  <2>3. Kept(rows) = g \o <<>>
    BY <1>7 DEF Kept
  <2> HIDE DEF g, m
  <2>4. Kept(rows) = g /\ Len(g) = n /\ DOMAIN g = 1 .. n
    BY <1>1, <2>2, <2>3, Listed
  <2>5. \A i \in 1 .. n : Marked(g[i])
    BY <1>5, <2>1, <2>2, TruncateMarked
  <2> QED
    BY <2>4, <2>5 DEF n, rows
<1> QED
  BY <1>6, <1>7

\* The question before the options.
LEMMA StartUnmarked ==
    ASSUME NEW q \in Question, NEW kept, TotalLen(kept) \in Nat
    PROVE  Unmarked(Start(q, kept))
<1> DEFINE room == Max({saturating_sub(head_max, TotalLen(kept)), MIN_HEAD_TOKENS})
           text == encode(<<SPACE>> \o scrub(instruction_text(q)))
           type == <<60 + index(q.qtype)>>
<1>1. room \in Nat
  BY LimitTypes, FormatAssumption
<1>2. q.instructions \in Value /\ q.qtype \in {"choice", "score", "noul"}
  BY DEF Question
<1>3. text \in Seq(Nat)
  BY <1>2, JsonText, PlainText DEF instruction_text
<1>4. type \in Seq(Nat)
  BY <1>2 DEF index
<1> HIDE DEF room, text, type
<1>5. truncate(type \o text, room) \in Seq(Nat)
  BY <1>1, <1>3, <1>4, JoinTexts, TruncateFacts
<1>6. Start(q, kept) = <<CLS>> \o truncate(type \o text, room) \o <<SEP>>
  BY DEF Start, room, text, type
<1>7. Unmarked(<<CLS>>) /\ Unmarked(<<SEP>>)
  BY DEF Unmarked, CLS, SEP, MASK
<1> QED
  BY <1>5, <1>6, <1>7, PlainUnmarked, JoinUnmarked

\* The state after them.
LEMMA SeenPlain ==
    ASSUME NEW ids \in Seq(Nat), NEW room \in Nat
    PROVE  Seen(ids, room) \in Seq(Nat)
<1>1. Len(ids) \in Nat
  OBVIOUS
<1>2. CASE Len(ids) <= room
  BY <1>2 DEF Seen
<1>3. CASE ~(Len(ids) <= room)
  <2>1. SubSeq(ids, 1, room) \in Seq(Nat)
    BY <1>1, <1>3
  <2>2. SubSeq(ids, Len(ids) - room + 1, Len(ids)) \in Seq(Nat)
    BY <1>1, <1>3
  <2> QED
    BY <1>3, <2>1, <2>2 DEF Seen
<1> QED
  BY <1>2, <1>3

\* Where the mask tokens of a list are.
MarkSet(s) == {p \in 1 .. Len(s) : s[p] = MASK}

LEMMA MarksAround ==
    ASSUME NEW s, Unmarked(s), NEW t \in Seq(Int)
    PROVE  /\ t \o s \in Seq(Int) /\ MarkSet(t \o s) = MarkSet(t)
           /\ s \o t \in Seq(Int) /\ MarkSet(s \o t) = {Len(s) + p : p \in MarkSet(t)}
<1>1. s \in Seq(Int) /\ Len(s) \in Nat /\ Len(t) \in Nat /\ \A k \in 1 .. Len(s) : s[k] # MASK
  BY DEF Unmarked
<1>2. /\ t \o s \in Seq(Int) /\ Len(t \o s) = Len(t) + Len(s)
      /\ \A i \in 1 .. (Len(t) + Len(s)) : (t \o s)[i] = IF i <= Len(t) THEN t[i] ELSE s[i - Len(t)]
  BY ONLY <1>1, t \in Seq(Int)
<1>3. /\ s \o t \in Seq(Int) /\ Len(s \o t) = Len(s) + Len(t)
      /\ \A i \in 1 .. (Len(s) + Len(t)) : (s \o t)[i] = IF i <= Len(s) THEN s[i] ELSE t[i - Len(s)]
  BY ONLY <1>1, t \in Seq(Int)
<1>4. ASSUME NEW p PROVE p \in MarkSet(t \o s) <=> p \in MarkSet(t)
  <2>1. ASSUME p \in MarkSet(t \o s) PROVE p \in MarkSet(t)
    <3>1. p \in 1 .. (Len(t) + Len(s)) /\ (t \o s)[p] = MASK
      BY <1>2, <2>1 DEF MarkSet
    <3>2. ~(p <= Len(t)) => p - Len(t) \in 1 .. Len(s)
      BY <1>1, <3>1
    <3>3. p <= Len(t)
      BY <1>1, <1>2, <3>1, <3>2
    <3> QED
      BY <1>1, <1>2, <3>1, <3>3 DEF MarkSet
  <2>2. ASSUME p \in MarkSet(t) PROVE p \in MarkSet(t \o s)
    <3>1. p \in 1 .. Len(t) /\ t[p] = MASK
      BY <2>2 DEF MarkSet
    <3>2. p \in 1 .. (Len(t) + Len(s)) /\ p <= Len(t)
      BY <1>1, <3>1
    <3> QED
      BY <1>2, <3>1, <3>2 DEF MarkSet
  <2> QED
    BY <2>1, <2>2
<1>5. ASSUME NEW p PROVE p \in MarkSet(s \o t) <=> \E k \in MarkSet(t) : p = Len(s) + k
  <2>1. ASSUME p \in MarkSet(s \o t) PROVE \E k \in MarkSet(t) : p = Len(s) + k
    <3>1. p \in 1 .. (Len(s) + Len(t)) /\ (s \o t)[p] = MASK
      BY <1>3, <2>1 DEF MarkSet
    <3>2. ~(p <= Len(s))
      BY <1>1, <1>3, <3>1
    <3>3. p - Len(s) \in 1 .. Len(t) /\ p = Len(s) + (p - Len(s)) /\ t[p - Len(s)] = MASK
      BY <1>1, <1>3, <3>1, <3>2
    <3> QED
      BY <3>3 DEF MarkSet
  <2>2. ASSUME NEW k \in MarkSet(t), p = Len(s) + k PROVE p \in MarkSet(s \o t)
    <3>1. k \in 1 .. Len(t) /\ t[k] = MASK
      BY DEF MarkSet
    <3>2. p \in 1 .. (Len(s) + Len(t)) /\ ~(p <= Len(s)) /\ p - Len(s) = k
      BY <1>1, <2>2, <3>1
    <3> QED
      BY <1>3, <3>1, <3>2 DEF MarkSet
  <2> QED
    BY <2>1, <2>2
<1>6. MarkSet(t \o s) = MarkSet(t)
  BY <1>4
<1>7. MarkSet(s \o t) = {Len(s) + p : p \in MarkSet(t)}
  BY <1>5
<1> QED
  BY <1>2, <1>3, <1>6, <1>7

\* Of the options one after another, the first tokens are the markers.
LEMMA MarksOfOptions ==
    ASSUME NEW n \in Nat \ {0}, NEW kept, Len(kept) = n, DOMAIN kept = 1 .. n,
           \A i \in 1 .. n : Marked(kept[i])
    PROVE  LET e == Ends(Lens(kept)) IN
           /\ e \in [0 .. n -> Nat]
           /\ \A i, j \in 0 .. n : i < j => e[i] < e[j]
           /\ FlattenSeq(kept) \in Seq(Int)
           /\ MarkSet(FlattenSeq(kept)) = {e[i - 1] + 1 : i \in 1 .. n}
<1> DEFINE e == Ends(Lens(kept))
           t == FlattenSeq(kept)
           lens == [k \in 1 .. n |-> Len(kept[k])]
<1>1. \A i \in 1 .. n : /\ kept[i] \in Seq(Int) /\ Len(kept[i]) \in Nat /\ Len(kept[i]) >= 1
                        /\ kept[i][1] = MASK /\ \A k \in 2 .. Len(kept[i]) : kept[i][k] # MASK
  BY DEF Marked, MASK
<1>2. Sliced(e, lens, n) /\ Joined(Int, t, kept, e, n)
  BY <1>1, FlattenFacts
<1>3. \A i \in 1 .. n : lens[i] = Len(kept[i])
  OBVIOUS
<1> HIDE DEF e, t, lens
<1>4. /\ e \in [0 .. n -> Nat] /\ e[0] = 0
      /\ \A k \in 1 .. n : e[k] = e[k - 1] + Len(kept[k])
      /\ \A j, k \in 0 .. n : j <= k => e[j] <= e[k]
      /\ \A p \in 1 .. e[n] : \E k \in 1 .. n : e[k - 1] < p /\ p <= e[k]
  BY <1>2, <1>3 DEF Sliced
<1>5. /\ t \in Seq(Int) /\ Len(t) = e[n]
      /\ \A k \in 1 .. n : \A i \in 1 .. Len(kept[k]) :
            e[k - 1] + i \in 1 .. Len(t) /\ t[e[k - 1] + i] = kept[k][i]
  BY <1>2 DEF Joined
<1>6. ASSUME NEW i \in 0 .. n, NEW j \in 0 .. n, i < j PROVE e[i] < e[j]
  <2>1. i + 1 \in 1 .. n /\ i + 1 - 1 = i /\ i + 1 \in 0 .. n /\ i + 1 <= j
    BY <1>6
  <2>2. e[i + 1] = e[i + 1 - 1] + Len(kept[i + 1]) /\ Len(kept[i + 1]) >= 1 /\ Len(kept[i + 1]) \in Nat
    BY ONLY <1>1, <1>4, <2>1
  <2>3. e[i + 1] <= e[j] /\ e[i] \in Nat /\ e[j] \in Nat /\ e[i + 1] \in Nat
    BY <1>4, <2>1
  <2> QED
    BY <2>1, <2>2, <2>3
<1>7. ASSUME NEW p PROVE p \in MarkSet(t) <=> \E i \in 1 .. n : p = e[i - 1] + 1
  <2>1. ASSUME p \in MarkSet(t) PROVE \E i \in 1 .. n : p = e[i - 1] + 1
    <3>1. p \in 1 .. e[n] /\ t[p] = MASK
      BY <1>5, <2>1 DEF MarkSet
    <3>2. PICK k \in 1 .. n : e[k - 1] < p /\ p <= e[k]
      BY <1>4, <3>1
    <3> DEFINE d == p - e[k - 1]
    <3>3. e[k - 1] \in Nat /\ e[k] = e[k - 1] + Len(kept[k]) /\ Len(kept[k]) \in Nat
      <4>1. k - 1 \in 0 .. n
        BY <3>2
      <4> QED
        BY <1>1, <1>4, <3>2, <4>1
    <3>4. d \in 1 .. Len(kept[k]) /\ p = e[k - 1] + d
      BY <3>1, <3>2, <3>3
    <3> HIDE DEF d
    <3>5. kept[k][d] = MASK
      BY <1>5, <3>1, <3>4
    <3>6. d = 1
      BY <1>1, <3>3, <3>4, <3>5
    <3> QED
      BY <3>4, <3>6
  <2>2. ASSUME NEW i \in 1 .. n, p = e[i - 1] + 1 PROVE p \in MarkSet(t)
    <3>1. 1 \in 1 .. Len(kept[i]) /\ kept[i][1] = MASK
      BY <1>1
    <3>2. p \in 1 .. Len(t) /\ t[p] = kept[i][1]
      BY <1>5, <2>2, <3>1
    <3> QED
      BY <3>1, <3>2 DEF MarkSet
  <2> QED
    BY <2>1, <2>2
<1>8. MarkSet(t) = {e[i - 1] + 1 : i \in 1 .. n}
  BY <1>7
<1> QED
  BY <1>4, <1>5, <1>6, <1>8 DEF e, t

\* Truncation keeps the marks before the cut.
LEMMA MarksTruncated ==
    ASSUME NEW s \in Seq(Int), NEW m \in Nat
    PROVE  /\ truncate(s, m) \in Seq(Int)
           /\ MarkSet(truncate(s, m)) = {p \in MarkSet(s) : p <= Len(truncate(s, m))}
<1> DEFINE t == truncate(s, m)
<1>1. /\ t \in Seq(Int) /\ Len(t) = (IF m <= Len(s) THEN m ELSE Len(s))
      /\ \A i \in 1 .. Len(t) : t[i] = s[i]
  BY TruncateFacts
<1> HIDE DEF t
<1>2. Len(s) \in Nat /\ Len(t) \in Nat /\ Len(t) <= Len(s)
  BY <1>1
<1>3. ASSUME NEW p PROVE p \in MarkSet(t) <=> p \in MarkSet(s) /\ p <= Len(t)
  <2>1. p \in 1 .. Len(t) <=> p \in 1 .. Len(s) /\ p <= Len(t)
    BY <1>2
  <2> QED
    BY <1>1, <2>1 DEF MarkSet
<1>4. MarkSet(t) = {p \in MarkSet(s) : p <= Len(t)}
  BY <1>3
<1> QED
  BY <1>1, <1>4 DEF t

\* The positions of the mask tokens, in order.
LEMMA MaskPositionsAre ==
    ASSUME NEW t \in Seq(Int), NEW ms \in Seq(Nat),
           \A i, j \in 1 .. Len(ms) : i < j => ms[i] < ms[j],
           \A x : InList(ms, x) <=> x \in MarkSet(t)
    PROVE  MaskPositions(t) = ms
<1> DEFINE n == Len(t)
           q == [i \in DOMAIN t |-> i]
           S == {i \in DOMAIN t : t[i] # MASK}
           w == Without(q, S)
<1>1. n \in Nat /\ DOMAIN t = 1 .. n
  OBVIOUS
<1>2. q \in Seq(Nat) /\ Len(q) = n /\ \A i \in 1 .. n : q[i] = i
  <2>1. q \in [1 .. n -> Nat] /\ \A i \in 1 .. n : q[i] = i
    BY <1>1
  <2> HIDE DEF q, n
  <2> QED
    BY <1>1, <2>1
<1>3. MaskPositions(t) = w
  BY DEF MaskPositions
<1> HIDE DEF q, S
<1>4. /\ w \in Seq(Nat)
      /\ \A x : InList(w, x) <=> InList(q, x) /\ x \notin S
      /\ \A i, j \in 1 .. Len(w) : i < j =>
            \E k, l \in 1 .. Len(q) : k < l /\ w[i] = q[k] /\ w[j] = q[l]
  BY <1>2, WithoutFacts
<1> HIDE DEF w
<1>5. ASSUME NEW i \in 1 .. Len(w), NEW j \in 1 .. Len(w), i < j PROVE w[i] < w[j]
  <2>1. PICK k, l \in 1 .. Len(q) : k < l /\ w[i] = q[k] /\ w[j] = q[l]
    BY <1>4, <1>5
  <2>2. q[k] = k /\ q[l] = l
    BY <1>2
  <2> QED
    BY <2>1, <2>2
<1>6. ASSUME NEW x PROVE InList(w, x) <=> InList(ms, x)
  <2>1. InList(q, x) <=> x \in 1 .. n
    BY <1>2 DEF InList
  <2>2. x \in 1 .. n => (x \notin S <=> t[x] = MASK)
    BY <1>1 DEF S
  <2> QED
    BY <1>4, <2>1, <2>2 DEF MarkSet
<1>7. w = ms
  BY <1>4, <1>5, <1>6, IncreasingEqual
<1> QED
  BY <1>3, <1>7

\* What a question's sequence promises: the markers, counted from zero, are
\* where the mask tokens are, one per label.
BuiltRight(b, q) ==
    /\ b.tokens \in Seq(Int) /\ b.markers \in Seq(Nat)
    /\ [m \in DOMAIN b.markers |-> b.markers[m] + 1] = MaskPositions(b.tokens)
    /\ Len(b.markers) = Len(labels(q))

LEMMA BuildMarks ==
    ASSUME NEW q \in Question, NEW state \in Seq(Nat), ~build(q, option_texts(q), state).refused
    PROVE  BuiltRight(build(q, option_texts(q), state), q)
<1> DEFINE options == option_texts(q)
           rows == OptionRows(options)
           kept == Kept(rows)
           start == Start(q, kept)
           flat == FlattenSeq(kept)
           upto == start \o flat \o <<SEP>>
           seen == Seen(encode(scrub(state)), StateRoom(Len(upto)))
           whole == upto \o seen \o <<SEP>>
           tokens == truncate(whole, config.max_len)
           markers == Markers(start, kept)
           e == Ends(Lens(kept))
           n == Len(options)
           b == build(q, options, state)
<1>1. /\ ~(Len(options) < 2)
      /\ ~(Crowded(rows) /\ Share(rows) < MIN_TOKENS_PER_OPTION)
      /\ ~\E i \in DOMAIN markers : markers[i] >= Len(tokens)
      /\ b.tokens = tokens /\ b.markers = markers
  <2> DEFINE Out == \/ Len(options) < 2
                    \/ Crowded(rows) /\ Share(rows) < MIN_TOKENS_PER_OPTION
                    \/ \E i \in DOMAIN markers : markers[i] >= Len(tokens)
  <2>1. b = IF Out THEN Refused ELSE [refused |-> FALSE, tokens |-> tokens, markers |-> markers]
    BY DEF build
  <2> HIDE DEF Out
  <2>2. ~Out
    BY <2>1 DEF Refused
  <2>3. b = [refused |-> FALSE, tokens |-> tokens, markers |-> markers]
    BY <2>1, <2>2
  <2> HIDE DEF b, tokens, markers
  <2>4. b.tokens = tokens /\ b.markers = markers
    BY <2>3
  <2> QED
    BY <2>2, <2>4 DEF Out
<1> HIDE DEF b, markers
<1>2. options \in Seq(Seq(Nat)) /\ n \in Nat /\ n >= 2 /\ n = Len(labels(q))
  <2>1. options \in Seq(Seq(Nat)) /\ n = Len(labels(q))
    BY <1>1, OptionTexts
  <2> QED
    BY <1>1, <2>1
<1> HIDE DEF options
<1>3. Len(kept) = n /\ DOMAIN kept = 1 .. n /\ \A i \in 1 .. n : Marked(kept[i])
  BY <1>1, <1>2, KeptMarked
<1> HIDE DEF kept, n
<1>4. /\ e \in [0 .. n -> Nat]
      /\ \A i, j \in 0 .. n : i < j => e[i] < e[j]
      /\ flat \in Seq(Int)
      /\ MarkSet(flat) = {e[i - 1] + 1 : i \in 1 .. n}
  <2>1. n \in Nat \ {0}
    BY <1>2
  <2> QED
    BY ONLY <1>3, <2>1, MarksOfOptions
<1>5. Unmarked(start)
  <2>1. TotalLen(kept) = e[n]
    BY <1>3 DEF TotalLen
  <2>2. TotalLen(kept) \in Nat
    BY <1>2, <1>4, <2>1, SMTT(40)
  <2> QED
    BY <2>2, StartUnmarked
<1> DEFINE l == Len(start)
<1>6. start \in Seq(Int) /\ l \in Nat
  BY <1>5 DEF Unmarked
<1>7. Unmarked(<<SEP>>)
  BY DEF Unmarked, SEP, MASK
<1> HIDE DEF start, flat, e
<1>8. upto \in Seq(Int) /\ MarkSet(upto) = {l + p : p \in MarkSet(flat)}
  <2>1. start \o flat \in Seq(Int) /\ MarkSet(start \o flat) = {l + p : p \in MarkSet(flat)}
    BY <1>4, <1>5, MarksAround
  <2>2. upto \in Seq(Int) /\ MarkSet(upto) = MarkSet(start \o flat)
    BY <1>7, <2>1, MarksAround
  <2> QED
    BY <2>1, <2>2
<1> HIDE DEF upto, l
<1>9. Unmarked(seen)
  <2>1. Len(upto) \in Nat
    BY <1>8
  <2>2. StateRoom(Len(upto)) \in Nat
    <3>1. Len(upto) + 1 \in Nat
      BY <2>1
    <3> QED
      BY <3>1, LimitTypes DEF StateRoom
  <2>3. seen \in Seq(Nat)
    BY <2>2, PlainText, SeenPlain
  <2> HIDE DEF seen
  <2> QED
    BY <2>3, PlainUnmarked
<1> HIDE DEF seen
<1>10. whole \in Seq(Int) /\ MarkSet(whole) = MarkSet(upto)
  <2>1. upto \o seen \in Seq(Int) /\ MarkSet(upto \o seen) = MarkSet(upto)
    BY <1>8, <1>9, MarksAround
  <2>2. whole \in Seq(Int) /\ MarkSet(whole) = MarkSet(upto \o seen)
    BY <1>7, <2>1, MarksAround
  <2> QED
    BY <2>1, <2>2
<1> HIDE DEF whole
<1>11. tokens \in Seq(Int) /\ MarkSet(tokens) = {p \in MarkSet(whole) : p <= Len(tokens)}
  BY <1>10, LimitTypes, MarksTruncated
<1> HIDE DEF tokens
<1> DEFINE f == [i \in DOMAIN kept |-> Len(start) + Ends(Lens(kept))[i - 1]]
<1>12. /\ markers \in Seq(Nat) /\ Len(markers) = n
       /\ \A i \in 1 .. n : markers[i] = l + e[i - 1]
  <2>1. markers = f \o <<>>
    BY DEF markers, Markers
  <2>2. f = [i \in 1 .. n |-> f[i]] /\ \A i \in 1 .. n : f[i] = l + e[i - 1]
    BY <1>3 DEF l, e
  <2> HIDE DEF f
  <2>3. \A i \in 1 .. n : i - 1 \in 0 .. n
    BY <1>2
  <2>4. \A i \in 1 .. n : f[i] \in Nat
    BY <1>4, <1>6, <2>2, <2>3
  <2> QED
    BY <1>2, <2>1, <2>2, <2>4, TextList
<1> DEFINE ms == [m \in DOMAIN markers |-> markers[m] + 1]
<1>13. /\ ms \in Seq(Nat) /\ Len(ms) = n
       /\ \A i \in 1 .. n : ms[i] = l + e[i - 1] + 1
  <2>1. DOMAIN markers = 1 .. n
    BY <1>12
  <2>2. ms = [i \in 1 .. n |-> ms[i]] /\ \A i \in 1 .. n : ms[i] = markers[i] + 1 /\ ms[i] \in Nat
    BY <1>12, <2>1
  <2> HIDE DEF ms
  <2> QED
    BY <1>2, <1>12, <2>2, TextList
<1>14. ASSUME NEW x PROVE InList(ms, x) <=> x \in MarkSet(tokens)
  <2> HIDE DEF ms
  <2>1. ASSUME InList(ms, x) PROVE x \in MarkSet(tokens)
    <3>1. PICK i \in 1 .. n : x = l + e[i - 1] + 1
      BY <1>13, <2>1 DEF InList
    <3>2. e[i - 1] \in Nat
      <4>1. i - 1 \in 0 .. n
        BY <1>2
      <4> QED
        BY <1>4, <4>1
    <3>3. x = l + (e[i - 1] + 1)
      BY <1>6, <3>1, <3>2
    <3>4. e[i - 1] + 1 \in MarkSet(flat)
      BY <1>4, <3>1
    <3>5. x \in MarkSet(whole)
      BY <1>8, <1>10, <3>3, <3>4
    <3>6. i \in DOMAIN markers /\ markers[i] = l + e[i - 1]
      BY <1>12, <3>1
    <3>7. ~(markers[i] >= Len(tokens)) /\ Len(tokens) \in Nat
      BY <1>1, <1>11, <3>6
    <3>8. x <= Len(tokens)
      BY <1>6, <3>1, <3>2, <3>6, <3>7
    <3> QED
      BY <1>11, <3>5, <3>8
  <2>2. ASSUME x \in MarkSet(tokens) PROVE InList(ms, x)
    <3>1. x \in MarkSet(upto)
      BY <1>10, <1>11, <2>2
    <3>2. PICK p \in MarkSet(flat) : x = l + p
      BY <1>8, <3>1
    <3>3. PICK i \in 1 .. n : p = e[i - 1] + 1
      BY <1>4, <3>2
    <3>4. e[i - 1] \in Nat
      <4>1. i - 1 \in 0 .. n
        BY <1>2
      <4> QED
        BY <1>4, <4>1
    <3>5. x = ms[i]
      BY <1>6, <1>13, <3>2, <3>3, <3>4, SMTT(40)
    <3> QED
      BY <1>13, <3>5 DEF InList
  <2> QED
    BY <2>1, <2>2
<1>15. ASSUME NEW i \in 1 .. Len(ms), NEW j \in 1 .. Len(ms), i < j PROVE ms[i] < ms[j]
  <2> HIDE DEF ms
  <2>1. i \in 1 .. n /\ j \in 1 .. n /\ i - 1 \in 0 .. n /\ j - 1 \in 0 .. n /\ i - 1 < j - 1
    BY <1>2, <1>13, <1>15
  <2>2. e[i - 1] < e[j - 1] /\ e[i - 1] \in Nat /\ e[j - 1] \in Nat
    BY <1>4, <2>1
  <2>3. ms[i] = l + e[i - 1] + 1 /\ ms[j] = l + e[j - 1] + 1
    BY <1>13, <2>1
  <2> QED
    BY <1>6, <2>2, <2>3, SMTT(40)
<1>16. ms = MaskPositions(tokens)
  <2> HIDE DEF ms
  <2> QED
    BY <1>11, <1>13, <1>14, <1>15, MaskPositionsAre
<1>17. BuiltRight(b, q)
  BY <1>1, <1>2, <1>11, <1>12, <1>16 DEF BuiltRight
<1> QED
  BY <1>17 DEF b, options

-----------------------------------------------------------------------------
(* From the question to the queue.                                         *)

\* A body that was not turned down.
Asked(a) == a \in Asks /\ a.questions # <<>> /\ \A i \in DOMAIN Built(a) : ~Built(a)[i].refused

\* Its questions are built one by one.
LEMMA BuiltOneByOne ==
    ASSUME NEW a \in Asks
    PROVE  LET n == Len(a.questions) IN
           /\ n \in Nat /\ DOMAIN a.questions = 1 .. n /\ (n = 0 <=> a.questions = <<>>)
           /\ Len(Built(a)) = n /\ DOMAIN Built(a) = 1 .. n
           /\ \A i \in 1 .. n :
                 /\ a.questions[i].q \in Question
                 /\ Built(a)[i] = build(a.questions[i].q, option_texts(a.questions[i].q), state_text(a))
<1> DEFINE n == Len(a.questions)
           f == [i \in DOMAIN a.questions |->
                   build(a.questions[i].q, option_texts(a.questions[i].q), state_text(a))]
<1>1. IsList(a.questions) /\ \A i \in DOMAIN a.questions : a.questions[i].q \in Question
  BY DecisionAssumption DEF IsList
<1>2. n \in Nat /\ DOMAIN a.questions = 1 .. n
  BY <1>1, Places
<1>3. n = 0 <=> a.questions = <<>>
  <2> DEFINE A == ToSet(a.questions)
  <2>1. a.questions \in Seq(A)
    BY <1>1 DEF IsList
  <2> HIDE DEF A
  <2> QED
    BY <2>1
<1>4. f = [i \in 1 .. n |-> f[i]]
      /\ \A i \in 1 .. n : f[i] = build(a.questions[i].q, option_texts(a.questions[i].q), state_text(a))
  BY <1>2
<1>5. Built(a) = f \o <<>>
  BY DEF Built
<1> HIDE DEF f, n
<1>6. f \o <<>> = f /\ Len(f) = n /\ DOMAIN f = 1 .. n
  BY <1>2, <1>4, Listed
<1> QED
  BY <1>1, <1>2, <1>3, <1>4, <1>5, <1>6 DEF n

\* The engine cuts a job back into the sequences it was made of.
LEMMA RowsAsBuilt ==
    ASSUME NEW r, NEW a, Asked(a)
    PROVE  LET rows == decision_rows(JobOf(r, a, Built(a))) IN
           \A i \in DOMAIN rows :
              /\ i \in 1 .. Len(a.questions)
              /\ rows[i].tokens = Built(a)[i].tokens /\ rows[i].markers = Built(a)[i].markers
<1> DEFINE n == Len(a.questions)
           built == Built(a)
           toks == [i \in DOMAIN built |-> built[i].tokens]
           parts == [i \in DOMAIN built |-> [len |-> Len(built[i].tokens), markers |-> built[i].markers,
                                             qtype |-> index(a.questions[i].q.qtype)]]
           job == JobOf(r, a, built)
           prompt == FlattenSeq(toks)
           lens == [i \in DOMAIN job.rows |-> job.rows[i].len]
           e == Ends(lens)
<1>1. /\ a \in Asks /\ n \in Nat \ {0} /\ Len(built) = n /\ DOMAIN built = 1 .. n
      /\ \A i \in 1 .. n :
            /\ a.questions[i].q \in Question
            /\ built[i] = build(a.questions[i].q, option_texts(a.questions[i].q), state_text(a))
            /\ ~built[i].refused
  BY BuiltOneByOne DEF Asked
<1>2. state_text(a) \in Seq(Nat)
  BY <1>1, DecisionAssumption, JsonText DEF state_text
<1>3. \A i \in 1 .. n : built[i].tokens \in Seq(Int)
  BY <1>1, <1>2, BuildMarks, ZenonT(40) DEF BuiltRight
<1> HIDE DEF built, n
<1>4. toks = [i \in 1 .. n |-> toks[i]] /\ \A i \in 1 .. n : toks[i] = built[i].tokens /\ toks[i] \in Seq(Int)
  BY <1>1, <1>3
<1>5. /\ parts = [i \in 1 .. n |-> parts[i]]
      /\ \A i \in 1 .. n : parts[i].len = Len(built[i].tokens) /\ parts[i].markers = built[i].markers
  BY <1>1
<1>6. job.prompt_tokens = prompt /\ job.rows = parts \o <<>>
  BY DEF JobOf
<1> HIDE DEF toks, parts, job
<1>7. /\ parts \o <<>> = parts /\ Len(parts) = n /\ DOMAIN parts = 1 .. n
      /\ Len(toks) = n /\ DOMAIN toks = 1 .. n
  BY <1>1, <1>4, <1>5, Listed
<1>8. /\ lens = [i \in 1 .. n |-> Len(toks[i])] /\ lens = Lens(toks)
  <2>1. DOMAIN job.rows = 1 .. n /\ \A i \in 1 .. n : job.rows[i].len = Len(toks[i])
    BY <1>4, <1>5, <1>6, <1>7
  <2>2. lens = [i \in 1 .. n |-> Len(toks[i])]
    BY <2>1
  <2>3. Lens(toks) = [i \in 1 .. n |-> Len(toks[i])] \o <<>>
    BY <1>7 DEF Lens
  <2> DEFINE g == [i \in 1 .. n |-> Len(toks[i])]
  <2>4. g = [i \in 1 .. n |-> g[i]] /\ n \in Nat
    BY <1>1
  <2> HIDE DEF g
  <2>5. g \o <<>> = g
    BY <2>4, Listed
  <2> QED
    BY <2>2, <2>3, <2>5 DEF g
<1>9. Sliced(e, lens, n) /\ Joined(Int, prompt, toks, e, n)
  <2>1. /\ Sliced(Ends(Lens(toks)), [k \in 1 .. n |-> Len(toks[k])], n)
        /\ Joined(Int, FlattenSeq(toks), toks, Ends(Lens(toks)), n)
    BY ONLY <1>1, <1>4, <1>7, FlattenFacts
  <2> QED
    BY <1>8, <2>1
<1>10. \A i \in 1 .. n : lens[i] = Len(toks[i])
  BY <1>8
<1> HIDE DEF prompt, lens, e
<1>11. /\ e \in [0 .. n -> Nat]
       /\ \A k \in 1 .. n : e[k] = e[k - 1] + Len(toks[k])
       /\ prompt \in Seq(Int) /\ Len(prompt) = e[n]
       /\ \A j, k \in 0 .. n : j <= k => e[j] <= e[k]
       /\ \A k \in 1 .. n : \A i \in 1 .. Len(toks[k]) : prompt[e[k - 1] + i] = toks[k][i]
  BY <1>9, <1>10 DEF Sliced, Joined
<1>12. ASSUME NEW k \in 1 .. n PROVE SubSeq(prompt, e[k - 1] + 1, e[k]) = toks[k]
  <2>1. /\ e[k - 1] \in Nat /\ e[k] \in Nat /\ e[k] = e[k - 1] + Len(toks[k]) /\ e[k] <= Len(prompt)
        /\ toks[k] \in Seq(Int) /\ Len(toks[k]) \in Nat
    <3>1. k - 1 \in 0 .. n /\ k \in 0 .. n /\ n \in 0 .. n /\ k <= n
      BY <1>1
    <3>2. e[k - 1] \in Nat /\ e[k] \in Nat /\ e[k] <= e[n]
      BY <1>11, <3>1
    <3> QED
      BY <1>4, <1>11, <3>2
  <2>2. \A i \in 1 .. Len(toks[k]) : prompt[e[k - 1] + i] = toks[k][i]
    BY <1>11
  <2> DEFINE s == toks[k]
             x == e[k - 1]
             y == e[k]
  <2>3. /\ s \in Seq(Int) /\ x \in Nat /\ y = x + Len(s) /\ y <= Len(prompt)
        /\ \A i \in 1 .. Len(s) : prompt[x + i] = s[i]
    BY <2>1, <2>2
  <2> HIDE DEF s, x, y
  <2>4. SubSeq(prompt, x + 1, y) = s
    BY <1>11, <2>3, SliceBack
  <2> QED
    BY <2>4 DEF s, x, y
<1> DEFINE g == [i \in DOMAIN job.rows |->
                   [tokens |-> SubSeq(job.prompt_tokens, e[i - 1] + 1, e[i]),
                    markers |-> job.rows[i].markers, qtype |-> job.rows[i].qtype]]
           rows == decision_rows(job)
<1>13. rows = g
  <2>1. rows = IF e[Len(job.rows)] # Len(job.prompt_tokens) THEN <<>> ELSE g \o <<>>
    BY DEF decision_rows, e, lens
  <2>2. e[Len(job.rows)] = Len(job.prompt_tokens)
    BY <1>6, <1>7, <1>11
  <2>3. g = [i \in 1 .. n |-> g[i]] /\ n \in Nat
    BY <1>1, <1>6, <1>7
  <2> HIDE DEF g, rows
  <2>4. g \o <<>> = g
    BY <2>3, Listed
  <2> QED
    BY <2>1, <2>2, <2>4
<1>14. \A i \in 1 .. n : g[i].tokens = toks[i] /\ g[i].markers = parts[i].markers
  BY <1>6, <1>7, <1>12
<1>15. DOMAIN rows = 1 .. n
  BY <1>6, <1>7, <1>13
<1> HIDE DEF g, rows
<1>16. \A i \in DOMAIN rows : /\ i \in 1 .. n
                              /\ rows[i].tokens = built[i].tokens /\ rows[i].markers = built[i].markers
  BY <1>4, <1>5, <1>13, <1>14, <1>15
<1> QED
  BY <1>16 DEF rows, job, built, n

\* A job and a pending request are what the asker's own question became.
OwnJob(j, as, rp) ==
    /\ j.id \in Requests /\ rp[j.id] # Nothing /\ Asked(as[j.id])
    /\ j = JobOf(j.id, as[j.id], Built(as[j.id]))

OwnRows(p, as, rp) ==
    /\ p.id \in Requests /\ rp[p.id] # Nothing /\ Asked(as[p.id])
    /\ p.rows = decision_rows(JobOf(p.id, as[p.id], Built(as[p.id])))

\* The inductive invariant, with ArrivalInv: a request that has been answered
\* in any way keeps its question, and its job and rows are made of that.
MarkInv ==
    /\ ask = [r \in Requests |-> ask[r]] /\ reply = [r \in Requests |-> reply[r]]
    /\ \A k \in DOMAIN jobs : OwnJob(jobs[k], ask, reply)
    /\ \A q \in DOMAIN queue : OwnRows(queue[q], ask, reply)

LEMMA MarkMeans == ASSUME MarkInv PROVE MarkersExact
<1> SUFFICES ASSUME NEW q \in DOMAIN queue, NEW i \in DOMAIN queue[q].rows
             PROVE  LET row == queue[q].rows[i] IN
                    /\ [m \in DOMAIN row.markers |-> row.markers[m] + 1] = MaskPositions(row.tokens)
                    /\ Len(row.markers) = Len(labels(ask[queue[q].id].questions[i].q))
  BY DEF MarkersExact
<1> DEFINE r == queue[q].id
           a == ask[r]
           b == Built(a)[i]
           x == a.questions[i].q
<1>1. Asked(a) /\ queue[q].rows = decision_rows(JobOf(r, a, Built(a)))
  BY DEF MarkInv, OwnRows
<1> HIDE DEF a, r
<1>2. /\ i \in 1 .. Len(a.questions)
      /\ queue[q].rows[i].tokens = b.tokens /\ queue[q].rows[i].markers = b.markers
  BY <1>1, RowsAsBuilt
<1>3. a \in Asks /\ x \in Question /\ b = build(x, option_texts(x), state_text(a)) /\ ~b.refused
  BY <1>1, <1>2, BuiltOneByOne DEF Asked
<1>4. state_text(a) \in Seq(Nat)
  BY <1>3, DecisionAssumption, JsonText DEF state_text
<1> HIDE DEF b, x
<1>5. BuiltRight(b, x)
  BY <1>3, <1>4, BuildMarks
<1> QED
  BY <1>2, <1>5 DEF BuiltRight, x, a, r


-----------------------------------------------------------------------------
(* The marks stay exact.                                                   *)

LEMMA Replies ==
    /\ Waiting # Nothing /\ Failed # Nothing /\ Invalid # Nothing /\ Cancelled # Nothing
    /\ \A a, rows : OnDecided(a, rows) # Nothing
<1>1. /\ Nothing.status = "none" /\ Waiting.status = "waiting" /\ Failed.status = "failed"
      /\ Invalid.status = "invalid" /\ Cancelled.status = "cancelled"
  BY DEF Nothing, Waiting, Failed, Invalid, Cancelled
<1>2. \A x : Answered(x).status = "answered"
  BY DEF Answered
<1>3. /\ Waiting.status # Nothing.status /\ Failed.status # Nothing.status /\ Invalid.status # Nothing.status
      /\ Cancelled.status # Nothing.status
      /\ \A x : Answered(x).status # Nothing.status
  BY <1>1, <1>2
<1>4. \A x, y : x.status # y.status => x # y
  OBVIOUS
<1>5. /\ Waiting # Nothing /\ Failed # Nothing /\ Invalid # Nothing /\ Cancelled # Nothing
      /\ \A x : Answered(x) # Nothing
  BY ONLY <1>3, <1>4, Zenon
<1> QED
  BY <1>5 DEF OnDecided

\* Nothing that was answered is asked again or forgotten.
StillAsked(as, rp, bs, sp) ==
    \A r \in Requests : rp[r] # Nothing => bs[r] = as[r] /\ sp[r] # Nothing

LEMMA StillOwn ==
    ASSUME NEW as, NEW rp, NEW bs, NEW sp, StillAsked(as, rp, bs, sp), NEW x
    PROVE  /\ OwnJob(x, as, rp) => OwnJob(x, bs, sp)
           /\ OwnRows(x, as, rp) => OwnRows(x, bs, sp)
<1>1. ASSUME OwnJob(x, as, rp) PROVE OwnJob(x, bs, sp)
  <2>1. bs[x.id] = as[x.id] /\ sp[x.id] # Nothing
    BY <1>1 DEF OwnJob, StillAsked
  <2> QED
    BY <1>1, <2>1 DEF OwnJob
<1>2. ASSUME OwnRows(x, as, rp) PROVE OwnRows(x, bs, sp)
  <2>1. bs[x.id] = as[x.id] /\ sp[x.id] # Nothing
    BY <1>2 DEF OwnRows, StillAsked
  <2> QED
    BY <1>2, <2>1 DEF OwnRows
<1> QED
  BY <1>1, <1>2

\* An entry of the queue is made of its job.
LEMMA JobRows ==
    ASSUME NEW j, NEW as, NEW rp, OwnJob(j, as, rp), NEW p, p.id = j.id, p.rows = decision_rows(j)
    PROVE  OwnRows(p, as, rp)
BY DEF OwnJob, OwnRows

\* The gateway publishes the questions of a request that had none.
LEMMA DecisionsMarks ==
    ASSUME ArrivalInv, MarkInv, NEW r \in Requests, NEW a \in Asks, decisions(r, a)
    PROVE  MarkInv'
<1> DEFINE built == Built(a)
           job == JobOf(r, a, built)
           bad == a.questions = <<>> \/ \E i \in DOMAIN built : built[i].refused
<1>1. /\ reply[r] = Nothing /\ ask' = [ask EXCEPT ![r] = a] /\ queue' = queue
      /\ \/ bad /\ reply' = [reply EXCEPT ![r] = Invalid] /\ jobs' = jobs
         \/ ~bad /\ reply' = [reply EXCEPT ![r] = Waiting] /\ jobs' = Append(jobs, job)
  BY DEF decisions
<1>2. ~bad => Asked(a)
  BY DEF Asked
<1>3. job.id = r /\ job = JobOf(r, a, Built(a))
  BY DEF JobOf
<1> HIDE DEF bad, built, job
<1>4. ask = [s \in Requests |-> ask[s]] /\ reply = [s \in Requests |-> reply[s]]
  BY DEF MarkInv
<1>5. /\ ask'[r] = a /\ \A s \in Requests : s # r => ask'[s] = ask[s]
      /\ ask' = [s \in Requests |-> ask'[s]]
  BY <1>1, <1>4
<1>6. /\ reply'[r] # Nothing /\ \A s \in Requests : s # r => reply'[s] = reply[s]
      /\ reply' = [s \in Requests |-> reply'[s]]
  BY <1>1, <1>4, Replies
<1>7. StillAsked(ask, reply, ask', reply')
  BY <1>1, <1>5, <1>6 DEF StillAsked
<1>8. \A q \in DOMAIN queue' : OwnRows(queue'[q], ask', reply')
  BY <1>1, <1>7, StillOwn DEF MarkInv
<1>9. \A k \in DOMAIN jobs : OwnJob(jobs[k], ask', reply')
  BY <1>7, StillOwn DEF MarkInv
<1>10. CASE ~bad /\ jobs' = Append(jobs, job)
  <2>1. OwnJob(job, ask', reply')
    BY <1>2, <1>3, <1>5, <1>6, <1>10 DEF OwnJob
  <2> DEFINE js == Append(jobs, job)
  <2>2. /\ IsList(js) /\ Len(js) = Len(jobs) + 1
        /\ \A i \in 1 .. Len(jobs) : js[i] = jobs[i]
        /\ js[Len(jobs) + 1] = job
    BY AppendListed DEF ArrivalInv, ListsHold
  <2> HIDE DEF js
  <2>3. Len(jobs) \in Nat /\ DOMAIN jobs = 1 .. Len(jobs) /\ DOMAIN js = 1 .. Len(js)
    BY <2>2, Places DEF ArrivalInv, ListsHold
  <2>4. \A k \in DOMAIN js : (k \in DOMAIN jobs /\ js[k] = jobs[k]) \/ js[k] = job
    BY <2>2, <2>3
  <2>5. \A k \in DOMAIN js : OwnJob(js[k], ask', reply')
    BY <1>9, <2>1, <2>4
  <2>6. jobs' = js
    BY <1>10 DEF js
  <2> QED
    BY <1>5, <1>6, <1>8, <2>5, <2>6 DEF MarkInv
<1>11. CASE jobs' = jobs
  BY <1>5, <1>6, <1>8, <1>9, <1>11 DEF MarkInv
<1> QED
  BY <1>1, <1>10, <1>11

\* The engine cuts a job's prompt into its rows.
LEMMA AdmitMarks == ASSUME ArrivalInv, MarkInv, admit PROVE MarkInv'
<1> DEFINE rows == decision_rows(Head(jobs))
           new == [id |-> Head(jobs).id, rows |-> rows,
                   scores |-> [i \in DOMAIN rows |-> Unanswered] \o <<>>]
<1>1. /\ jobs # <<>> /\ jobs' = Tail(jobs) /\ ask' = ask
      /\ \/ reply' = [reply EXCEPT ![Head(jobs).id] = Failed] /\ queue' = queue
         \/ reply' = reply /\ queue' = Append(queue, new)
  BY DEF admit
<1>2. new.id = Head(jobs).id /\ new.rows = rows
  OBVIOUS
<1> HIDE DEF new, rows
<1>3. /\ IsList(Tail(jobs)) /\ Head(jobs) = jobs[1] /\ 1 \in 1 .. Len(jobs)
      /\ \A i \in 1 .. Len(Tail(jobs)) : i + 1 \in 1 .. Len(jobs) /\ Tail(jobs)[i] = jobs[i + 1]
  BY <1>1, TailListed DEF ArrivalInv, ListsHold
<1>4. Len(jobs) \in Nat /\ DOMAIN jobs = 1 .. Len(jobs) /\ DOMAIN Tail(jobs) = 1 .. Len(Tail(jobs))
  BY <1>3, Places DEF ArrivalInv, ListsHold
<1>5. OwnJob(Head(jobs), ask, reply) /\ \A k \in DOMAIN Tail(jobs) : OwnJob(Tail(jobs)[k], ask, reply)
  BY <1>3, <1>4 DEF MarkInv
<1>6. ask = [s \in Requests |-> ask[s]] /\ reply = [s \in Requests |-> reply[s]]
  BY DEF MarkInv
<1>7. reply' = [s \in Requests |-> reply'[s]] /\ StillAsked(ask, reply, ask', reply')
  BY <1>1, <1>6, Replies DEF StillAsked
<1>8. \A k \in DOMAIN jobs' : OwnJob(jobs'[k], ask', reply')
  BY <1>1, <1>5, <1>7, StillOwn
<1>9. \A q \in DOMAIN queue : OwnRows(queue[q], ask', reply')
  BY <1>7, StillOwn DEF MarkInv
<1>10. CASE queue' = Append(queue, new)
  <2>1. OwnRows(new, ask, reply)
    BY <1>2, <1>5, JobRows DEF rows
  <2>2. OwnRows(new, ask', reply')
    BY <1>7, <2>1, StillOwn
  <2> DEFINE qs == Append(queue, new)
  <2>3. /\ IsList(qs) /\ Len(qs) = Len(queue) + 1
        /\ \A i \in 1 .. Len(queue) : qs[i] = queue[i]
        /\ qs[Len(queue) + 1] = new
    BY AppendListed DEF ArrivalInv, ListsHold
  <2> HIDE DEF qs
  <2>4. Len(queue) \in Nat /\ DOMAIN queue = 1 .. Len(queue) /\ DOMAIN qs = 1 .. Len(qs)
    BY <2>3, Places DEF ArrivalInv, ListsHold
  <2>5. \A k \in DOMAIN qs : (k \in DOMAIN queue /\ qs[k] = queue[k]) \/ qs[k] = new
    BY <2>3, <2>4
  <2>6. \A k \in DOMAIN qs : OwnRows(qs[k], ask', reply')
    BY <1>9, <2>2, <2>5
  <2>7. queue' = qs
    BY <1>10 DEF qs
  <2> QED
    BY <1>1, <1>6, <1>7, <1>8, <2>6, <2>7 DEF MarkInv
<1>11. CASE queue' = queue
  BY <1>1, <1>6, <1>7, <1>8, <1>9, <1>11 DEF MarkInv
<1> QED
  BY <1>1, <1>10, <1>11

\* A pass leaves every request the rows it had.
LEMMA StepMarks == ASSUME ArrivalInv, MarkInv, step PROVE MarkInv'
<1> DEFINE picked == select
           answers == CandleEncoder_forward([i \in DOMAIN picked |->
                            queue[picked[i][1]].rows[picked[i][2]]] \o <<>>, flash)
           scored == Scored(picked, answers)
           full == {p \in ToSet(scored) : complete(p)}
           left == Without(scored, full)
           ends(list, r) == \E q \in DOMAIN list : list[q].id = r /\ complete(list[q])
           rows(list, r) == Flat((CHOOSE p \in ToSet(list) : p.id = r).scores)
<1>1. queue' = left /\ jobs' = jobs /\ ask' = ask
  BY DEF step
<1> HIDE DEF ends, rows
<1>2. PICK list : reply' = [r \in Requests |-> IF ends(list, r) THEN OnDecided(ask[r], rows(list, r)) ELSE reply[r]]
  BY DEF step, ends, rows
<1>3. /\ reply' = [r \in Requests |-> reply'[r]]
      /\ \A r \in Requests : reply'[r] = reply[r] \/ reply'[r] = OnDecided(ask[r], rows(list, r))
  <2> DEFINE f == [r \in Requests |-> IF ends(list, r) THEN OnDecided(ask[r], rows(list, r)) ELSE reply[r]]
  <2>1. /\ f = [r \in Requests |-> f[r]]
        /\ \A r \in Requests : f[r] = reply[r] \/ f[r] = OnDecided(ask[r], rows(list, r))
    OBVIOUS
  <2> HIDE DEF f
  <2>2. reply' = f
    BY <1>2 DEF f
  <2> QED
    BY <2>1, <2>2
<1>4. /\ IsList(scored) /\ Len(scored) = Len(queue)
      /\ \A q \in DOMAIN queue :
            /\ Shaped(scored[q]) /\ scored[q].rows = queue[q].rows /\ scored[q].id = queue[q].id
            /\ \A i \in DOMAIN queue[q].rows :
                  scored[q].scores[i] = Unanswered
                     <=> queue[q].scores[i] = Unanswered /\ ~Picked(picked, <<q, i>>)
  BY ScoredFacts DEF ArrivalInv
<1> HIDE DEF picked, answers, scored
<1>5. \A q \in DOMAIN queue : scored[q].rows = queue[q].rows /\ scored[q].id = queue[q].id
  BY <1>4
<1>6. DOMAIN queue = 1 .. Len(queue) /\ Len(queue) \in Nat
  BY Places DEF ArrivalInv, ListsHold
<1>7. StillAsked(ask, reply, ask', reply')
  BY <1>1, <1>3, Replies, Zenon DEF StillAsked
<1> DEFINE A == ToSet(scored)
<1>8. scored \in Seq(A)
  BY <1>4 DEF IsList
<1> HIDE DEF A, full
<1>9. left \in Seq(A) /\ \A x : InList(left, x) => InList(scored, x)
  BY <1>8, WithoutFacts
<1> HIDE DEF left
<1>10. DOMAIN left = 1 .. Len(left)
  BY <1>9
<1>11. \A k \in DOMAIN left : \E q \in DOMAIN queue : left[k] = scored[q]
  BY <1>4, <1>6, <1>9, <1>10 DEF InList
<1>12. ASSUME NEW k \in DOMAIN left PROVE OwnRows(left[k], ask', reply')
  <2>1. PICK q \in DOMAIN queue : left[k] = scored[q]
    BY <1>11
  <2>2. OwnRows(queue[q], ask', reply')
    BY <1>7, StillOwn DEF MarkInv
  <2> QED
    BY <1>5, <2>1, <2>2 DEF OwnRows
<1>13. \A k \in DOMAIN jobs : OwnJob(jobs[k], ask', reply')
  BY <1>7, StillOwn DEF MarkInv
<1>14. ask = [r \in Requests |-> ask[r]]
  BY DEF MarkInv
<1> QED
  BY <1>1, <1>3, <1>12, <1>13, <1>14 DEF MarkInv

\* A failed pass empties the queue.
LEMMA FailMarks == ASSUME MarkInv, step_fails PROVE MarkInv'
<1> DEFINE lost(r) == \E q \in DOMAIN queue : queue[q].id = r
<1>1. /\ queue' = <<>> /\ jobs' = jobs /\ ask' = ask
      /\ reply' = [r \in Requests |-> IF lost(r) THEN Failed ELSE reply[r]]
  BY DEF step_fails
<1>2. \A r \in Requests : reply'[r] = reply[r] \/ reply'[r] = Failed
  BY <1>1
<1>3. reply' = [r \in Requests |-> reply'[r]]
  BY <1>1
<1> HIDE DEF lost
<1>4. StillAsked(ask, reply, ask', reply')
  BY <1>1, <1>2, Replies, Zenon DEF StillAsked
<1>5. \A k \in DOMAIN jobs : OwnJob(jobs[k], ask', reply')
  BY <1>4, StillOwn DEF MarkInv
<1>6. ask = [r \in Requests |-> ask[r]] /\ DOMAIN <<>> = {}
  BY DEF MarkInv
<1> QED
  BY <1>1, <1>3, <1>5, <1>6 DEF MarkInv

\* A cancellation leaves everyone else the rows they had.
LEMMA CancelMarks == ASSUME ArrivalInv, MarkInv, NEW r \in Requests, cancel(r) PROVE MarkInv'
<1> DEFINE gone == {p \in ToSet(queue) : p.id = r}
           left == Without(queue, gone)
           A == ToSet(queue)
<1>1. /\ queue' = left /\ jobs' = jobs /\ ask' = ask
      /\ reply' = [reply EXCEPT ![r] = Cancelled]
  BY DEF cancel
<1>2. reply = [x \in Requests |-> reply[x]] /\ ask = [x \in Requests |-> ask[x]]
  BY DEF MarkInv
<1>3. /\ reply' = [x \in Requests |-> reply'[x]]
      /\ \A x \in Requests : reply'[x] = reply[x] \/ reply'[x] = Cancelled
  BY <1>1, <1>2
<1>4. StillAsked(ask, reply, ask', reply')
  BY <1>1, <1>3, Replies, Zenon DEF StillAsked
<1>5. queue \in Seq(A)
  BY DEF ArrivalInv, ListsHold, IsList
<1> HIDE DEF A, gone
<1>6. left \in Seq(A) /\ \A x : InList(left, x) => InList(queue, x)
  BY <1>5, WithoutFacts
<1> HIDE DEF left
<1>7. \A k \in DOMAIN left : \E q \in DOMAIN queue : left[k] = queue[q]
  BY <1>5, <1>6 DEF InList
<1>8. ASSUME NEW k \in DOMAIN left PROVE OwnRows(left[k], ask', reply')
  BY <1>4, <1>7, StillOwn DEF MarkInv
<1>9. \A k \in DOMAIN jobs : OwnJob(jobs[k], ask', reply')
  BY <1>4, StillOwn DEF MarkInv
<1> QED
  BY <1>1, <1>2, <1>3, <1>8, <1>9 DEF MarkInv

\* The mask tokens of every sequence the engine holds are its question's
\* option markers, one for each label, and nothing else: whatever texts a
\* request spells, however long they are and whatever the checkpoint's
\* limits, none mints a marker and no truncation loses one
\* (DecisionFormat::scrub and build, Job::decision_rows).
THEOREM MarkersAlwaysExact == Spec => []MarkersExact
<1>1. Init => MarkInv
  <2> SUFFICES ASSUME Init PROVE MarkInv
    OBVIOUS
  <2>1. jobs = <<>> /\ queue = <<>> /\ DOMAIN <<>> = {}
    BY DEF Init
  <2>2. ask = [r \in Requests |-> ask[r]] /\ reply = [r \in Requests |-> reply[r]]
    BY DEF Init
  <2> QED
    BY <2>1, <2>2 DEF MarkInv
<1>2. ArrivalInv /\ MarkInv /\ [Next]_vars => MarkInv'
  <2> SUFFICES ASSUME ArrivalInv, MarkInv, [Next]_vars PROVE MarkInv'
    OBVIOUS
  <2>1. ASSUME NEW r \in Requests, NEW a \in Asks, decisions(r, a)
        PROVE  MarkInv'
    BY <2>1, DecisionsMarks
  <2>2. CASE admit
    BY <2>2, AdmitMarks
  <2>3. CASE step
    BY <2>3, StepMarks
  <2>4. CASE step_fails
    BY <2>4, FailMarks
  <2>5. CASE UNCHANGED vars
    <3>1. ask' = ask /\ jobs' = jobs /\ queue' = queue /\ reply' = reply
      BY <2>5 DEF vars
    <3> QED
      BY <3>1 DEF MarkInv
  <2>6. CASE Done
    BY <2>5, <2>6 DEF Done
  <2>7. ASSUME NEW r \in Requests, cancel(r) PROVE MarkInv'
    BY <2>7, CancelMarks
  <2> QED
    BY <2>1, <2>2, <2>3, <2>4, <2>5, <2>6, <2>7 DEF Next
<1>3. MarkInv => MarkersExact
  BY MarkMeans
<1> QED
  BY <1>1, <1>2, <1>3, ArrivalHolds, PTL DEF Spec
=============================================================================
