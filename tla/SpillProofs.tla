---------------------------- MODULE SpillProofs ----------------------------
(***************************************************************************)
(* Proofs about the spill store (SpillStore, SpillTier), for every set of  *)
(* hashes, size of a block and caps: both tiers count what they hold and   *)
(* stay within their caps, and what is read back under a hash is the block *)
(* that was put under it.                                                  *)
(***************************************************************************)
EXTENDS SpillTier, ListProofs, FiniteSetTheorems

StoreFields == {"ram", "ram_lru", "ram_bytes", "disk", "disk_lru", "disk_bytes", "files"}

\* The lengths of the blocks in memory.
Lens(r) == [h \in DOMAIN r |-> r[h].len]

\* One tier: q lists the entries of len once each, n is their total length.
Shelf(q, len, n) ==
    /\ q \in Seq(DOMAIN len)
    /\ NoRepeats(q)
    /\ ToSet(q) = DOMAIN len
    /\ \A h \in DOMAIN len : len[h] \in Nat
    /\ n = Total(q, len)

\* What a file of the directory may hold.
FileOK(h, bytes) ==
    /\ bytes.data = h
    /\ bytes.len \in Nat
    /\ ~TornWrites => bytes = Bytes(h)

FilesOK(fs) == DOMAIN fs \subseteq Hashes /\ \A h \in DOMAIN fs : FileOK(h, fs[h])

\* The inductive invariant of the store inside its loops, the caps apart: no
\* hash is in both tiers, or a move to disk would count it twice.
Books(s) ==
    /\ DOMAIN s = StoreFields
    /\ Shelf(s.ram_lru, Lens(s.ram), s.ram_bytes)
    /\ Shelf(s.disk_lru, s.disk, s.disk_bytes)
    /\ DOMAIN s.ram \cap DOMAIN s.disk = {}
    /\ DOMAIN s.ram \subseteq Hashes
    /\ \A h \in DOMAIN s.ram : s.ram[h] = Bytes(h)
    /\ FilesOK(s.files)

StoreOK(s) == Books(s) /\ s.ram_bytes <= RamMax /\ s.disk_bytes <= DiskMax

\* The last get, if there was one.
GotOK(g) == g.bytes = NoBytes \/ (g.bytes.data = g.hash /\ (~TornWrites => g.bytes = Bytes(g.hash)))

----------------------------------------------------------------------------
(***************************************************************************)
(* A tier under what the store does to it.                                 *)
(***************************************************************************)

\* The lengths of the listed.
LEMMA ShelfLens ==
    ASSUME NEW q, NEW len, NEW n, Shelf(q, len, n)
    PROVE  /\ Len(q) \in Nat /\ n \in Nat
           /\ \A i \in 1 .. Len(q) : q[i] \in DOMAIN len /\ len[q[i]] \in Nat
<1>1. Len(q) \in Nat /\ \A i \in 1 .. Len(q) : q[i] \in DOMAIN len /\ len[q[i]] \in Nat
  BY DEF Shelf
<1>2. Total(q, len) \in Nat
  BY <1>1, TotalSame DEF Shelf
<1> QED
  BY <1>1, <1>2 DEF Shelf

\* remove(0).
LEMMA ShelfPop ==
    ASSUME NEW q, NEW len, NEW n, Shelf(q, len, n), q # <<>>
    PROVE  /\ Head(q) \in DOMAIN len
           /\ Len(Tail(q)) = Len(q) - 1
           /\ Shelf(Tail(q), Dropped(len, {Head(q)}), n - len[Head(q)])
<1> DEFINE A == DOMAIN len
           r == Tail(q)
           h == Head(q)
           f == Dropped(len, {h})
<1>1. q \in Seq(A) /\ NoRepeats(q) /\ ToSet(q) = A
  BY DEF Shelf
<1>2. /\ h \in A /\ r \in Seq(A) /\ NoRepeats(r) /\ h \notin ToSet(r)
      /\ ToSet(q) = ToSet(r) \cup {h}
  BY <1>1, TailSet
<1>3. Len(r) = Len(q) - 1
  BY <1>1, TailFacts
<1>4. DOMAIN f = A \ {h} /\ \A x \in A \ {h} : f[x] = len[x]
  BY DEF Dropped
<1>5. ToSet(r) = A \ {h}
  BY <1>1, <1>2
<1> HIDE DEF r, h, f
<1>6. r \in Seq(A \ {h})
  BY <1>2, <1>5, OwnElements
<1>7. \A i \in 1 .. Len(r) : r[i] \in A \ {h} /\ len[r[i]] \in Nat /\ f[r[i]] = len[r[i]]
  BY <1>4, <1>6 DEF Shelf
<1>8. Total(r, f) = Total(r, len)
  BY <1>2, <1>7, TotalSame
<1>9. Total(r, len) = Total(q, len) - len[h]
  BY <1>1, ShelfLens, TotalTail DEF r, h
<1>10. \A x \in DOMAIN f : f[x] \in Nat
  BY <1>4 DEF Shelf
<1>11. Shelf(r, f, n - len[h])
  BY <1>2, <1>4, <1>5, <1>6, <1>8, <1>9, <1>10 DEF Shelf
<1> QED
  BY <1>2, <1>3, <1>11 DEF r, h, f

\* insert and push.
LEMMA ShelfPush ==
    ASSUME NEW q, NEW len, NEW n, Shelf(q, len, n), NEW h, h \notin DOMAIN len, NEW v \in Nat
    PROVE  Shelf(Append(q, h), Added(len, h, v), n + v)
<1> DEFINE A == DOMAIN len \cup {h}
           r == Append(q, h)
           f == Added(len, h, v)
<1>1. q \in Seq(DOMAIN len) /\ NoRepeats(q) /\ ToSet(q) = DOMAIN len
  BY DEF Shelf
<1>2. q \in Seq(A) /\ h \in A
  BY <1>1
<1>3. r \in Seq(A) /\ ToSet(r) = A /\ NoRepeats(r)
  BY <1>1, <1>2, AppendSet
<1>4. DOMAIN f = A /\ f[h] = v /\ \A x \in DOMAIN len : f[x] = len[x]
  BY DEF Added
<1>5. \A i \in 1 .. Len(q) : len[q[i]] \in Nat /\ f[q[i]] = len[q[i]]
  BY <1>4, ShelfLens
<1> HIDE DEF f
<1>6. Total(q, f) = Total(q, len)
  BY <1>1, <1>5, TotalSame
<1>7. Total(r, f) = Total(q, f) + f[h]
  <2>1. \A i \in 1 .. Len(q) : f[q[i]] \in Nat
    BY <1>5
  <2> QED
    BY <1>2, <2>1, TotalAppend
<1>8. \A x \in DOMAIN f : f[x] \in Nat
  BY <1>4 DEF Shelf
<1> HIDE DEF r
<1>9. n + v = Total(r, f)
  BY <1>4, <1>6, <1>7 DEF Shelf
<1>10. Shelf(r, f, n + v)
  BY <1>3, <1>4, <1>8, <1>9 DEF Shelf
<1> QED
  BY <1>10 DEF r, f

\* remove and retain.
LEMMA ShelfForget ==
    ASSUME NEW q, NEW len, NEW n, Shelf(q, len, n), NEW h \in DOMAIN len
    PROVE  Shelf(Retained(q, h), Dropped(len, {h}), n - len[h])
<1> DEFINE A == DOMAIN len
           r == Retained(q, h)
           f == Dropped(len, {h})
<1>1. q \in Seq(A) /\ NoRepeats(q) /\ ToSet(q) = A
  BY DEF Shelf
<1>2. r \in Seq(A) /\ ToSet(r) = A \ {h} /\ NoRepeats(r)
  BY <1>1, WithoutSet DEF Retained
<1>3. DOMAIN f = A \ {h} /\ \A x \in A \ {h} : f[x] = len[x]
  BY DEF Dropped
<1>4. InList(q, h)
  BY <1>1, Members
<1>5. Total(r, len) = Total(q, len) - len[h]
  BY <1>1, <1>4, TotalWithout DEF Retained, Shelf
<1> HIDE DEF r, f
<1>6. r \in Seq(A \ {h})
  BY <1>2, OwnElements
<1>7. \A i \in 1 .. Len(r) : len[r[i]] \in Nat /\ f[r[i]] = len[r[i]]
  BY <1>3, <1>6 DEF Shelf
<1>8. Total(r, f) = Total(r, len)
  BY <1>2, <1>7, TotalSame
<1>9. \A x \in DOMAIN f : f[x] \in Nat
  BY <1>3 DEF Shelf
<1>10. Shelf(r, f, n - len[h])
  BY <1>2, <1>3, <1>5, <1>6, <1>8, <1>9 DEF Shelf
<1> QED
  BY <1>10 DEF r, f

\* touch_ram and touch_disk.
LEMMA ShelfTouch ==
    ASSUME NEW q, NEW len, NEW n, Shelf(q, len, n), NEW h \in DOMAIN len
    PROVE  Shelf(Append(Retained(q, h), h), len, n)
<1> DEFINE r == Append(Retained(q, h), h)
           f == Dropped(len, {h})
           g == Added(f, h, len[h])
<1>1. Shelf(Retained(q, h), f, n - len[h])
  BY ShelfForget
<1>2. DOMAIN f = DOMAIN len \ {h} /\ len[h] \in Nat /\ n \in Nat
  BY ShelfLens DEF Dropped, Shelf
<1>3. DOMAIN g = DOMAIN len /\ \A x \in DOMAIN len : g[x] = len[x]
  BY DEF Added, Dropped
<1> HIDE DEF f
<1>4. Shelf(r, g, (n - len[h]) + len[h])
  BY <1>1, <1>2, ShelfPush
<1> HIDE DEF g, r
<1>5. r \in Seq(DOMAIN len) /\ NoRepeats(r) /\ ToSet(r) = DOMAIN len /\ n = Total(r, g)
  BY <1>2, <1>3, <1>4 DEF Shelf
<1>6. \A i \in 1 .. Len(r) : g[r[i]] \in Nat /\ len[r[i]] = g[r[i]]
  BY <1>3, <1>4, <1>5, ShelfLens
<1>7. Total(r, len) = Total(r, g)
  BY <1>5, <1>6, TotalSame
<1>8. Shelf(r, len, n)
  BY <1>5, <1>7 DEF Shelf
<1> QED
  BY <1>8 DEF r

\* Nothing listed, nothing held.
LEMMA ShelfEmpty ==
    ASSUME NEW len, NEW n, Shelf(<<>>, len, n)
    PROVE  n = 0
  BY TotalEmpty DEF Shelf

----------------------------------------------------------------------------
(***************************************************************************)
(* The loops.  The recursive functions of evict_disk and evict_ram exist,  *)
(* each turn keeps the books, and a loop that ends over its cap has        *)
(* emptied its list, which leaves nothing to count.                        *)
(***************************************************************************)

\* One turn of evict_disk.
LEMMA DropOldestBooks ==
    ASSUME NEW s, Books(s), s.disk_lru # <<>>
    PROVE  LET t == DropOldest(s)
           IN  /\ Books(t)
               /\ Len(t.disk_lru) = Len(s.disk_lru) - 1
               /\ t.ram = s.ram /\ t.ram_lru = s.ram_lru /\ t.ram_bytes = s.ram_bytes
<1> DEFINE h == Head(s.disk_lru)
           t == DropOldest(s)
<1>1. /\ DOMAIN s = StoreFields /\ Shelf(s.disk_lru, s.disk, s.disk_bytes)
      /\ DOMAIN s.ram \cap DOMAIN s.disk = {} /\ FilesOK(s.files)
  BY DEF Books
<1>2. /\ h \in DOMAIN s.disk /\ Len(Tail(s.disk_lru)) = Len(s.disk_lru) - 1
      /\ Shelf(Tail(s.disk_lru), Dropped(s.disk, {h}), s.disk_bytes - s.disk[h])
  BY <1>1, ShelfPop
<1>3. /\ DOMAIN t = StoreFields
      /\ t.ram = s.ram /\ t.ram_lru = s.ram_lru /\ t.ram_bytes = s.ram_bytes
      /\ t.disk_lru = Tail(s.disk_lru) /\ t.disk = Dropped(s.disk, {h})
      /\ t.disk_bytes = s.disk_bytes - s.disk[h] /\ t.files = Dropped(s.files, {h})
  BY <1>1, <1>2 DEF DropOldest, StoreFields
<1> HIDE DEF h, t
<1>4. FilesOK(t.files) /\ DOMAIN t.disk \subseteq DOMAIN s.disk
  BY <1>1, <1>3 DEF FilesOK, Dropped
<1>5. Books(t)
  BY <1>1, <1>2, <1>3, <1>4 DEF Books
<1> QED
  BY <1>2, <1>3, <1>5 DEF t

DiskTurn(t) == IF t.disk_bytes > DiskMax THEN DropOldest(t) ELSE t
DiskTurns(g, s, m) == g = [n \in 0 .. m |-> IF n = 0 THEN s ELSE DiskTurn(g[n - 1])]

\* The turns of evict_disk's loop exist.
LEMMA DiskTurnsExist ==
    ASSUME NEW s, NEW m \in Nat
    PROVE  \E g : DiskTurns(g, s, m)
<1> DEFINE P == {n \in Nat : \E g : DiskTurns(g, s, n)}
<1>1. 0 \in P
  <2>1. DiskTurns([n \in 0 .. 0 |-> s], s, 0)
    BY DEF DiskTurns
  <2> QED
    BY <2>1
<1>2. ASSUME NEW n \in Nat, n \in P
      PROVE  n + 1 \in P
  <2>1. PICK g : DiskTurns(g, s, n)
    BY <1>2
  <2> DEFINE h == [k \in 0 .. (n + 1) |-> IF k <= n THEN g[k] ELSE DiskTurn(g[k - 1])]
  <2>2. DiskTurns(h, s, n + 1)
    BY <2>1 DEF DiskTurns
  <2> QED
    BY <2>2
<1> HIDE DEF P
<1>3. Nat \subseteq P
  BY <1>1, <1>2, Induction
<1> QED
  BY <1>3 DEF P

\* evict_disk.
LEMMA EvictDiskBooks ==
    ASSUME NEW s, Books(s)
    PROVE  LET t == evict_disk(s)
           IN  /\ Books(t)
               /\ t.disk_bytes <= DiskMax
               /\ t.ram = s.ram /\ t.ram_lru = s.ram_lru /\ t.ram_bytes = s.ram_bytes
<1> DEFINE m == Len(s.disk_lru)
           turn == CHOOSE g : DiskTurns(g, s, m)
<1>1. m \in Nat
  BY ShelfLens DEF Books
<1>2. DiskTurns(turn, s, m)
  <2>1. \E g : DiskTurns(g, s, m)
    BY <1>1, DiskTurnsExist
  <2> QED
    BY <2>1
<1>3. evict_disk(s) = turn[m]
  BY DEF evict_disk, DiskTurns, DiskTurn
<1> HIDE DEF turn, m
<1>4. turn[0] = s /\ \A n \in 1 .. m : turn[n] = DiskTurn(turn[n - 1])
  BY <1>1, <1>2 DEF DiskTurns
<1> DEFINE Good(n) == LET t == turn[n]
                      IN  /\ Books(t)
                          /\ t.disk_bytes <= DiskMax \/ Len(t.disk_lru) = m - n
                          /\ t.ram = s.ram /\ t.ram_lru = s.ram_lru /\ t.ram_bytes = s.ram_bytes
           P == {n \in Nat : n <= m => Good(n)}
<1>5. Good(0)
  BY <1>1, <1>4 DEF m
<1>6. ASSUME NEW n \in Nat, Good(n), n + 1 <= m
      PROVE  Good(n + 1)
  <2> DEFINE t == turn[n]
             u == turn[n + 1]
  <2>1. n + 1 \in 1 .. m /\ (n + 1) - 1 = n
    BY <1>1, <1>6
  <2>2. u = DiskTurn(t)
    BY <1>4, <2>1
  <2>3. /\ Books(t)
        /\ t.ram = s.ram /\ t.ram_lru = s.ram_lru /\ t.ram_bytes = s.ram_bytes
    BY <1>6
  <2>4. t.disk_bytes \in Nat /\ DiskMax \in Nat
    BY <1>6, ShelfLens, SpillAssumption DEF Books
  <2> HIDE DEF t, u
  <2>5. CASE t.disk_bytes > DiskMax
    <3>1. u = DropOldest(t)
      BY <2>2, <2>5 DEF DiskTurn
    <3>2. ~(t.disk_bytes <= DiskMax)
      BY <2>4, <2>5
    <3>3. Len(t.disk_lru) = m - n /\ Books(t)
      BY <1>6, <3>2 DEF t
    <3>4. t.disk_lru # <<>>
      BY <1>1, <1>6, <3>3
    <3>5. /\ Books(u) /\ Len(u.disk_lru) = Len(t.disk_lru) - 1
          /\ u.ram = t.ram /\ u.ram_lru = t.ram_lru /\ u.ram_bytes = t.ram_bytes
      BY <3>1, <3>3, <3>4, DropOldestBooks
    <3>6. Len(u.disk_lru) = m - (n + 1)
      BY <1>1, <3>3, <3>5
    <3> QED
      BY <2>3, <3>5, <3>6 DEF u
  <2>6. CASE ~(t.disk_bytes > DiskMax)
    <3>1. u = t /\ t.disk_bytes <= DiskMax
      BY <2>2, <2>4, <2>6 DEF DiskTurn
    <3> QED
      BY <1>6, <3>1 DEF u, t
  <2> QED
    BY <2>5, <2>6
<1> HIDE DEF Good
<1>7. 0 \in P /\ \A n \in Nat : n \in P => n + 1 \in P
  BY <1>1, <1>5, <1>6
<1> HIDE DEF P
<1>8. Nat \subseteq P
  BY <1>7, Induction
<1>9. Good(m)
  BY <1>1, <1>8 DEF P
<1> DEFINE t == turn[m]
<1>10. /\ Books(t)
       /\ t.disk_bytes <= DiskMax \/ Len(t.disk_lru) = m - m
       /\ t.ram = s.ram /\ t.ram_lru = s.ram_lru /\ t.ram_bytes = s.ram_bytes
  BY <1>9 DEF Good
<1> HIDE DEF t
<1>11. ASSUME Len(t.disk_lru) = m - m
       PROVE  t.disk_bytes <= DiskMax
  <2>1. Shelf(t.disk_lru, t.disk, t.disk_bytes)
    BY <1>10 DEF Books
  <2>2. t.disk_lru = <<>>
    BY <1>1, <1>11, <2>1 DEF Shelf
  <2>3. t.disk_bytes = 0
    BY <2>1, <2>2, ShelfEmpty
  <2> QED
    BY <2>3, SpillAssumption
<1> QED
  BY <1>3, <1>10, <1>11 DEF t

\* The outcomes of std::fs::write.
Outcomes == {"ok", "error"} \cup (IF TornWrites THEN {"torn"} ELSE {})

\* One turn of evict_ram.
LEMMA MoveToDiskBooks ==
    ASSUME NEW s, Books(s), s.disk_bytes <= DiskMax, s.ram_lru # <<>>, NEW w \in Outcomes
    PROVE  LET t == MoveToDisk(s, w)
           IN  /\ Books(t)
               /\ t.disk_bytes <= DiskMax
               /\ Len(t.ram_lru) = Len(s.ram_lru) - 1
<1> DEFINE h     == Head(s.ram_lru)
           bytes == s.ram[h]
           out   == [s EXCEPT !.ram = Dropped(@, {h}), !.ram_lru = Tail(@),
                              !.ram_bytes = @ - bytes.len]
           torn  == [data |-> bytes.data, len |-> bytes.len - 1]
           part  == [out EXCEPT !.files = Added(@, h, torn)]
           full  == [out EXCEPT !.files = Added(@, h, bytes),
                                !.disk = Added(@, h, bytes.len),
                                !.disk_lru = Append(@, h),
                                !.disk_bytes = @ + bytes.len]
<1>1. /\ DOMAIN s = StoreFields /\ Shelf(s.ram_lru, Lens(s.ram), s.ram_bytes)
      /\ Shelf(s.disk_lru, s.disk, s.disk_bytes)
      /\ DOMAIN s.ram \cap DOMAIN s.disk = {} /\ FilesOK(s.files)
      /\ DOMAIN s.ram \subseteq Hashes /\ \A x \in DOMAIN s.ram : s.ram[x] = Bytes(x)
  BY DEF Books
<1>2. /\ h \in DOMAIN Lens(s.ram) /\ Len(Tail(s.ram_lru)) = Len(s.ram_lru) - 1
      /\ Shelf(Tail(s.ram_lru), Dropped(Lens(s.ram), {h}), s.ram_bytes - Lens(s.ram)[h])
  BY <1>1, ShelfPop
<1>3. h \in DOMAIN s.ram /\ Lens(s.ram)[h] = bytes.len /\ h \in Hashes
  BY <1>1, <1>2 DEF Lens
<1>4. bytes = Bytes(h) /\ bytes.data = h /\ bytes.len = BlockBytes
  BY <1>1, <1>3 DEF Bytes
<1>5. /\ DOMAIN out = StoreFields
      /\ out.ram = Dropped(s.ram, {h}) /\ out.ram_lru = Tail(s.ram_lru)
      /\ out.ram_bytes = s.ram_bytes - bytes.len
      /\ out.disk = s.disk /\ out.disk_lru = s.disk_lru /\ out.disk_bytes = s.disk_bytes
      /\ out.files = s.files
  BY <1>1 DEF StoreFields
<1>6. Dropped(Lens(s.ram), {h}) = Lens(Dropped(s.ram, {h}))
  BY DEF Lens, Dropped
<1>7. /\ DOMAIN Dropped(s.ram, {h}) = DOMAIN s.ram \ {h}
      /\ \A x \in DOMAIN s.ram \ {h} : Dropped(s.ram, {h})[x] = s.ram[x]
  BY DEF Dropped
<1>8. MoveToDisk(s, w) = IF ~HasDir \/ bytes.len > DiskMax \/ w = "error" THEN out
                         ELSE IF w = "torn" THEN part
                         ELSE evict_disk(full)
  BY <1>3 DEF MoveToDisk
<1>9. DOMAIN part = StoreFields /\ part.files = Added(s.files, h, torn)
      /\ part.ram = out.ram /\ part.ram_lru = out.ram_lru /\ part.ram_bytes = out.ram_bytes
      /\ part.disk = out.disk /\ part.disk_lru = out.disk_lru /\ part.disk_bytes = out.disk_bytes
  <2> HIDE DEF out
  <2> QED
    BY <1>5 DEF StoreFields
<1>10. DOMAIN full = StoreFields /\ full.files = Added(s.files, h, bytes)
      /\ full.ram = out.ram /\ full.ram_lru = out.ram_lru /\ full.ram_bytes = out.ram_bytes
      /\ full.disk = Added(s.disk, h, bytes.len) /\ full.disk_lru = Append(s.disk_lru, h)
      /\ full.disk_bytes = s.disk_bytes + bytes.len
  <2> HIDE DEF out
  <2> QED
    BY <1>5 DEF StoreFields
<1>11. ~TornWrites => w # "torn"
  BY DEF Outcomes
<1>12. torn.data = h /\ torn.len \in Nat /\ BlockBytes \in Nat
  BY <1>4, TierAssumption
<1> HIDE DEF out, part, full, torn, h, bytes
<1>13. Books(out)
  BY <1>1, <1>2, <1>3, <1>5, <1>6, <1>7 DEF Books
<1>14. CASE ~HasDir \/ bytes.len > DiskMax \/ w = "error"
  BY <1>2, <1>5, <1>8, <1>13, <1>14
<1>15. CASE ~(~HasDir \/ bytes.len > DiskMax \/ w = "error") /\ w = "torn"
  <2>1. FilesOK(Added(s.files, h, torn))
    BY <1>1, <1>3, <1>11, <1>12, <1>15 DEF FilesOK, FileOK, Added
  <2>2. Books(part)
    BY <1>9, <1>13, <2>1 DEF Books
  <2> QED
    BY <1>2, <1>5, <1>8, <1>9, <1>15, <2>2
<1>16. CASE ~(~HasDir \/ bytes.len > DiskMax \/ w = "error") /\ w # "torn"
  <2>1. FilesOK(Added(s.files, h, bytes))
    BY <1>1, <1>3, <1>4, <1>12 DEF FilesOK, FileOK, Added
  <2>2. h \notin DOMAIN s.disk
    BY <1>1, <1>3
  <2>3. Shelf(full.disk_lru, full.disk, full.disk_bytes)
    BY <1>1, <1>4, <1>10, <1>12, <2>2, ShelfPush
  <2>4. DOMAIN full.disk = DOMAIN s.disk \cup {h} /\ DOMAIN full.ram = DOMAIN s.ram \ {h}
    BY <1>5, <1>7, <1>10 DEF Added
  <2>5. DOMAIN full.ram \cap DOMAIN full.disk = {}
    BY <1>1, <2>4
  <2>6. Books(full)
    BY <1>10, <1>13, <2>1, <2>3, <2>5 DEF Books
  <2> HIDE DEF full
  <2>7. /\ Books(evict_disk(full)) /\ evict_disk(full).disk_bytes <= DiskMax
        /\ evict_disk(full).ram_lru = full.ram_lru
    BY <2>6, EvictDiskBooks
  <2> QED
    BY <1>2, <1>5, <1>8, <1>10, <1>16, <2>7
<1> QED
  BY <1>14, <1>15, <1>16

RamTurn(t, w) == IF t.ram_bytes > RamMax THEN MoveToDisk(t, w) ELSE t
RamTurns(g, s, w, m) == g = [n \in 0 .. m |-> IF n = 0 THEN s ELSE RamTurn(g[n - 1], w)]

\* The turns of evict_ram's loop exist.
LEMMA RamTurnsExist ==
    ASSUME NEW s, NEW w, NEW m \in Nat
    PROVE  \E g : RamTurns(g, s, w, m)
<1> DEFINE P == {n \in Nat : \E g : RamTurns(g, s, w, n)}
<1>1. 0 \in P
  <2>1. RamTurns([n \in 0 .. 0 |-> s], s, w, 0)
    BY DEF RamTurns
  <2> QED
    BY <2>1
<1>2. ASSUME NEW n \in Nat, n \in P
      PROVE  n + 1 \in P
  <2>1. PICK g : RamTurns(g, s, w, n)
    BY <1>2
  <2> DEFINE h == [k \in 0 .. (n + 1) |-> IF k <= n THEN g[k] ELSE RamTurn(g[k - 1], w)]
  <2>2. RamTurns(h, s, w, n + 1)
    BY <2>1 DEF RamTurns
  <2> QED
    BY <2>2
<1> HIDE DEF P
<1>3. Nat \subseteq P
  BY <1>1, <1>2, Induction
<1> QED
  BY <1>3 DEF P

\* evict_ram.
LEMMA EvictRamBooks ==
    ASSUME NEW s, Books(s), s.disk_bytes <= DiskMax, NEW w \in Outcomes
    PROVE  StoreOK(evict_ram(s, w))
<1> DEFINE m == Len(s.ram_lru)
           turn == CHOOSE g : RamTurns(g, s, w, m)
<1>1. m \in Nat
  BY ShelfLens DEF Books
<1>2. RamTurns(turn, s, w, m)
  <2>1. \E g : RamTurns(g, s, w, m)
    BY <1>1, RamTurnsExist
  <2> QED
    BY <2>1
<1>3. evict_ram(s, w) = turn[m]
  BY DEF evict_ram, RamTurns, RamTurn
<1> HIDE DEF turn, m
<1>4. turn[0] = s /\ \A n \in 1 .. m : turn[n] = RamTurn(turn[n - 1], w)
  BY <1>1, <1>2 DEF RamTurns
<1> DEFINE Good(n) == LET t == turn[n]
                      IN  /\ Books(t)
                          /\ t.disk_bytes <= DiskMax
                          /\ t.ram_bytes <= RamMax \/ Len(t.ram_lru) = m - n
           P == {n \in Nat : n <= m => Good(n)}
<1>5. Good(0)
  BY <1>1, <1>4 DEF m
<1>6. ASSUME NEW n \in Nat, Good(n), n + 1 <= m
      PROVE  Good(n + 1)
  <2> DEFINE t == turn[n]
             u == turn[n + 1]
  <2>1. n + 1 \in 1 .. m /\ (n + 1) - 1 = n
    BY <1>1, <1>6
  <2>2. u = RamTurn(t, w)
    BY <1>4, <2>1
  <2>3. Books(t) /\ t.disk_bytes <= DiskMax
    BY <1>6
  <2>4. t.ram_bytes \in Nat /\ RamMax \in Nat
    BY <1>6, ShelfLens, SpillAssumption DEF Books
  <2> HIDE DEF t, u
  <2>5. CASE t.ram_bytes > RamMax
    <3>1. u = MoveToDisk(t, w)
      BY <2>2, <2>5 DEF RamTurn
    <3>2. ~(t.ram_bytes <= RamMax)
      BY <2>4, <2>5
    <3>3. Len(t.ram_lru) = m - n
      BY <1>6, <3>2 DEF t
    <3>4. t.ram_lru # <<>>
      BY <1>1, <1>6, <3>3
    <3>5. Books(u) /\ u.disk_bytes <= DiskMax /\ Len(u.ram_lru) = Len(t.ram_lru) - 1
      BY <2>3, <3>1, <3>4, MoveToDiskBooks
    <3>6. Len(u.ram_lru) = m - (n + 1)
      BY <1>1, <3>3, <3>5
    <3> QED
      BY <3>5, <3>6 DEF u
  <2>6. CASE ~(t.ram_bytes > RamMax)
    <3>1. u = t /\ t.ram_bytes <= RamMax
      BY <2>2, <2>4, <2>6 DEF RamTurn
    <3> QED
      BY <1>6, <3>1 DEF u, t
  <2> QED
    BY <2>5, <2>6
<1> HIDE DEF Good
<1>7. 0 \in P /\ \A n \in Nat : n \in P => n + 1 \in P
  BY <1>1, <1>5, <1>6
<1> HIDE DEF P
<1>8. Nat \subseteq P
  BY <1>7, Induction
<1>9. Good(m)
  BY <1>1, <1>8 DEF P
<1> DEFINE t == turn[m]
<1>10. /\ Books(t) /\ t.disk_bytes <= DiskMax
       /\ t.ram_bytes <= RamMax \/ Len(t.ram_lru) = m - m
  BY <1>9 DEF Good
<1> HIDE DEF t
<1>11. ASSUME Len(t.ram_lru) = m - m
       PROVE  t.ram_bytes <= RamMax
  <2>1. Shelf(t.ram_lru, Lens(t.ram), t.ram_bytes)
    BY <1>10 DEF Books
  <2>2. t.ram_lru = <<>>
    BY <1>1, <1>11, <2>1 DEF Shelf
  <2>3. t.ram_bytes = 0
    BY <2>1, <2>2, ShelfEmpty
  <2> QED
    BY <2>3, SpillAssumption
<1> QED
  BY <1>3, <1>10, <1>11 DEF t, StoreOK

----------------------------------------------------------------------------
(***************************************************************************)
(* The methods.                                                            *)
(***************************************************************************)

\* put, of the block its hash names.
LEMMA PutOK ==
    ASSUME NEW s, StoreOK(s), NEW h \in Hashes, NEW w \in Outcomes
    PROVE  StoreOK(put(s, h, Bytes(h), w))
<1> DEFINE bytes == Bytes(h)
           t == [s EXCEPT !.ram = Added(@, h, bytes), !.ram_lru = Append(@, h),
                          !.ram_bytes = @ + bytes.len]
<1>1. CASE contains_hash(s, h) \/ (bytes.len > RamMax /\ bytes.len > DiskMax)
  <2>1. put(s, h, Bytes(h), w) = s
    BY <1>1 DEF put
  <2> QED
    BY <2>1
<1>2. CASE ~(contains_hash(s, h) \/ (bytes.len > RamMax /\ bytes.len > DiskMax))
  <2>1. put(s, h, Bytes(h), w) = evict_ram(t, w)
    BY <1>2 DEF put
  <2>2. h \notin DOMAIN s.ram /\ h \notin DOMAIN s.disk
    BY <1>2 DEF contains_hash
  <2>3. /\ DOMAIN s = StoreFields /\ Shelf(s.ram_lru, Lens(s.ram), s.ram_bytes)
        /\ DOMAIN s.ram \cap DOMAIN s.disk = {} /\ DOMAIN s.ram \subseteq Hashes
        /\ \A x \in DOMAIN s.ram : s.ram[x] = Bytes(x)
        /\ Books(s) /\ s.disk_bytes <= DiskMax
    BY DEF StoreOK, Books
  <2>4. /\ DOMAIN t = StoreFields /\ t.ram = Added(s.ram, h, bytes)
        /\ t.ram_lru = Append(s.ram_lru, h) /\ t.ram_bytes = s.ram_bytes + bytes.len
        /\ t.disk = s.disk /\ t.disk_lru = s.disk_lru /\ t.disk_bytes = s.disk_bytes
        /\ t.files = s.files
    BY <2>3 DEF StoreFields
  <2>5. DOMAIN Lens(s.ram) = DOMAIN s.ram /\ bytes.len \in Nat
    BY TierAssumption DEF Lens, Bytes
  <2>6. Lens(Added(s.ram, h, bytes)) = Added(Lens(s.ram), h, bytes.len)
    BY DEF Lens, Added
  <2>7. /\ DOMAIN Added(s.ram, h, bytes) = DOMAIN s.ram \cup {h}
        /\ Added(s.ram, h, bytes)[h] = bytes
        /\ \A x \in DOMAIN s.ram : x # h => Added(s.ram, h, bytes)[x] = s.ram[x]
    BY DEF Added
  <2> HIDE DEF t, bytes
  <2>8. Shelf(t.ram_lru, Lens(t.ram), t.ram_bytes)
    BY <2>2, <2>3, <2>4, <2>5, <2>6, ShelfPush
  <2>9. \A x \in DOMAIN t.ram : t.ram[x] = Bytes(x)
    BY <2>3, <2>4, <2>7 DEF bytes
  <2>10. DOMAIN t.ram \cap DOMAIN t.disk = {} /\ DOMAIN t.ram \subseteq Hashes
    BY <2>2, <2>3, <2>4, <2>7
  <2>11. Books(t)
    BY <2>3, <2>4, <2>8, <2>9, <2>10 DEF Books
  <2> QED
    BY <2>1, <2>3, <2>4, <2>11, EvictRamBooks
<1> QED
  BY <1>1, <1>2

\* get.
LEMMA GetOK ==
    ASSUME NEW s, StoreOK(s), NEW h
    PROVE  StoreOK(get(s, h).store) /\ GotOK([hash |-> h, bytes |-> get(s, h).bytes])
<1> DEFINE r == get(s, h)
           t1 == [s EXCEPT !.ram_lru = Append(Retained(@, h), h)]
           t2 == [s EXCEPT !.disk_lru = Append(Retained(@, h), h)]
           t3 == [s EXCEPT !.disk = Dropped(@, {h}), !.disk_lru = Retained(@, h),
                           !.disk_bytes = @ - s.disk[h]]
<1>1. /\ DOMAIN s = StoreFields /\ Shelf(s.ram_lru, Lens(s.ram), s.ram_bytes)
      /\ Shelf(s.disk_lru, s.disk, s.disk_bytes)
      /\ \A x \in DOMAIN s.ram : s.ram[x] = Bytes(x)
      /\ FilesOK(s.files) /\ Books(s) /\ s.disk_bytes <= DiskMax /\ s.ram_bytes <= RamMax
      /\ DOMAIN s.ram \cap DOMAIN s.disk = {}
  BY DEF StoreOK, Books
<1>2. CASE h \in DOMAIN s.ram
  <2>1. r.store = t1 /\ r.bytes = s.ram[h]
    BY <1>2 DEF get
  <2>2. /\ DOMAIN t1 = StoreFields /\ t1.ram_lru = Append(Retained(s.ram_lru, h), h)
        /\ t1.ram = s.ram /\ t1.ram_bytes = s.ram_bytes /\ t1.disk = s.disk
        /\ t1.disk_lru = s.disk_lru /\ t1.disk_bytes = s.disk_bytes /\ t1.files = s.files
    BY <1>1 DEF StoreFields
  <2> HIDE DEF t1, r
  <2>3. h \in DOMAIN Lens(s.ram)
    BY <1>2 DEF Lens
  <2>4. Shelf(t1.ram_lru, Lens(t1.ram), t1.ram_bytes)
    BY <1>1, <2>2, <2>3, ShelfTouch
  <2>5. StoreOK(t1)
    BY <1>1, <2>2, <2>4 DEF StoreOK, Books
  <2>6. r.bytes = Bytes(h) /\ Bytes(h).data = h
    BY <1>1, <1>2, <2>1 DEF Bytes
  <2> QED
    BY <2>1, <2>5, <2>6 DEF GotOK, r
<1>3. CASE h \notin DOMAIN s.ram /\ h \in DOMAIN s.disk /\ h \in DOMAIN s.files
  <2>1. r.store = t2 /\ r.bytes = s.files[h]
    BY <1>3 DEF get
  <2>2. /\ DOMAIN t2 = StoreFields /\ t2.disk_lru = Append(Retained(s.disk_lru, h), h)
        /\ t2.ram = s.ram /\ t2.ram_bytes = s.ram_bytes /\ t2.disk = s.disk
        /\ t2.ram_lru = s.ram_lru /\ t2.disk_bytes = s.disk_bytes /\ t2.files = s.files
    BY <1>1 DEF StoreFields
  <2> HIDE DEF t2, r
  <2>3. Shelf(t2.disk_lru, t2.disk, t2.disk_bytes)
    BY <1>1, <1>3, <2>2, ShelfTouch
  <2>4. StoreOK(t2)
    BY <1>1, <2>2, <2>3 DEF StoreOK, Books
  <2>5. FileOK(h, r.bytes)
    BY <1>1, <1>3, <2>1 DEF FilesOK
  <2> QED
    BY <2>1, <2>4, <2>5 DEF GotOK, FileOK, r
<1>4. CASE h \notin DOMAIN s.ram /\ h \in DOMAIN s.disk /\ h \notin DOMAIN s.files
  <2>1. r.store = t3 /\ r.bytes = NoBytes
    BY <1>4 DEF get, forget_disk
  <2>2. /\ DOMAIN t3 = StoreFields /\ t3.disk_lru = Retained(s.disk_lru, h)
        /\ t3.ram = s.ram /\ t3.ram_bytes = s.ram_bytes /\ t3.disk = Dropped(s.disk, {h})
        /\ t3.ram_lru = s.ram_lru /\ t3.disk_bytes = s.disk_bytes - s.disk[h]
        /\ t3.files = s.files
    BY <1>1 DEF StoreFields
  <2> HIDE DEF t3, r
  <2>3. Shelf(t3.disk_lru, t3.disk, t3.disk_bytes)
    BY <1>1, <1>4, <2>2, ShelfForget
  <2>4. DOMAIN t3.ram \cap DOMAIN t3.disk = {}
    BY <1>1, <2>2 DEF Dropped
  <2>5. s.disk[h] \in Nat /\ s.disk_bytes \in Nat /\ DiskMax \in Nat
    BY <1>1, <1>4, ShelfLens, SpillAssumption DEF Shelf
  <2>6. t3.disk_bytes <= DiskMax
    BY <1>1, <2>2, <2>5
  <2>7. StoreOK(t3)
    BY <1>1, <2>2, <2>3, <2>4, <2>6 DEF StoreOK, Books
  <2> QED
    BY <2>1, <2>7 DEF GotOK, r
<1>5. CASE h \notin DOMAIN s.ram /\ h \notin DOMAIN s.disk
  <2>1. r.store = s /\ r.bytes = NoBytes
    BY <1>5 DEF get
  <2> QED
    BY <2>1 DEF GotOK
<1> QED
  BY <1>2, <1>3, <1>4, <1>5

\* read_dir: whatever the order, every file once.
LEMMA OrderFacts ==
    ASSUME NEW S \in SUBSET Hashes, NEW order \in SetToSeqs(S)
    PROVE  order \in Seq(S) /\ NoRepeats(order) /\ ToSet(order) = S
<1> DEFINE D == 1 .. Cardinality(S)
<1>1. IsFiniteSet(S) /\ Cardinality(S) \in Nat
  BY TierAssumption, FS_Subset, FS_CardinalityType
<1>2. order \in [D -> S] /\ \A i, j \in D : i # j => order[i] # order[j]
  BY DEF SetToSeqs
<1>3. IsFiniteSet(D) /\ Cardinality(D) = Cardinality(S)
  BY <1>1, FS_Interval
<1>4. order \in Injection(D, S)
  <2> HIDE DEF D
  <2> QED
    BY <1>2 DEF Injection, IsInjective
<1>5. order \in Surjection(D, S)
  <2> HIDE DEF D
  <2> QED
    BY <1>1, <1>3, <1>4, FS_Injection
<1>6. order \in Seq(S) /\ Len(order) = Cardinality(S) /\ DOMAIN order = D
  BY <1>1, <1>2
<1>7. ToSet(order) = S
  <2> HIDE DEF D
  <2>1. \A x \in S : \E i \in D : order[i] = x
    BY <1>5 DEF Surjection
  <2> QED
    BY <1>2, <1>6, <2>1 DEF ToSet
<1> QED
  BY <1>2, <1>6, <1>7 DEF NoRepeats

\* open.
LEMMA OpenOK ==
    ASSUME NEW files, FilesOK(files), NEW order \in Seq(DOMAIN files),
           NoRepeats(order), ToSet(order) = DOMAIN files
    PROVE  StoreOK(open(files, order))
<1> DEFINE disk == IF HasDir THEN [h \in DOMAIN files |-> files[h].len] ELSE <<>>
           s == [ ram |-> <<>>, ram_lru |-> <<>>, ram_bytes |-> 0,
                  disk |-> disk,
                  disk_lru |-> IF HasDir THEN order ELSE <<>>,
                  disk_bytes |-> IF HasDir THEN Total(order, disk) ELSE 0,
                  files |-> files ]
<1>1. open(files, order) = IF HasDir THEN evict_disk(s) ELSE s
  BY DEF open
<1>2. /\ DOMAIN s = StoreFields /\ s.ram = <<>> /\ s.ram_lru = <<>> /\ s.ram_bytes = 0
      /\ s.disk = disk /\ s.disk_lru = (IF HasDir THEN order ELSE <<>>)
      /\ s.disk_bytes = (IF HasDir THEN Total(order, disk) ELSE 0) /\ s.files = files
  BY DEF StoreFields
<1>3. DOMAIN Lens(<<>>) = {} /\ DOMAIN <<>> = {}
  BY DEF Lens
<1>4. ASSUME NEW f, DOMAIN f = {}
      PROVE  Shelf(<<>>, f, 0)
  BY <1>4, EmptySet, TotalEmpty DEF Shelf
<1>5. CASE HasDir
  <2>1. DOMAIN disk = DOMAIN files /\ \A h \in DOMAIN files : disk[h] \in Nat
    BY <1>5 DEF FilesOK, FileOK
  <2> HIDE DEF disk, s
  <2>2. Shelf(s.disk_lru, s.disk, s.disk_bytes)
    BY <1>2, <1>5, <2>1 DEF Shelf
  <2>3. Books(s)
    BY <1>2, <1>3, <1>4, <2>2 DEF Books
  <2>4. Books(evict_disk(s)) /\ evict_disk(s).disk_bytes <= DiskMax /\ evict_disk(s).ram_bytes = 0
    BY <1>2, <2>3, EvictDiskBooks
  <2> QED
    BY <1>1, <1>5, <2>4, SpillAssumption DEF StoreOK
<1>6. CASE ~HasDir
  <2>1. s.disk = <<>> /\ s.disk_lru = <<>> /\ s.disk_bytes = 0
    BY <1>2, <1>6
  <2> HIDE DEF disk, s
  <2>2. Books(s)
    BY <1>2, <1>3, <1>4, <2>1 DEF Books
  <2> QED
    BY <1>1, <1>2, <1>6, <2>1, <2>2, SpillAssumption DEF StoreOK
<1> QED
  BY <1>5, <1>6

----------------------------------------------------------------------------
\* The inductive invariant of the tier.
TierInv == StoreOK(store) /\ (got # NoBytes => GotOK(got))

\* A process that starts on files it may have written itself.
LEMMA ReopenInv ==
    ASSUME NEW files, FilesOK(files), Reopen(files)
    PROVE  TierInv'
<1>1. got' = NoBytes /\ \E order \in SetToSeqs(DOMAIN files) : store' = open(files, order)
  BY DEF Reopen
<1>2. PICK order \in SetToSeqs(DOMAIN files) : store' = open(files, order)
  BY <1>1
<1>3. DOMAIN files \in SUBSET Hashes
  BY DEF FilesOK
<1>4. order \in Seq(DOMAIN files) /\ NoRepeats(order) /\ ToSet(order) = DOMAIN files
  BY <1>3, OrderFacts
<1>5. StoreOK(store')
  BY <1>2, <1>4, OpenOK
<1>6. TierInv' <=> StoreOK(store') /\ (got' # NoBytes => GotOK(got'))
  BY DEF TierInv, StoreOK, Books, FilesOK, FileOK, Shelf, Lens, GotOK, Bytes
<1> QED
  BY <1>1, <1>5, <1>6

\* The invariant holds of a store just opened.
LEMMA InitTier == Init => TierInv
<1> SUFFICES ASSUME Init PROVE TierInv
  OBVIOUS
<1>1. store = open(<<>>, <<>>) /\ got = NoBytes
  BY DEF Init
<1>2. FilesOK(<<>>) /\ DOMAIN <<>> = {}
  BY DEF FilesOK
<1>3. <<>> \in Seq(DOMAIN <<>>) /\ NoRepeats(<<>>) /\ ToSet(<<>>) = DOMAIN <<>>
  BY <1>2, EmptySet
<1>4. StoreOK(open(<<>>, <<>>))
  BY <1>2, <1>3, OpenOK
<1> QED
  BY <1>1, <1>4 DEF TierInv

\* Every operation, failure, crash and restart keeps the invariant.
LEMMA StepTier == TierInv /\ [Next]_vars => TierInv'
<1> SUFFICES ASSUME TierInv, [Next]_vars PROVE TierInv'
  OBVIOUS
<1>1. TierInv' <=> StoreOK(store') /\ (got' # NoBytes => GotOK(got'))
  BY DEF TierInv, StoreOK, Books, FilesOK, FileOK, Shelf, Lens, GotOK, Bytes
<1>2. StoreOK(store) /\ (got # NoBytes => GotOK(got))
  BY DEF TierInv
<1>3. CASE UNCHANGED vars
  BY <1>1, <1>2, <1>3 DEF vars
<1>4. ASSUME NEW h \in Hashes, Put(h) PROVE TierInv'
  <2>1. /\ got' = got
        /\ \E w \in Outcomes : store' = put(store, h, Bytes(h), w)
    BY <1>4 DEF Put, Outcomes
  <2>2. PICK w \in Outcomes : store' = put(store, h, Bytes(h), w)
    BY <2>1
  <2> QED
    BY <1>1, <1>2, <2>1, <2>2, PutOK
<1>5. ASSUME NEW h \in Hashes, Get(h) PROVE TierInv'
  <2>1. got' = [hash |-> h, bytes |-> get(store, h).bytes] /\ store' = get(store, h).store
    BY <1>5 DEF Get
  <2> QED
    BY <1>1, <1>2, <2>1, GetOK
<1>6. ASSUME NEW h \in Hashes, Deleted(h) PROVE TierInv'
  <2>1. got' = got /\ store' = [store EXCEPT !.files = Dropped(@, {h})]
    BY <1>6 DEF Deleted
  <2>2. DOMAIN store = StoreFields /\ FilesOK(store.files)
    BY <1>2 DEF StoreOK, Books
  <2>3. /\ DOMAIN store' = StoreFields /\ store'.files = Dropped(store.files, {h})
        /\ store'.ram = store.ram /\ store'.ram_lru = store.ram_lru
        /\ store'.ram_bytes = store.ram_bytes /\ store'.disk = store.disk
        /\ store'.disk_lru = store.disk_lru /\ store'.disk_bytes = store.disk_bytes
    BY <2>1, <2>2 DEF StoreFields
  <2>4. FilesOK(store'.files)
    BY <2>2, <2>3 DEF FilesOK, Dropped
  <2> DEFINE t == store'
  <2> HIDE DEF t
  <2>5. StoreOK(t)
    BY <1>2, <2>3, <2>4 DEF StoreOK, Books, t
  <2> QED
    BY <1>1, <1>2, <2>1, <2>5 DEF t
<1>7. CASE Restart
  BY <1>2, <1>7, ReopenInv DEF Restart, StoreOK, Books
<1>8. CASE CrashWhileWriting
  <2> DEFINE h == Head(store.ram_lru)
             torn == [data |-> h, len |-> BlockBytes - 1]
  <2>1. TornWrites /\ store.ram_lru # <<>> /\ Reopen(Added(store.files, h, torn))
    BY <1>8 DEF CrashWhileWriting
  <2>2. /\ Shelf(store.ram_lru, Lens(store.ram), store.ram_bytes) /\ FilesOK(store.files)
        /\ DOMAIN Lens(store.ram) = DOMAIN store.ram /\ DOMAIN store.ram \subseteq Hashes
    BY <1>2 DEF StoreOK, Books, Lens
  <2>3. h \in Hashes
    BY <2>1, <2>2, ShelfPop
  <2>4. torn.data = h /\ torn.len \in Nat
    BY TierAssumption
  <2> HIDE DEF h, torn
  <2>5. FilesOK(Added(store.files, h, torn))
    BY <2>1, <2>2, <2>3, <2>4 DEF FilesOK, FileOK, Added
  <2> QED
    BY <2>1, <2>5, ReopenInv
<1> QED
  BY <1>3, <1>4, <1>5, <1>6, <1>7, <1>8 DEF Next

\* The invariant holds in every reachable state of the tier.
THEOREM TierHolds == Spec => []TierInv
  BY InitTier, StepTier, PTL DEF Spec

\* spill.rs: in every history of puts and gets, failed and torn writes, lost
\* files, crashes and restarts, ram_bytes and disk_bytes are what the tiers
\* hold, each list names each entry once, and neither tier exceeds its cap.
THEOREM AlwaysAccounted == Spec => []Accounting
<1>1. TierInv => Accounting
  <2> SUFFICES ASSUME TierInv PROVE Accounting
    OBVIOUS
  <2>1. /\ Shelf(store.ram_lru, Lens(store.ram), store.ram_bytes)
        /\ Shelf(store.disk_lru, store.disk, store.disk_bytes)
        /\ store.ram_bytes <= RamMax /\ store.disk_bytes <= DiskMax
    BY DEF TierInv, StoreOK, Books
  <2>2. Lens(store.ram) = Lengths /\ DOMAIN Lengths = DOMAIN store.ram
    BY DEF Lens, Lengths
  <2> QED
    BY <2>1, <2>2 DEF Accounting, Enumerates, Shelf
<1> QED
  BY <1>1, TierHolds, PTL

\* SpillStore::get: the bytes read under a hash are always of the block that
\* was put under it, whichever tier they come from.
THEOREM AlwaysOwn == Spec => []ReturnsOwn
<1>1. TierInv => ReturnsOwn
  BY DEF TierInv, ReturnsOwn, GotOK
<1> QED
  BY <1>1, TierHolds, PTL

\* "A file left on disk by a previous run of the same model is still valid"
\* (spill.rs): the whole block comes back, as long as no write leaves part of
\* a file behind.
THEOREM WholeWithoutTornWrites == ~TornWrites => (Spec => []ReturnsWhole)
<1> SUFFICES ASSUME ~TornWrites PROVE Spec => []ReturnsWhole
  OBVIOUS
<1>1. TierInv => ReturnsWhole
  BY DEF TierInv, ReturnsWhole, GotOK
<1> QED
  BY <1>1, TierHolds, PTL
=============================================================================
