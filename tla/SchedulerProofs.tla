-------------------------- MODULE SchedulerProofs --------------------------
(***************************************************************************)
(* Proofs about the scheduler (Scheduler), for every number of blocks,     *)
(* batch and chunk size, set of requests and vocabulary: no sequence is in *)
(* two queues or scheduled after being freed, no request overtakes another,*)
(* and generation ends where it must.                                      *)
(***************************************************************************)
EXTENDS Scheduler, ListProofs, FiniteSetTheorems, SequenceTheorems

Fields == {"rid", "ns", "max_tokens", "stop", "status", "reason", "tokens", "prompt_len",
           "num_computed", "prefill_target", "blocks", "num_cached_blocks", "choice", "stream"}
Statuses == {"waiting", "prefilling", "decoding", "preempted", "finished"}

\* Every sequence has the fields of sequence.rs Sequence, and a status.
Recorded(ss) == \A i \in DOMAIN ss : DOMAIN ss[i] = Fields /\ ss[i].status \in Statuses

\* The queue w, the running list r and the list f of finished ids name, once
\* each, exactly the sequences whose status they stand for.
Queued(ss, w, r, f) ==
    /\ w \in Seq(Nat) /\ r \in Seq(Nat) /\ f \in Seq(Nat)
    /\ NoRepeats(w) /\ NoRepeats(r) /\ NoRepeats(f)
    /\ ToSet(w) = {i \in DOMAIN ss : ss[i].status \in {"waiting", "preempted"}}
    /\ ToSet(r) = {i \in DOMAIN ss : Active(ss[i])}
    /\ ToSet(f) = {i \in DOMAIN ss : is_finished(ss[i])}

\* In the waiting queue the preempted come first, then the requests never
\* started, in the order they were admitted.
InOrder(ss, w) ==
    \A a, b \in 1 .. Len(w) :
        (a < b /\ ss[w[a]].status = "waiting") => ss[w[b]].status = "waiting" /\ w[a] < w[b]

\* schedule_decodes empties the running list and fills it again.
RunList == IF phase = "decodes" THEN running \o todo ELSE running

\* The plan has each sequence at most once; while it is made its sequences
\* run, and until the step ends they are live.
PlanOK ==
    /\ plan \in Seq(ToSet(plan))
    /\ PlanIds \in Seq(Nat)
    /\ NoRepeats(PlanIds)
    /\ phase \in {"decodes", "prefills", "starts", "forward"} => ToSet(PlanIds) \subseteq ToSet(running)
    /\ phase = "decodes" => \A i \in ToSet(PlanIds) : ~needs_prefill(seqs[i])
    /\ phase \in {"stops", "advance", "tokens", "publish", "forks", "forking", "seeding"} =>
          ToSet(PlanIds) \subseteq DOMAIN seqs

\* What each loop has still to visit.
TodoOK ==
    /\ todo \in Seq(Nat)
    /\ running \in Seq(Nat)
    /\ phase = "prefills" => NoRepeats(todo) /\ ToSet(todo) \subseteq ToSet(running) \ ToSet(PlanIds)
    /\ phase \in {"stops", "tokens"} => NoRepeats(todo)
    /\ phase \in {"stops", "tokens", "forks", "forking", "seeding"} =>
          ToSet(todo) \subseteq ToSet(PlanIds)

\* The fork in progress names a live leader, and children that are no leaders.
ForkOK ==
    /\ DOMAIN fork = {"leader", "left", "ids", "copies", "failed"}
    /\ phase \in {"forking", "seeding"} => fork.leader \in DOMAIN seqs
    /\ fork.ids \in Seq(Nat)
    /\ \A i \in ToSet(fork.ids) : i < next_id /\ (i \in DOMAIN seqs => seqs[i].choice # 0)

\* The inductive invariant.  Once the engine thread has panicked only the
\* sequences are looked at.
IInv ==
    /\ next_id \in Nat
    /\ DOMAIN seqs \subseteq 0 .. (next_id - 1)
    /\ Recorded(seqs)
    /\ NoOvertaking
    /\ phase # "panicked" => /\ Queued(seqs, waiting, RunList, finished)
                             /\ InOrder(seqs, waiting)
                             /\ PlanOK
                             /\ TodoOK
                             /\ ForkOK

----------------------------------------------------------------------------
(***************************************************************************)
(* The queues, whatever the step that changes them.                        *)
(***************************************************************************)

\* A sequence's status puts it in one class.
LEMMA OneClass ==
    ASSUME NEW s
    PROVE  /\ Active(s) => s.status \notin {"waiting", "preempted"} /\ ~is_finished(s)
           /\ is_finished(s) => s.status \notin {"waiting", "preempted"}
  BY DEF Active, is_finished

\* Sequences that change nothing the queues depend on.
LEMMA QueuedSame ==
    ASSUME NEW ss, NEW w, NEW r, NEW f, Queued(ss, w, r, f), InOrder(ss, w),
           NEW tt, DOMAIN tt = DOMAIN ss,
           \A i \in DOMAIN ss : tt[i].status = ss[i].status \/ (Active(tt[i]) /\ Active(ss[i]))
    PROVE  Queued(tt, w, r, f) /\ InOrder(tt, w)
<1>1. \A i \in DOMAIN ss : /\ Active(tt[i]) <=> Active(ss[i])
                           /\ is_finished(tt[i]) <=> is_finished(ss[i])
                           /\ tt[i].status = "waiting" <=> ss[i].status = "waiting"
                           /\ tt[i].status \in {"waiting", "preempted"}
                                 <=> ss[i].status \in {"waiting", "preempted"}
  BY DEF Active, is_finished
<1>2. Queued(tt, w, r, f)
  BY <1>1 DEF Queued
<1>3. \A a \in 1 .. Len(w) : w[a] \in DOMAIN ss
  BY DEF Queued, ToSet
<1>4. InOrder(tt, w)
  BY <1>1, <1>3 DEF InOrder
<1> QED
  BY <1>2, <1>4

\* A running sequence is preempted: it goes to the head of the queue.
LEMMA QueuedPreempt ==
    ASSUME NEW ss, NEW w, NEW r, NEW f, Queued(ss, w, r, f), InOrder(ss, w),
           NEW id \in ToSet(r), NEW s, s.status = "preempted",
           NEW t \in Seq(Nat), NoRepeats(t), ToSet(t) = ToSet(r) \ {id}
    PROVE  /\ Queued([ss EXCEPT ![id] = s], <<id>> \o w, t, f)
           /\ InOrder([ss EXCEPT ![id] = s], <<id>> \o w)
<1> DEFINE tt == [ss EXCEPT ![id] = s]
           v  == <<id>> \o w
<1>1. id \in DOMAIN ss /\ id \in Nat /\ Active(ss[id]) /\ id \notin ToSet(w) /\ id \notin ToSet(f)
  <2>1. id \in DOMAIN ss /\ Active(ss[id])
    BY DEF Queued
  <2>2. id \in Nat
    BY DEF Queued, ToSet
  <2> QED
    BY <2>1, <2>2, OneClass DEF Queued
<1>2. /\ DOMAIN tt = DOMAIN ss /\ tt[id] = s
      /\ \A i \in DOMAIN ss : i # id => tt[i] = ss[i]
  BY <1>1
<1>3. ~Active(s) /\ ~is_finished(s)
  BY DEF Active, is_finished
<1> HIDE DEF tt
<1>4. v \in Seq(Nat) /\ NoRepeats(v) /\ ToSet(v) = ToSet(w) \cup {id}
  BY <1>1, ConsSet DEF Queued
<1>5. Queued(tt, v, t, f)
  <2>1. ToSet(v) = {i \in DOMAIN tt : tt[i].status \in {"waiting", "preempted"}}
    BY <1>1, <1>2, <1>4 DEF Queued
  <2>2. ToSet(t) = {i \in DOMAIN tt : Active(tt[i])}
    BY <1>1, <1>2, <1>3 DEF Queued
  <2>3. ToSet(f) = {i \in DOMAIN tt : is_finished(tt[i])}
    BY <1>1, <1>2, <1>3 DEF Queued
  <2> QED
    BY <1>4, <2>1, <2>2, <2>3 DEF Queued
<1>6. ASSUME NEW a \in 1 .. Len(v), NEW b \in 1 .. Len(v), a < b, tt[v[a]].status = "waiting"
      PROVE  tt[v[b]].status = "waiting" /\ v[a] < v[b]
  <2>1. w \in Seq(Nat) /\ Len(w) \in Nat
    BY DEF Queued
  <2>2. Len(v) = Len(w) + 1 /\ v[1] = id /\ \A i \in 2 .. (Len(w) + 1) : v[i] = w[i - 1]
    BY <1>1, <2>1, ConsFacts
  <2>3. a # 1
    BY <1>2, <1>6, <2>2
  <2>4. /\ a - 1 \in 1 .. Len(w) /\ b - 1 \in 1 .. Len(w) /\ a - 1 < b - 1
        /\ v[a] = w[a - 1] /\ v[b] = w[b - 1]
    BY <1>6, <2>1, <2>2, <2>3
  <2>5. w[a - 1] \in ToSet(w) /\ w[b - 1] \in ToSet(w)
    BY <2>1, <2>4 DEF ToSet
  <2>6. tt[w[a - 1]] = ss[w[a - 1]] /\ tt[w[b - 1]] = ss[w[b - 1]]
    BY <1>1, <1>2, <2>5 DEF Queued
  <2> QED
    BY <1>6, <2>4, <2>6, SMTT(20) DEF InOrder
<1>7. InOrder(tt, v)
  BY <1>6 DEF InOrder
<1> QED
  BY <1>5, <1>7 DEF tt

\* The head of the queue starts.
LEMMA QueuedStart ==
    ASSUME NEW ss, NEW w, NEW r, NEW f, Queued(ss, w, r, f), InOrder(ss, w), w # <<>>,
           NEW s, Active(s)
    PROVE  /\ Queued([ss EXCEPT ![Head(w)] = s], Tail(w), Append(r, Head(w)), f)
           /\ InOrder([ss EXCEPT ![Head(w)] = s], Tail(w))
<1> DEFINE id == Head(w)
           tt == [ss EXCEPT ![id] = s]
           v  == Tail(w)
           t  == Append(r, id)
<1>1. /\ id \in Nat /\ v \in Seq(Nat) /\ NoRepeats(v) /\ id \in ToSet(w) /\ id \notin ToSet(v)
      /\ ToSet(w) = ToSet(v) \cup {id}
  BY TailSet DEF Queued
<1>2. id \in DOMAIN ss /\ ss[id].status \in {"waiting", "preempted"}
  BY <1>1 DEF Queued
<1>3. id \notin ToSet(r) /\ id \notin ToSet(f)
  BY <1>2, OneClass DEF Queued
<1>4. t \in Seq(Nat) /\ NoRepeats(t) /\ ToSet(t) = ToSet(r) \cup {id}
  BY <1>1, <1>3, AppendSet DEF Queued
<1>5. s.status \notin {"waiting", "preempted"} /\ ~is_finished(s)
  BY OneClass
<1>6. /\ DOMAIN tt = DOMAIN ss /\ tt[id] = s
      /\ \A i \in DOMAIN ss : i # id => tt[i] = ss[i]
  BY <1>2
<1>7. w \in Seq(Nat) /\ Len(v) = Len(w) - 1 /\ \A i \in 1 .. Len(v) : v[i] = w[i + 1]
  BY TailFacts DEF Queued
<1> HIDE DEF id, tt, v, t
<1>8. Queued(tt, v, t, f)
  <2>1. ToSet(v) = {i \in DOMAIN tt : tt[i].status \in {"waiting", "preempted"}}
    BY <1>1, <1>5, <1>6 DEF Queued
  <2>2. ToSet(t) = {i \in DOMAIN tt : Active(tt[i])}
    BY <1>2, <1>4, <1>6 DEF Queued
  <2>3. ToSet(f) = {i \in DOMAIN tt : is_finished(tt[i])}
    BY <1>3, <1>5, <1>6 DEF Queued
  <2> QED
    BY <1>1, <1>4, <2>1, <2>2, <2>3 DEF Queued
<1>9. ASSUME NEW a \in 1 .. Len(v), NEW b \in 1 .. Len(v), a < b, tt[v[a]].status = "waiting"
      PROVE  tt[v[b]].status = "waiting" /\ v[a] < v[b]
  <2>1. Len(w) \in Nat /\ Len(v) \in Nat
    BY <1>1, <1>7
  <2>2. /\ a + 1 \in 1 .. Len(w) /\ b + 1 \in 1 .. Len(w) /\ a + 1 < b + 1
        /\ v[a] = w[a + 1] /\ v[b] = w[b + 1]
    BY <1>7, <1>9, <2>1
  <2>3. v[a] \in ToSet(v) /\ v[b] \in ToSet(v)
    BY <1>1 DEF ToSet
  <2>4. tt[v[a]] = ss[v[a]] /\ tt[v[b]] = ss[v[b]]
    BY <1>1, <1>6, <2>3 DEF Queued
  <2> QED
    BY <1>9, <2>2, <2>4 DEF InOrder
<1>10. InOrder(tt, v)
  BY <1>9 DEF InOrder
<1> QED
  BY <1>8, <1>10 DEF id, tt, v, t

\* Taking ids out of the queue keeps its order.
LEMMA OrderWithout ==
    ASSUME NEW ss, NEW w \in Seq(Nat), InOrder(ss, w), NEW S,
           NEW tt, \A i \in ToSet(w) \ S : tt[i].status = ss[i].status
    PROVE  InOrder(tt, Without(w, S))
<1> DEFINE v == Without(w, S)
<1>1. /\ v \in Seq(Nat) /\ ToSet(v) = ToSet(w) \ S
      /\ \A i, j \in 1 .. Len(v) : i < j =>
            \E k, l \in 1 .. Len(w) : k < l /\ v[i] = w[k] /\ v[j] = w[l]
  BY WithoutSet, WithoutFacts
<1> HIDE DEF v
<1>2. ASSUME NEW a \in 1 .. Len(v), NEW b \in 1 .. Len(v), a < b, tt[v[a]].status = "waiting"
      PROVE  tt[v[b]].status = "waiting" /\ v[a] < v[b]
  <2>1. PICK k \in 1 .. Len(w), l \in 1 .. Len(w) : k < l /\ v[a] = w[k] /\ v[b] = w[l]
    BY <1>1, <1>2
  <2>2. v[a] \in ToSet(v) /\ v[b] \in ToSet(v)
    BY <1>1 DEF ToSet
  <2>3. tt[v[a]].status = ss[v[a]].status /\ tt[v[b]].status = ss[v[b]].status
    BY <1>1, <2>2
  <2> QED
    BY <1>2, <2>1, <2>3 DEF InOrder
<1>3. InOrder(tt, v)
  BY <1>2 DEF InOrder
<1> QED
  BY <1>3 DEF v

\* finish.
LEMMA QueuedFinish ==
    ASSUME NEW ss, NEW w, NEW r, NEW f, Queued(ss, w, r, f), InOrder(ss, w),
           NEW ids \in Seq(Nat), NoRepeats(ids), ToSet(ids) \subseteq DOMAIN ss,
           NEW live, live = Without(ids, {i \in DOMAIN ss : is_finished(ss[i])}),
           NEW tt, DOMAIN tt = DOMAIN ss,
           \A i \in ToSet(live) : is_finished(tt[i]),
           \A i \in DOMAIN ss \ ToSet(live) : tt[i] = ss[i]
    PROVE  /\ Queued(tt, Without(w, ToSet(live)), Without(r, ToSet(live)), f \o live)
           /\ InOrder(tt, Without(w, ToSet(live)))
<1> DEFINE gone == ToSet(live)
           v == Without(w, gone)
           t == Without(r, gone)
           g == f \o live
<1>1. /\ live \in Seq(Nat) /\ NoRepeats(live)
      /\ gone = ToSet(ids) \ {i \in DOMAIN ss : is_finished(ss[i])}
  BY WithoutSet
<1>2. v \in Seq(Nat) /\ NoRepeats(v) /\ ToSet(v) = ToSet(w) \ gone
  BY WithoutSet DEF Queued
<1>3. t \in Seq(Nat) /\ NoRepeats(t) /\ ToSet(t) = ToSet(r) \ gone
  BY WithoutSet DEF Queued
<1>4. g \in Seq(Nat) /\ NoRepeats(g) /\ ToSet(g) = ToSet(f) \cup gone
  <2>1. ToSet(f) \cap gone = {}
    BY <1>1 DEF Queued
  <2>2. f \in Seq(Nat) /\ NoRepeats(f)
    BY DEF Queued
  <2>3. /\ f \o live \in Seq(Nat)
        /\ ToSet(f \o live) = ToSet(f) \cup ToSet(live)
        /\ (NoRepeats(f) /\ NoRepeats(live) /\ ToSet(f) \cap ToSet(live) = {})
              <=> NoRepeats(f \o live)
    <3>1. live \in Seq(Nat) /\ f \in Seq(Nat)
      BY <1>1, <2>2
    <3> QED
      BY ONLY <3>1, ConcatSet, Zenon
  <2> QED
    BY <1>1, <2>1, <2>2, <2>3
<1>5. gone \subseteq DOMAIN ss /\ \A i \in gone : is_finished(tt[i])
  BY <1>1
<1>6. \A i \in DOMAIN ss \ gone : tt[i] = ss[i]
  OBVIOUS
<1>7. InOrder(tt, v)
  <2>1. \A i \in ToSet(w) \ gone : tt[i].status = ss[i].status
    BY <1>6 DEF Queued
  <2>2. w \in Seq(Nat)
    BY DEF Queued
  <2> QED
    BY <2>1, <2>2, OrderWithout
<1> HIDE DEF gone, v, t, g
<1>8. \A i \in gone : ~Active(tt[i]) /\ tt[i].status \notin {"waiting", "preempted"}
  BY <1>5, OneClass
<1>9. ToSet(v) = {i \in DOMAIN tt : tt[i].status \in {"waiting", "preempted"}}
  BY <1>2, <1>6, <1>8 DEF Queued
<1>10. ToSet(t) = {i \in DOMAIN tt : Active(tt[i])}
  BY <1>3, <1>6, <1>8 DEF Queued
<1>11. ToSet(g) = {i \in DOMAIN tt : is_finished(tt[i])}
  BY <1>4, <1>5, <1>6 DEF Queued
<1>12. Queued(tt, v, t, g)
  BY <1>2, <1>3, <1>4, <1>9, <1>10, <1>11 DEF Queued
<1> QED
  BY <1>7, <1>12 DEF gone, v, t, g

\* admit: a new sequence at the end of the queue.
LEMMA QueuedAdmit ==
    ASSUME NEW ss, NEW w, NEW r, NEW f, Queued(ss, w, r, f), InOrder(ss, w),
           NEW n \in Nat, DOMAIN ss \subseteq 0 .. (n - 1), NEW s, s.status = "waiting"
    PROVE  /\ Queued(Bind(ss, n, s), Append(w, n), r, f)
           /\ InOrder(Bind(ss, n, s), Append(w, n))
<1> DEFINE tt == Bind(ss, n, s)
           v  == Append(w, n)
<1>1. /\ DOMAIN tt = DOMAIN ss \cup {n} /\ tt[n] = s /\ n \notin DOMAIN ss
      /\ \A i \in DOMAIN ss : tt[i] = ss[i]
  BY DEF Bind
<1>2. v \in Seq(Nat) /\ NoRepeats(v) /\ ToSet(v) = ToSet(w) \cup {n}
  <2>1. w \in Seq(Nat) /\ NoRepeats(w) /\ n \notin ToSet(w)
    BY <1>1 DEF Queued
  <2> QED
    BY <2>1, AppendSet
<1>3. ~Active(s) /\ ~is_finished(s)
  BY DEF Active, is_finished
<1>4. /\ w \in Seq(Nat) /\ Len(w) \in Nat /\ Len(v) = Len(w) + 1 /\ v[Len(w) + 1] = n
      /\ \A i \in 1 .. Len(w) : v[i] = w[i] /\ w[i] \in ToSet(w)
  <2>1. w \in Seq(Nat)
    BY DEF Queued
  <2> QED
    BY <2>1 DEF ToSet
<1> HIDE DEF tt, v
<1>5. Queued(tt, v, r, f)
  <2>1. ToSet(v) = {i \in DOMAIN tt : tt[i].status \in {"waiting", "preempted"}}
    BY <1>1, <1>2 DEF Queued
  <2>2. ToSet(r) = {i \in DOMAIN tt : Active(tt[i])}
    BY <1>1, <1>3 DEF Queued
  <2>3. ToSet(f) = {i \in DOMAIN tt : is_finished(tt[i])}
    BY <1>1, <1>3 DEF Queued
  <2> QED
    BY <1>2, <2>1, <2>2, <2>3 DEF Queued
<1>6. ASSUME NEW a \in 1 .. Len(v), NEW b \in 1 .. Len(v), a < b, tt[v[a]].status = "waiting"
      PROVE  tt[v[b]].status = "waiting" /\ v[a] < v[b]
  <2>1. a \in 1 .. Len(w) /\ v[a] = w[a] /\ w[a] \in ToSet(w)
    BY <1>4, <1>6
  <2>2. w[a] \in DOMAIN ss /\ tt[w[a]] = ss[w[a]]
    BY <1>1, <2>1 DEF Queued
  <2>3. CASE b \in 1 .. Len(w)
    <3>1. v[b] = w[b] /\ w[b] \in DOMAIN ss
      BY <1>4, <2>3 DEF Queued
    <3> QED
      BY <1>1, <1>6, <2>1, <2>2, <2>3, <3>1 DEF InOrder
  <2>4. CASE b \notin 1 .. Len(w)
    <3>1. b = Len(w) + 1 /\ v[b] = n
      BY <1>4, <2>4
    <3> QED
      BY <1>1, <2>1, <2>2, <3>1
  <2> QED
    BY <2>3, <2>4
<1>7. InOrder(tt, v)
  BY <1>6 DEF InOrder
<1> QED
  BY <1>5, <1>7 DEF tt, v

\* fork: a new running sequence.
LEMMA QueuedChild ==
    ASSUME NEW ss, NEW w, NEW r, NEW f, Queued(ss, w, r, f), InOrder(ss, w),
           NEW n \in Nat, n \notin DOMAIN ss, NEW s, Active(s)
    PROVE  /\ Queued(Bind(ss, n, s), w, Append(r, n), f)
           /\ InOrder(Bind(ss, n, s), w)
<1> DEFINE tt == Bind(ss, n, s)
           t  == Append(r, n)
<1>1. /\ DOMAIN tt = DOMAIN ss \cup {n} /\ tt[n] = s
      /\ \A i \in DOMAIN ss : tt[i] = ss[i]
  BY DEF Bind
<1>2. t \in Seq(Nat) /\ NoRepeats(t) /\ ToSet(t) = ToSet(r) \cup {n}
  <2>1. r \in Seq(Nat) /\ NoRepeats(r) /\ n \notin ToSet(r)
    BY DEF Queued
  <2> QED
    BY <2>1, AppendSet
<1>3. s.status \notin {"waiting", "preempted"} /\ ~is_finished(s)
  BY OneClass
<1> HIDE DEF tt, t
<1>4. Queued(tt, w, t, f)
  <2>1. ToSet(w) = {i \in DOMAIN tt : tt[i].status \in {"waiting", "preempted"}}
    BY <1>1, <1>3 DEF Queued
  <2>2. ToSet(t) = {i \in DOMAIN tt : Active(tt[i])}
    BY <1>1, <1>2 DEF Queued
  <2>3. ToSet(f) = {i \in DOMAIN tt : is_finished(tt[i])}
    BY <1>1, <1>3 DEF Queued
  <2> QED
    BY <1>2, <2>1, <2>2, <2>3 DEF Queued
<1>5. \A a \in 1 .. Len(w) : w[a] \in DOMAIN ss
  BY DEF Queued, ToSet
<1>6. InOrder(tt, w)
  BY <1>1, <1>5 DEF InOrder
<1> QED
  BY <1>4, <1>6 DEF tt, t

\* Reporting the finished, and dropping every sequence of a set with them.
LEMMA QueuedDrop ==
    ASSUME NEW ss, NEW w, NEW r, NEW f, Queued(ss, w, r, f), InOrder(ss, w), NEW gone,
           NEW v \in Seq(Nat), NoRepeats(v), ToSet(v) = ToSet(w) \ gone,
           NEW t \in Seq(Nat), NoRepeats(t), ToSet(t) = ToSet(r) \ gone
    PROVE  Queued([i \in DOMAIN ss \ (gone \cup ToSet(f)) |-> ss[i]], v, t, <<>>)
<1> DEFINE tt == [i \in DOMAIN ss \ (gone \cup ToSet(f)) |-> ss[i]]
<1>1. /\ DOMAIN tt = DOMAIN ss \ (gone \cup ToSet(f))
      /\ \A i \in DOMAIN tt : tt[i] = ss[i]
  OBVIOUS
<1> HIDE DEF tt
<1>2. \A i \in DOMAIN ss : i \in ToSet(f) =>
          ~Active(ss[i]) /\ ss[i].status \notin {"waiting", "preempted"}
  BY OneClass DEF Queued
<1>3. ToSet(v) = {i \in DOMAIN tt : tt[i].status \in {"waiting", "preempted"}}
  BY <1>1, <1>2 DEF Queued
<1>4. ToSet(t) = {i \in DOMAIN tt : Active(tt[i])}
  BY <1>1, <1>2 DEF Queued
<1>5. ToSet(<<>>) = {i \in DOMAIN tt : is_finished(tt[i])}
  BY <1>1, EmptySet DEF Queued
<1>6. Queued(tt, v, t, <<>>)
  BY <1>3, <1>4, <1>5, EmptySet DEF Queued
<1> QED
  BY <1>6 DEF tt

----------------------------------------------------------------------------
(***************************************************************************)
(* First come, first served, on a map of sequences: NoOvertaking.          *)
(***************************************************************************)
FirstCome(ss) ==
    \A i, j \in DOMAIN ss :
        (i < j /\ ss[i].status = "waiting" /\ ss[j].choice = 0) =>
            ss[j].status \in {"waiting", "finished"}

\* The property as a statement about the map of sequences, now and next.
LEMMA NoOvertakingIs == /\ NoOvertaking <=> FirstCome(seqs)
                        /\ NoOvertaking' <=> FirstCome(seqs')
  BY DEF NoOvertaking, FirstCome

\* What starts nothing and sends nothing back to "waiting" lets none overtake.
LEMMA FirstComeKept ==
    ASSUME NEW ss, FirstCome(ss), NEW tt, DOMAIN tt \subseteq DOMAIN ss,
           \A i \in DOMAIN tt :
              /\ tt[i].choice = ss[i].choice
              /\ tt[i].status = "waiting" => ss[i].status = "waiting"
              /\ ss[i].status \in {"waiting", "finished"} => tt[i].status \in {"waiting", "finished"}
    PROVE  FirstCome(tt)
  BY DEF FirstCome

\* The head of the queue may start.
LEMMA FirstComeStart ==
    ASSUME NEW ss, NEW w, NEW r, NEW f, Queued(ss, w, r, f), InOrder(ss, w), w # <<>>,
           DOMAIN ss \subseteq Nat, FirstCome(ss),
           NEW s, s.status # "waiting", s.choice = ss[Head(w)].choice
    PROVE  FirstCome([ss EXCEPT ![Head(w)] = s])
<1> DEFINE id == Head(w)
           tt == [ss EXCEPT ![id] = s]
<1>1. w \in Seq(Nat) /\ Len(w) \in Nat \ {0} /\ w[1] = id
  BY DEF Queued
<1>2. id \in ToSet(w)
  BY <1>1 DEF ToSet
<1>3. id \in DOMAIN ss /\ ss[id].status \in {"waiting", "preempted"}
  BY <1>2 DEF Queued
<1>4. /\ DOMAIN tt = DOMAIN ss /\ tt[id] = s
      /\ \A i \in DOMAIN ss : i # id => tt[i] = ss[i]
  BY <1>3
<1> HIDE DEF id, tt
<1>5. ASSUME NEW i \in DOMAIN ss, i < id, ss[i].status = "waiting", ss[id].choice = 0
      PROVE  FALSE
  <2>1. ss[id].status = "waiting"
    BY <1>3, <1>5 DEF FirstCome
  <2>2. i \in ToSet(w)
    BY <1>5 DEF Queued
  <2>3. PICK a \in 1 .. Len(w) : w[a] = i
    BY <1>1, <2>2 DEF ToSet
  <2>4. a # 1 /\ 1 \in 1 .. Len(w) /\ 1 < a
    BY <1>1, <1>3, <1>5, <2>3
  <2>5. id < i
    BY <1>1, <2>1, <2>3, <2>4 DEF InOrder
  <2> QED
    BY <1>3, <1>5, <2>5
<1>6. ASSUME NEW i \in DOMAIN tt, NEW j \in DOMAIN tt,
             i < j, tt[i].status = "waiting", tt[j].choice = 0
      PROVE  tt[j].status \in {"waiting", "finished"}
  <2>1. i # id /\ tt[i] = ss[i]
    BY <1>4, <1>6
  <2>2. CASE j = id
    BY <1>4, <1>5, <1>6, <2>1, <2>2 DEF id
  <2>3. CASE j # id
    BY <1>4, <1>6, <2>1, <2>3 DEF FirstCome
  <2> QED
    BY <2>2, <2>3
<1>7. FirstCome(tt)
  BY <1>6 DEF FirstCome
<1> QED
  BY <1>7 DEF tt, id

\* A new sequence has the largest id; a forked one is no leader.
LEMMA FirstComeNew ==
    ASSUME NEW ss, FirstCome(ss), NEW n \in Nat, DOMAIN ss \subseteq 0 .. (n - 1),
           NEW s, s.status = "waiting" \/ s.choice # 0
    PROVE  FirstCome(Bind(ss, n, s))
<1>1. /\ DOMAIN Bind(ss, n, s) = DOMAIN ss \cup {n} /\ Bind(ss, n, s)[n] = s
      /\ \A i \in DOMAIN ss : Bind(ss, n, s)[i] = ss[i] /\ i \in Nat /\ i < n
  BY DEF Bind
<1> QED
  BY <1>1 DEF FirstCome

----------------------------------------------------------------------------
(***************************************************************************)
(* The plan.                                                               *)
(***************************************************************************)
PlanList == plan \in Seq(ToSet(plan)) /\ PlanIds \in Seq(Nat) /\ NoRepeats(PlanIds)

\* push_seq_into_batch.
LEMMA PlanAppend ==
    ASSUME PlanList, NEW e, e.id \in Nat, e.id \notin ToSet(PlanIds), plan' = Append(plan, e)
    PROVE  PlanList' /\ ToSet(PlanIds') = ToSet(PlanIds) \cup {e.id}
<1> DEFINE A == ToSet(plan) \cup {e}
<1>1. plan \in Seq(A) /\ e \in A
  BY DEF PlanList
<1>2. /\ plan' \in Seq(A) /\ ToSet(plan') = A
      /\ Len(plan) \in Nat /\ Len(plan') = Len(plan) + 1 /\ plan'[Len(plan) + 1] = e
      /\ \A i \in 1 .. Len(plan) : plan'[i] = plan[i]
  <2>1. ToSet(Append(plan, e)) = ToSet(plan) \cup {e}
    BY <1>1, AppendSet
  <2> QED
    BY <1>1, <2>1
<1>3. PlanIds' = Append(PlanIds, e.id)
  <2>1. /\ PlanIds \in Seq(Nat) /\ Len(PlanIds) = Len(plan)
        /\ PlanIds = [i \in 1 .. Len(plan) |-> plan[i].id]
    BY <1>2 DEF PlanIds, PlanList
  <2>2. PlanIds' = [i \in 1 .. (Len(plan) + 1) |-> IF i <= Len(plan) THEN PlanIds[i] ELSE e.id]
    BY <1>2, <2>1 DEF PlanIds
  <2> QED
    BY <1>2, <2>1, <2>2
<1>4. /\ PlanIds' \in Seq(Nat) /\ NoRepeats(PlanIds')
      /\ ToSet(PlanIds') = ToSet(PlanIds) \cup {e.id}
  BY <1>3, AppendSet DEF PlanList
<1> QED
  BY <1>2, <1>4 DEF PlanList

\* The ids a forward samples for.
LEMMA SampledFacts ==
    ASSUME PlanList
    PROVE  SampledIds \in Seq(Nat) /\ NoRepeats(SampledIds) /\ ToSet(SampledIds) \subseteq ToSet(PlanIds)
<1> DEFINE es == Without(plan, {e \in ToSet(plan) : ~e.samples})
<1>1. /\ es \in Seq(ToSet(plan)) /\ ToSet(es) \subseteq ToSet(plan)
      /\ \A i, j \in 1 .. Len(es) : i < j =>
            \E k, l \in 1 .. Len(plan) : k < l /\ es[i] = plan[k] /\ es[j] = plan[l]
  <2> DEFINE A == ToSet(plan)
             S == {e \in ToSet(plan) : ~e.samples}
             r == Without(plan, S)
  <2>1. plan \in Seq(A)
    BY DEF PlanList
  <2> HIDE DEF A, S
  <2>2. /\ r \in Seq(A) /\ ToSet(r) = ToSet(plan) \ S
        /\ \A i, j \in 1 .. Len(r) : i < j =>
              \E k, l \in 1 .. Len(plan) : k < l /\ r[i] = plan[k] /\ r[j] = plan[l]
    BY <2>1, WithoutFacts, WithoutSet
  <2> QED
    BY <2>2 DEF A, S
<1>2. SampledIds = [i \in 1 .. Len(es) |-> es[i].id]
  BY DEF SampledIds
<1> HIDE DEF es
<1>3. Len(es) \in Nat /\ Len(plan) \in Nat /\ DOMAIN plan = 1 .. Len(plan)
  BY <1>1 DEF PlanList
<1>4. /\ Len(PlanIds) = Len(plan) /\ DOMAIN PlanIds = 1 .. Len(plan)
      /\ \A k \in 1 .. Len(plan) : PlanIds[k] = plan[k].id /\ PlanIds[k] \in Nat
  BY <1>3 DEF PlanIds, PlanList
<1>5. ASSUME NEW i \in 1 .. Len(es)
      PROVE  es[i].id \in ToSet(PlanIds) /\ es[i].id \in Nat
  <2>1. es[i] \in ToSet(plan)
    BY <1>1
  <2>2. PICK k \in 1 .. Len(plan) : es[i] = plan[k]
    BY <1>3, <2>1 DEF ToSet
  <2> QED
    BY <1>4, <2>2 DEF ToSet
<1>6. /\ SampledIds \in Seq(Nat) /\ Len(SampledIds) = Len(es)
      /\ \A i \in 1 .. Len(es) : SampledIds[i] = es[i].id
      /\ DOMAIN SampledIds = 1 .. Len(es)
  BY <1>2, <1>3, <1>5
<1>7. ToSet(SampledIds) \subseteq ToSet(PlanIds)
  BY <1>5, <1>6 DEF ToSet
<1>8. ASSUME NEW i \in 1 .. Len(es), NEW j \in 1 .. Len(es), i < j
      PROVE  es[i].id # es[j].id
  <2>1. PICK k \in 1 .. Len(plan), l \in 1 .. Len(plan) : k < l /\ es[i] = plan[k] /\ es[j] = plan[l]
    BY <1>1, <1>8
  <2>2. PlanIds[k] # PlanIds[l]
    BY <1>4, <2>1 DEF PlanList, NoRepeats
  <2> QED
    BY <1>4, <2>1, <2>2
<1>9. ASSUME NEW i \in 1 .. Len(SampledIds), NEW j \in 1 .. Len(SampledIds),
             SampledIds[i] = SampledIds[j]
      PROVE  i = j
  <2>1. i \in 1 .. Len(es) /\ j \in 1 .. Len(es) /\ es[i].id = es[j].id
    BY <1>6, <1>9
  <2>2. ~(i < j) /\ ~(j < i)
    BY <1>8, <2>1
  <2> QED
    BY <2>1, <2>2
<1> QED
  BY <1>6, <1>7, <1>9 DEF NoRepeats

----------------------------------------------------------------------------
(***************************************************************************)
(* The steps of the scheduler.                                             *)
(***************************************************************************)

\* t is s as far as its text goes.
SameText(t, s) ==
    /\ t.choice = s.choice /\ t.tokens = s.tokens /\ t.prompt_len = s.prompt_len
    /\ t.max_tokens = s.max_tokens /\ t.stop = s.stop

\* The step leaves every text alone, and no finished sequence goes on.
TextKept ==
    /\ DOMAIN seqs' \subseteq DOMAIN seqs
    /\ \A i \in DOMAIN seqs' : /\ SameText(seqs'[i], seqs[i])
                               /\ is_finished(seqs[i]) => is_finished(seqs'[i])

\* What PushOrPreempt leaves: id is in the plan and runs, or is preempted.
\* rest is what schedule_decodes has still to put back into running.
LEMMA PushFacts ==
    ASSUME NEW ss, NEW p, NEW id, NEW q, NEW run \in Seq(Nat), NEW wait, NEW rest \in Seq(Nat),
           PushOrPreempt(ss, p, id, q, run, wait),
           Recorded(ss), FirstCome(ss), PlanList,
           Queued(ss, wait, run \o rest, finished), InOrder(ss, wait),
           id \in ToSet(run), id \notin ToSet(PlanIds), ToSet(PlanIds) \subseteq ToSet(run)
    PROVE  /\ DOMAIN seqs' = DOMAIN ss /\ Recorded(seqs') /\ FirstCome(seqs')
           /\ Queued(seqs', waiting', running' \o rest, finished) /\ InOrder(seqs', waiting')
           /\ running' \in Seq(Nat)
           /\ ToSet(run) \ {id} \subseteq ToSet(running')
           /\ PlanList'
           /\ ToSet(PlanIds') \subseteq ToSet(running')
           /\ ToSet(PlanIds') \subseteq ToSet(PlanIds) \cup {id}
           /\ \A i \in DOMAIN ss : /\ i # id => seqs'[i] = ss[i]
                                   /\ SameText(seqs'[i], ss[i])
                                   /\ is_finished(seqs'[i]) <=> is_finished(ss[i])
           /\ id \in ToSet(PlanIds') => (needs_prefill(seqs'[id]) <=> needs_prefill(ss[id]))
           /\ phase' \in {phase, "panicked"}
<1> DEFINE s    == ss[id]
           need == blocks_for(s.num_computed + q)
           a    == AllocateMany(p, need - Len(s.blocks))
           ext  == [s EXCEPT !.blocks = @ \o a.blocks]
           e    == [id |-> id, start |-> s.num_computed, q |-> q,
                    samples |-> s.num_computed + q >= total_len(s)]
<1>1. /\ run \o rest \in Seq(Nat) /\ ToSet(run \o rest) = ToSet(run) \cup ToSet(rest)
      /\ NoRepeats(run) /\ NoRepeats(rest) /\ ToSet(run) \cap ToSet(rest) = {}
  BY ConcatSet DEF Queued
<1>2. id \in DOMAIN ss /\ id \in Nat /\ Active(s)
  <2>1. id \in DOMAIN ss /\ Active(s)
    BY <1>1 DEF Queued
  <2>2. id \in Nat
    BY DEF ToSet
  <2> QED
    BY <2>1, <2>2
<1>3. DOMAIN s = Fields /\ s.status \in {"prefilling", "decoding"}
  BY <1>2 DEF Recorded, Active
<1>4. CASE Len(ext.blocks) >= need
  <2>1. /\ seqs' = [ss EXCEPT ![id] = ext] /\ running' = run /\ waiting' = wait
        /\ plan' = Append(plan, e)
        /\ phase' \in {phase, "panicked"}
    BY <1>4 DEF PushOrPreempt
  <2>2. /\ DOMAIN ext = Fields /\ ext.status = s.status /\ SameText(ext, s)
        /\ ext.num_computed = s.num_computed /\ ext.prefill_target = s.prefill_target
    BY <1>3 DEF Fields, SameText
  <2> HIDE DEF ext
  <2>3. /\ DOMAIN seqs' = DOMAIN ss /\ seqs'[id] = ext
        /\ \A i \in DOMAIN ss : i # id => seqs'[i] = ss[i]
    BY <1>2, <2>1
  <2>4. needs_prefill(ext) <=> needs_prefill(s)
    BY <2>2 DEF needs_prefill, remaining_prefill
  <2>5. \A i \in DOMAIN ss : SameText(seqs'[i], ss[i]) /\ seqs'[i].status = ss[i].status
    BY <2>2, <2>3 DEF SameText
  <2>6. Recorded(seqs')
    BY <2>2, <2>3, <2>5 DEF Recorded
  <2>7. FirstCome(seqs')
    BY <2>3, <2>5, FirstComeKept DEF SameText
  <2>8. Queued(seqs', wait, run \o rest, finished) /\ InOrder(seqs', wait)
    BY <2>3, <2>5, QueuedSame
  <2>9. e.id = id
    OBVIOUS
  <2> HIDE DEF e
  <2>10. PlanList' /\ ToSet(PlanIds') = ToSet(PlanIds) \cup {id}
    BY <1>2, <2>1, <2>9, PlanAppend
  <2>11. \A i \in DOMAIN ss : is_finished(seqs'[i]) <=> is_finished(ss[i])
    BY <2>5 DEF is_finished
  <2> QED
    BY <2>1, <2>3, <2>4, <2>5, <2>6, <2>7, <2>8, <2>10, <2>11
<1>5. CASE ~(Len(ext.blocks) >= need)
  <2> DEFINE t == reset_for_recompute(s)
             r == Without(run, {id})
  <2>1. /\ seqs' = [ss EXCEPT ![id] = t] /\ running' = r /\ waiting' = <<id>> \o wait
        /\ plan' = plan /\ phase' = phase
    BY <1>5 DEF PushOrPreempt
  <2>2. DOMAIN t = Fields /\ t.status = "preempted" /\ SameText(t, s)
    BY <1>3 DEF Fields, SameText, reset_for_recompute
  <2>3. r \in Seq(Nat) /\ NoRepeats(r) /\ ToSet(r) = ToSet(run) \ {id}
    BY <1>1, WithoutSet
  <2> HIDE DEF t, r
  <2>4. /\ DOMAIN seqs' = DOMAIN ss /\ seqs'[id] = t
        /\ \A i \in DOMAIN ss : i # id => seqs'[i] = ss[i]
    BY <1>2, <2>1
  <2>5. /\ r \o rest \in Seq(Nat) /\ NoRepeats(r \o rest)
        /\ ToSet(r \o rest) = ToSet(run \o rest) \ {id}
    <3>1. /\ r \o rest \in Seq(Nat)
          /\ ToSet(r \o rest) = ToSet(r) \cup ToSet(rest)
          /\ (NoRepeats(r) /\ NoRepeats(rest) /\ ToSet(r) \cap ToSet(rest) = {}) <=> NoRepeats(r \o rest)
      BY <2>3, ConcatSet
    <3>2. ToSet(r) \cap ToSet(rest) = {}
      BY <1>1, <2>3
    <3>3. NoRepeats(r \o rest)
      BY <1>1, <2>3, <3>1, <3>2
    <3> QED
      BY <1>1, <2>3, <3>1, <3>3
  <2>6. Queued(seqs', waiting', r \o rest, finished) /\ InOrder(seqs', waiting')
    <3>1. id \in ToSet(run \o rest)
      BY <1>1
    <3> QED
      BY <2>1, <2>2, <2>5, <3>1, QueuedPreempt
  <2>7. Recorded(seqs')
    BY <2>2, <2>4 DEF Recorded, Statuses
  <2>8. \A i \in DOMAIN ss : SameText(seqs'[i], ss[i])
    BY <2>2, <2>4 DEF SameText
  <2>9. \A i \in DOMAIN ss : is_finished(seqs'[i]) <=> is_finished(ss[i])
    BY <1>3, <2>2, <2>4 DEF is_finished
  <2>10. FirstCome(seqs')
    <3>1. ASSUME NEW i \in DOMAIN seqs'
          PROVE  /\ seqs'[i].choice = ss[i].choice
                 /\ seqs'[i].status = "waiting" => ss[i].status = "waiting"
                 /\ ss[i].status \in {"waiting", "finished"} => seqs'[i].status \in {"waiting", "finished"}
      BY <1>3, <2>2, <2>4, <2>8 DEF SameText
    <3> QED
      BY <2>4, <3>1, FirstComeKept
  <2>11. PlanList' /\ PlanIds' = PlanIds
    BY <2>1 DEF PlanList, PlanIds
  <2> QED
    BY <2>1, <2>3, <2>4, <2>6, <2>7, <2>8, <2>9, <2>10, <2>11
<1> QED
  BY <1>4, <1>5

\* What finish leaves.
LEMMA FinishFacts ==
    ASSUME NEW ss, NEW ids \in Seq(Nat), NEW reason, Finish(ss, ids, reason),
           Recorded(ss), FirstCome(ss), NoRepeats(ids), ToSet(ids) \subseteq DOMAIN ss,
           Queued(ss, waiting, running, finished), InOrder(ss, waiting)
    PROVE  /\ DOMAIN seqs' = DOMAIN ss /\ Recorded(seqs') /\ FirstCome(seqs')
           /\ Queued(seqs', waiting', running', finished') /\ InOrder(seqs', waiting')
           /\ \A i \in DOMAIN ss : /\ SameText(seqs'[i], ss[i])
                                   /\ is_finished(seqs'[i]) <=> is_finished(ss[i]) \/ i \in ToSet(ids)
<1> DEFINE live == Without(ids, {i \in DOMAIN ss : is_finished(ss[i])})
           gone == ToSet(live)
           done(s) == [s EXCEPT !.status = "finished", !.reason = reason, !.blocks = <<>>]
<1>1. /\ seqs' = [i \in DOMAIN ss |-> IF i \in gone THEN done(ss[i]) ELSE ss[i]]
      /\ running' = Without(running, gone)
      /\ waiting' = Without(waiting, gone)
      /\ finished' = finished \o live
  BY DEF Finish
<1>2. gone = ToSet(ids) \ {i \in DOMAIN ss : is_finished(ss[i])}
  BY WithoutSet
<1>3. ASSUME NEW i \in DOMAIN ss
      PROVE  /\ DOMAIN done(ss[i]) = Fields /\ done(ss[i]).status = "finished"
             /\ SameText(done(ss[i]), ss[i])
  <2>1. DOMAIN ss[i] = Fields
    BY DEF Recorded
  <2> QED
    BY <2>1 DEF Fields, SameText
<1> HIDE DEF done
<1>4. /\ DOMAIN seqs' = DOMAIN ss
      /\ \A i \in gone : seqs'[i] = done(ss[i])
      /\ \A i \in DOMAIN ss \ gone : seqs'[i] = ss[i]
  BY <1>1, <1>2
<1>5. \A i \in gone : is_finished(seqs'[i])
  BY <1>2, <1>3, <1>4 DEF is_finished
<1>6. Queued(seqs', waiting', running', finished') /\ InOrder(seqs', waiting')
  BY <1>1, <1>4, <1>5, QueuedFinish
<1>7. \A i \in DOMAIN ss : SameText(seqs'[i], ss[i])
  BY <1>3, <1>4 DEF SameText
<1> HIDE DEF gone
<1>8. Recorded(seqs')
  BY <1>2, <1>3, <1>4 DEF Recorded, Statuses
<1>9. \A i \in DOMAIN ss : is_finished(seqs'[i]) <=> is_finished(ss[i]) \/ i \in ToSet(ids)
  BY <1>2, <1>4, <1>5
<1>10. FirstCome(seqs')
  <2>1. ASSUME NEW i \in DOMAIN seqs'
        PROVE  /\ seqs'[i].choice = ss[i].choice
               /\ seqs'[i].status = "waiting" => ss[i].status = "waiting"
               /\ ss[i].status \in {"waiting", "finished"} => seqs'[i].status \in {"waiting", "finished"}
    BY <1>4, <1>5, <1>7 DEF SameText, is_finished
  <2> QED
    BY <1>4, <2>1, FirstComeKept
<1> QED
  BY <1>4, <1>6, <1>7, <1>8, <1>9, <1>10

\* What the invariant says outside schedule_decodes.
LEMMA IInvFacts ==
    ASSUME IInv, phase # "panicked"
    PROVE  /\ next_id \in Nat /\ DOMAIN seqs \subseteq 0 .. (next_id - 1) /\ DOMAIN seqs \subseteq Nat
           /\ Recorded(seqs) /\ FirstCome(seqs)
           /\ phase # "decodes" => Queued(seqs, waiting, running, finished)
           /\ InOrder(seqs, waiting)
           /\ PlanList /\ PlanOK /\ TodoOK /\ ForkOK
  BY NoOvertakingIs DEF IInv, RunList, PlanList, PlanOK

\* The invariant, part by part.
LEMMA IInvParts ==
    ASSUME next_id' \in Nat, DOMAIN seqs' \subseteq 0 .. (next_id' - 1), Recorded(seqs'), FirstCome(seqs'),
           phase' # "panicked" => /\ phase' # "decodes"
                                  /\ Queued(seqs', waiting', running', finished')
                                  /\ InOrder(seqs', waiting')
                                  /\ PlanOK' /\ TodoOK' /\ ForkOK'
    PROVE  IInv'
  BY NoOvertakingIs DEF IInv, RunList, Recorded, Queued, InOrder

\* admit: a new sequence, last in the waiting queue.
LEMMA AdmitInv ==
    ASSUME IInv, NEW j \in Jobs, Admit(j)
    PROVE  IInv'
<1> DEFINE s == NewSequence(j)
<1>1. /\ phase = "idle" /\ phase' = "idle" /\ UNCHANGED <<running, finished, todo, plan, fork>>
      /\ seqs' = Bind(seqs, next_id, s) /\ waiting' = Append(waiting, next_id) /\ next_id' = next_id + 1
  BY DEF Admit, stepVars
<1>2. /\ next_id \in Nat /\ DOMAIN seqs \subseteq 0 .. (next_id - 1)
      /\ Recorded(seqs) /\ FirstCome(seqs) /\ Queued(seqs, waiting, running, finished)
      /\ InOrder(seqs, waiting) /\ PlanOK /\ TodoOK /\ ForkOK
  BY <1>1, IInvFacts
<1>3. DOMAIN s = Fields /\ s.status = "waiting"
  BY DEF NewSequence, Fields
<1> HIDE DEF s
<1>4. /\ DOMAIN seqs' = DOMAIN seqs \cup {next_id} /\ seqs'[next_id] = s
      /\ \A i \in DOMAIN seqs : seqs'[i] = seqs[i]
  BY <1>1, <1>2 DEF Bind
<1>5. DOMAIN seqs' \subseteq 0 .. (next_id' - 1) /\ next_id' \in Nat
  BY <1>1, <1>2, <1>4
<1>6. Recorded(seqs')
  BY <1>2, <1>3, <1>4 DEF Recorded, Statuses
<1>7. FirstCome(seqs')
  BY <1>1, <1>2, <1>3, FirstComeNew
<1>8. Queued(seqs', waiting', running', finished') /\ InOrder(seqs', waiting')
  BY <1>1, <1>2, <1>3, QueuedAdmit
<1>9. PlanOK' /\ TodoOK'
  BY <1>1, <1>2 DEF PlanOK, TodoOK, PlanIds
<1>10. ForkOK'
  <2>1. \A i \in ToSet(fork.ids) : i \in Nat /\ i < next_id
    BY <1>2 DEF ForkOK, ToSet
  <2> QED
    BY <1>1, <1>2, <1>4, <2>1 DEF ForkOK
<1> QED
  BY <1>1, <1>5, <1>6, <1>7, <1>8, <1>9, <1>10, IInvParts

\* by_request lists live sequences, each once.
LEMMA SequencesOf ==
    ASSUME NEW rid, next_id \in Nat, DOMAIN seqs \subseteq 0 .. (next_id - 1)
    PROVE  /\ sequences_of(rid) \in Seq(Nat) /\ NoRepeats(sequences_of(rid))
           /\ ToSet(sequences_of(rid)) \subseteq DOMAIN seqs
<1> DEFINE q == [k \in 1 .. next_id |-> k - 1]
           S == {i \in 0 .. (next_id - 1) : i \notin DOMAIN seqs \/ seqs[i].rid # rid}
<1>1. q \in Seq(Nat) /\ Len(q) = next_id /\ \A k \in 1 .. next_id : q[k] = k - 1
  OBVIOUS
<1>2. NoRepeats(q)
  BY <1>1 DEF NoRepeats
<1>3. ToSet(q) \subseteq 0 .. (next_id - 1)
  BY <1>1 DEF ToSet
<1>4. sequences_of(rid) = Without(q, S)
  BY DEF sequences_of
<1>5. \A i \in 0 .. (next_id - 1) : i \notin S => i \in DOMAIN seqs
  OBVIOUS
<1> HIDE DEF q, S
<1> QED
  BY <1>1, <1>2, <1>3, <1>4, <1>5, WithoutSet

\* cancel, whatever the state of the sequence.
LEMMA CancelInv ==
    ASSUME IInv, NEW rid, Cancel(rid)
    PROVE  IInv' /\ TextKept
<1>1. /\ phase = "idle" /\ phase' = "idle" /\ UNCHANGED <<next_id, todo, plan, fork>>
      /\ Finish(seqs, sequences_of(rid), "cancelled")
  BY DEF Cancel, stepVars
<1>2. /\ next_id \in Nat /\ DOMAIN seqs \subseteq 0 .. (next_id - 1)
      /\ Recorded(seqs) /\ FirstCome(seqs) /\ Queued(seqs, waiting, running, finished)
      /\ InOrder(seqs, waiting) /\ PlanOK /\ TodoOK /\ ForkOK
  BY <1>1, IInvFacts
<1>3. /\ DOMAIN seqs' = DOMAIN seqs /\ Recorded(seqs') /\ FirstCome(seqs')
      /\ Queued(seqs', waiting', running', finished') /\ InOrder(seqs', waiting')
      /\ \A i \in DOMAIN seqs : /\ SameText(seqs'[i], seqs[i])
                                /\ is_finished(seqs[i]) => is_finished(seqs'[i])
  BY <1>1, <1>2, SequencesOf, FinishFacts
<1>4. PlanOK' /\ TodoOK'
  BY <1>1, <1>2, <1>3 DEF PlanOK, TodoOK, PlanIds, Queued
<1>5. ForkOK'
  BY <1>1, <1>2, <1>3 DEF ForkOK, SameText
<1> QED
  BY <1>1, <1>2, <1>3, <1>4, <1>5, IInvParts DEF TextKept

\* The beginning of schedule: the decodes to look at.
LEMMA BeginStepInv ==
    ASSUME IInv, BeginStep
    PROVE  IInv'
<1>1. /\ phase = "idle" /\ phase' = "decodes" /\ todo' = running /\ running' = <<>> /\ plan' = <<>>
      /\ UNCHANGED <<seqs, waiting, finished, next_id, fork>>
  BY DEF BeginStep
<1>2. /\ next_id \in Nat /\ DOMAIN seqs \subseteq 0 .. (next_id - 1)
      /\ Recorded(seqs) /\ FirstCome(seqs) /\ Queued(seqs, waiting, running, finished)
      /\ InOrder(seqs, waiting) /\ ForkOK
  BY <1>1, IInvFacts
<1>3. running \in Seq(Nat) /\ RunList' = running
  BY <1>1, <1>2, ConcatEmptySeq DEF RunList, Queued
<1>4. plan' \in Seq(ToSet(plan')) /\ PlanIds' = <<>>
  BY <1>1, EmptySet DEF PlanIds
<1>5. PlanOK'
  BY <1>1, <1>4, EmptySet DEF PlanOK
<1>6. TodoOK' /\ ForkOK'
  BY <1>1, <1>2, <1>3, EmptySet DEF TodoOK, ForkOK
<1>7. Queued(seqs', waiting', RunList', finished')
  BY <1>1, <1>2, <1>3
<1> QED
  BY <1>1, <1>2, <1>5, <1>6, <1>7, NoOvertakingIs DEF IInv

\* What the invariant says in schedule_decodes.
LEMMA DecodesFacts ==
    ASSUME IInv, phase = "decodes"
    PROVE  /\ Queued(seqs, waiting, running \o todo, finished)
           /\ todo \in Seq(Nat) /\ running \in Seq(Nat)
           /\ NoRepeats(todo) /\ NoRepeats(running) /\ ToSet(running) \cap ToSet(todo) = {}
<1>1. Queued(seqs, waiting, running \o todo, finished) /\ TodoOK
  BY DEF IInv, RunList
<1>2. todo \in Seq(Nat) /\ running \in Seq(Nat) /\ NoRepeats(running \o todo)
  BY <1>1 DEF TodoOK, Queued
<1> QED
  BY <1>1, <1>2, ConcatSet

\* Moving the head of todo to the end of running changes no queue.
LEMMA DecodesMove ==
    ASSUME IInv, phase = "decodes", todo # <<>>
    PROVE  /\ Head(todo) \in Nat /\ Head(todo) \notin ToSet(running)
           /\ Tail(todo) \in Seq(Nat)
           /\ Append(running, Head(todo)) \in Seq(Nat)
           /\ ToSet(Append(running, Head(todo))) = ToSet(running) \cup {Head(todo)}
           /\ Queued(seqs, waiting, Append(running, Head(todo)) \o Tail(todo), finished)
<1> DEFINE id == Head(todo)
           t == Tail(todo)
           r == Append(running, id)
<1>1. /\ Queued(seqs, waiting, running \o todo, finished)
      /\ todo \in Seq(Nat) /\ running \in Seq(Nat)
      /\ NoRepeats(todo) /\ NoRepeats(running) /\ ToSet(running) \cap ToSet(todo) = {}
  BY DecodesFacts
<1>2. /\ id \in Nat /\ t \in Seq(Nat) /\ id \in ToSet(todo) /\ ToSet(todo) = ToSet(t) \cup {id}
      /\ NoRepeats(t) /\ id \notin ToSet(t)
  BY <1>1, TailSet
<1>3. id \notin ToSet(running)
  BY <1>1, <1>2
<1> HIDE DEF id, t
<1>4. r \in Seq(Nat) /\ ToSet(r) = ToSet(running) \cup {id} /\ NoRepeats(r)
  BY <1>1, <1>2, <1>3, AppendSet
<1> HIDE DEF r
<1>5. ToSet(r) \cap ToSet(t) = {}
  BY <1>1, <1>2, <1>4
<1>6. r \o t \in Seq(Nat) /\ NoRepeats(r \o t) /\ ToSet(r \o t) = ToSet(r) \cup ToSet(t)
  BY <1>2, <1>4, <1>5, ConcatSet
<1>7. ToSet(running \o todo) = ToSet(running) \cup ToSet(todo)
  BY <1>1, ConcatSet
<1>8. ToSet(r \o t) = ToSet(running \o todo)
  BY <1>2, <1>4, <1>6, <1>7
<1>9. Queued(seqs, waiting, r \o t, finished)
  BY <1>1, <1>6, <1>8 DEF Queued
<1> QED
  BY <1>2, <1>3, <1>4, <1>9 DEF id, t, r

\* A running sequence that is not decoded in this pass.
LEMMA SkipDecodeInv ==
    ASSUME IInv, SkipDecode
    PROVE  IInv'
<1>1. /\ phase = "decodes" /\ phase' = "decodes" /\ todo # <<>>
      /\ running' = Append(running, Head(todo)) /\ todo' = Tail(todo)
      /\ UNCHANGED <<seqs, waiting, finished, next_id, plan, fork>>
  BY DEF SkipDecode
<1>2. /\ next_id \in Nat /\ DOMAIN seqs \subseteq 0 .. (next_id - 1)
      /\ Recorded(seqs) /\ FirstCome(seqs) /\ InOrder(seqs, waiting) /\ PlanOK /\ ForkOK
  BY <1>1, IInvFacts
<1>3. /\ Tail(todo) \in Seq(Nat) /\ running' \in Seq(Nat)
      /\ ToSet(running') = ToSet(running) \cup {Head(todo)}
      /\ Queued(seqs, waiting, running' \o Tail(todo), finished)
  BY <1>1, DecodesMove
<1>4. PlanOK'
  BY <1>1, <1>2, <1>3 DEF PlanOK, PlanIds
<1>5. TodoOK' /\ ForkOK'
  BY <1>1, <1>2, <1>3 DEF TodoOK, ForkOK
<1>6. Queued(seqs', waiting', RunList', finished')
  BY <1>1, <1>3 DEF RunList
<1> QED
  BY <1>1, <1>2, <1>4, <1>5, <1>6, NoOvertakingIs DEF IInv

\* A decode, with the preemption it may need.
LEMMA ScheduleDecodeInv ==
    ASSUME IInv, ScheduleDecode
    PROVE  IInv' /\ TextKept
<1> DEFINE id == Head(todo)
           run == Append(running, id)
           rest == Tail(todo)
<1>1. /\ phase = "decodes" /\ todo # <<>> /\ ~needs_prefill(seqs[id])
      /\ PushOrPreempt(seqs, pool, id, 1, run, waiting)
      /\ todo' = rest /\ UNCHANGED <<finished, next_id, fork>>
  BY DEF ScheduleDecode
<1>2. /\ next_id \in Nat /\ DOMAIN seqs \subseteq 0 .. (next_id - 1)
      /\ Recorded(seqs) /\ FirstCome(seqs) /\ InOrder(seqs, waiting)
      /\ PlanList /\ PlanOK /\ ForkOK
  BY <1>1, IInvFacts
<1>3. /\ id \in Nat /\ id \notin ToSet(running) /\ rest \in Seq(Nat) /\ run \in Seq(Nat)
      /\ ToSet(run) = ToSet(running) \cup {id}
      /\ Queued(seqs, waiting, run \o rest, finished)
  BY <1>1, DecodesMove
<1> HIDE DEF id, run, rest
<1>4. id \notin ToSet(PlanIds) /\ ToSet(PlanIds) \subseteq ToSet(run)
  BY <1>1, <1>2, <1>3 DEF PlanOK
<1>5. /\ DOMAIN seqs' = DOMAIN seqs /\ Recorded(seqs') /\ FirstCome(seqs')
      /\ Queued(seqs', waiting', running' \o rest, finished) /\ InOrder(seqs', waiting')
      /\ running' \in Seq(Nat) /\ PlanList'
      /\ ToSet(PlanIds') \subseteq ToSet(running')
      /\ ToSet(PlanIds') \subseteq ToSet(PlanIds) \cup {id}
      /\ \A i \in DOMAIN seqs : i # id => seqs'[i] = seqs[i]
      /\ \A i \in DOMAIN seqs : /\ SameText(seqs'[i], seqs[i])
                                /\ is_finished(seqs'[i]) <=> is_finished(seqs[i])
      /\ id \in ToSet(PlanIds') => (needs_prefill(seqs'[id]) <=> needs_prefill(seqs[id]))
      /\ phase' \in {phase, "panicked"}
  BY <1>1, <1>2, <1>3, <1>4, PushFacts
<1>6. ASSUME phase' # "panicked"
      PROVE  PlanOK'
  <2>1. phase' = "decodes"
    BY <1>1, <1>5, <1>6
  <2>2. ToSet(running) \subseteq DOMAIN seqs
    <3>1. ToSet(run \o rest) = ToSet(run) \cup ToSet(rest)
      BY <1>3, ConcatSet
    <3> QED
      BY <1>3, <3>1 DEF Queued
  <2>3. ASSUME NEW i \in ToSet(PlanIds')
        PROVE  ~needs_prefill(seqs'[i])
    <3>1. CASE i = id
      BY <1>1, <1>5, <2>3, <3>1
    <3>2. CASE i # id
      BY <1>1, <1>2, <1>5, <2>2, <2>3, <3>2 DEF PlanOK
    <3> QED
      BY <3>1, <3>2
  <2> QED
    BY <1>5, <2>1, <2>3 DEF PlanOK, PlanList
<1>7. phase' # "panicked" => TodoOK'
  BY <1>1, <1>3, <1>5 DEF TodoOK
<1>8. phase' # "panicked" => ForkOK'
  BY <1>1, <1>2, <1>5 DEF ForkOK, SameText
<1>9. phase' # "panicked" => Queued(seqs', waiting', RunList', finished')
  BY <1>1, <1>5 DEF RunList
<1> QED
  BY <1>1, <1>2, <1>5, <1>6, <1>7, <1>8, <1>9, NoOvertakingIs DEF IInv, TextKept

\* From decodes to prefills.
LEMMA EndDecodesInv ==
    ASSUME IInv, EndDecodes
    PROVE  IInv'
<1> DEFINE S == {i \in DOMAIN seqs : ~needs_prefill(seqs[i])}
<1>1. /\ phase = "decodes" /\ phase' = "prefills" /\ todo = <<>> /\ todo' = Without(running, S)
      /\ UNCHANGED <<seqs, waiting, running, finished, next_id, plan, fork>>
  BY DEF EndDecodes, queueVars
<1>2. /\ next_id \in Nat /\ DOMAIN seqs \subseteq 0 .. (next_id - 1)
      /\ Recorded(seqs) /\ FirstCome(seqs) /\ InOrder(seqs, waiting) /\ PlanOK /\ ForkOK
  BY <1>1, IInvFacts
<1>3. running \in Seq(Nat) /\ NoRepeats(running) /\ Queued(seqs, waiting, running, finished)
  BY <1>1, DecodesFacts, ConcatEmptySeq
<1>4. /\ todo' \in Seq(Nat) /\ NoRepeats(todo') /\ ToSet(todo') = ToSet(running) \ S
  BY <1>1, <1>3, WithoutSet
<1>5. ToSet(PlanIds) \subseteq ToSet(running) /\ ToSet(running) \subseteq DOMAIN seqs
  BY <1>1, <1>2, <1>3 DEF PlanOK, Queued
<1>6. ToSet(PlanIds) \subseteq S
  BY <1>1, <1>2, <1>5 DEF PlanOK
<1> HIDE DEF S
<1>7. PlanOK'
  BY <1>1, <1>2 DEF PlanOK, PlanIds
<1>8. TodoOK'
  BY <1>1, <1>3, <1>4, <1>6 DEF TodoOK, PlanIds
<1>9. ForkOK'
  BY <1>1, <1>2 DEF ForkOK
<1> QED
  BY <1>1, <1>2, <1>3, <1>7, <1>8, <1>9, IInvParts

\* The next chunk of a prefill.
LEMMA ContinuePrefillInv ==
    ASSUME IInv, ContinuePrefill
    PROVE  IInv' /\ TextKept
<1> DEFINE id == Head(todo)
           rest == Tail(todo)
<1>1. /\ phase = "prefills" /\ todo # <<>> /\ todo' = rest /\ UNCHANGED <<finished, next_id, fork>>
      /\ PushOrPreempt(seqs, pool, id, prefill_chunk(seqs[id]), running, waiting)
  BY DEF ContinuePrefill
<1>2. /\ next_id \in Nat /\ DOMAIN seqs \subseteq 0 .. (next_id - 1)
      /\ Recorded(seqs) /\ FirstCome(seqs) /\ InOrder(seqs, waiting)
      /\ Queued(seqs, waiting, running, finished) /\ PlanList /\ PlanOK /\ TodoOK /\ ForkOK
  BY <1>1, IInvFacts
<1>3. /\ id \in Nat /\ rest \in Seq(Nat) /\ NoRepeats(rest) /\ id \notin ToSet(rest)
      /\ ToSet(todo) = ToSet(rest) \cup {id}
  BY <1>1, <1>2, TailSet DEF TodoOK
<1>4. /\ running \in Seq(Nat) /\ running \o <<>> = running /\ <<>> \in Seq(Nat)
      /\ id \in ToSet(running) /\ id \notin ToSet(PlanIds) /\ ToSet(PlanIds) \subseteq ToSet(running)
  BY <1>1, <1>2, <1>3, ConcatEmptySeq, EmptySet DEF PlanOK, TodoOK
<1> HIDE DEF id, rest
<1>5. /\ DOMAIN seqs' = DOMAIN seqs /\ Recorded(seqs') /\ FirstCome(seqs')
      /\ Queued(seqs', waiting', running' \o <<>>, finished) /\ InOrder(seqs', waiting')
      /\ running' \in Seq(Nat) /\ ToSet(running) \ {id} \subseteq ToSet(running') /\ PlanList'
      /\ ToSet(PlanIds') \subseteq ToSet(running')
      /\ ToSet(PlanIds') \subseteq ToSet(PlanIds) \cup {id}
      /\ \A i \in DOMAIN seqs : /\ SameText(seqs'[i], seqs[i])
                                /\ is_finished(seqs'[i]) <=> is_finished(seqs[i])
      /\ phase' \in {phase, "panicked"}
  <2>1. Queued(seqs, waiting, running \o <<>>, finished)
    BY <1>2, <1>4
  <2> QED
    BY <1>1, <1>2, <1>4, <2>1, PushFacts
<1>6. Queued(seqs', waiting', running', finished')
  BY <1>1, <1>5, ConcatEmptySeq
<1>7. phase' # "panicked" => PlanOK'
  BY <1>1, <1>5 DEF PlanOK, PlanList
<1>8. phase' # "panicked" => TodoOK'
  BY <1>1, <1>2, <1>3, <1>5 DEF TodoOK
<1>9. phase' # "panicked" => ForkOK'
  BY <1>1, <1>2, <1>5 DEF ForkOK, SameText
<1> QED
  BY <1>1, <1>2, <1>5, <1>6, <1>7, <1>8, <1>9, IInvParts DEF TextKept

\* What try_start does to the sequence.
LEMMA TryStartFacts ==
    ASSUME NEW s, DOMAIN s = Fields, try_start(s).ok
    PROVE  LET t == try_start(s).seq
           IN  DOMAIN t = Fields /\ t.status = "prefilling" /\ SameText(t, s)
<1> DEFINE m == CachedPrefix(s)
           fresh == BlocksToReserve(s, Len(m.blocks))
           a == AllocateMany(m.pool, fresh)
           u == [s EXCEPT !.blocks = m.blocks \o a.blocks, !.num_computed = m.tokens,
                          !.num_cached_blocks = Len(m.blocks), !.status = "prefilling"]
<1>1. try_start(s).seq = u
  BY DEF try_start
<1>2. DOMAIN u = Fields /\ u.status = "prefilling" /\ SameText(u, s)
  BY DEF Fields, SameText
<1> QED
  BY <1>1, <1>2

\* The head of the waiting queue starts: it becomes running.
LEMMA StartWaitingInv ==
    ASSUME IInv, StartWaiting
    PROVE  IInv' /\ TextKept
<1> DEFINE id == Head(waiting)
           t == try_start(seqs[id])
           ss == [seqs EXCEPT ![id] = t.seq]
           run == Append(running, id)
           wait == Tail(waiting)
<1>1. /\ phase = "starts" /\ waiting # <<>> /\ t.ok
      /\ PushOrPreempt(ss, t.pool, id, prefill_chunk(t.seq), run, wait)
      /\ UNCHANGED <<finished, next_id, todo, fork>>
  BY DEF StartWaiting, MayStart
<1>2. /\ next_id \in Nat /\ DOMAIN seqs \subseteq 0 .. (next_id - 1) /\ DOMAIN seqs \subseteq Nat
      /\ Recorded(seqs) /\ FirstCome(seqs) /\ InOrder(seqs, waiting)
      /\ Queued(seqs, waiting, running, finished) /\ PlanList /\ PlanOK /\ TodoOK /\ ForkOK
  BY <1>1, IInvFacts
<1>3. /\ id \in DOMAIN seqs /\ id \in Nat /\ id \notin ToSet(running) /\ running \in Seq(Nat)
      /\ seqs[id].status \in {"waiting", "preempted"}
  <2>1. id \in ToSet(waiting) /\ id \in Nat
    BY <1>1, <1>2, TailSet DEF Queued
  <2> QED
    BY <1>2, <2>1, OneClass DEF Queued
<1>4. DOMAIN t.seq = Fields /\ t.seq.status = "prefilling" /\ SameText(t.seq, seqs[id])
  BY <1>1, <1>2, <1>3, TryStartFacts DEF Recorded
<1> HIDE DEF t
<1>5. /\ DOMAIN ss = DOMAIN seqs /\ ss[id] = t.seq
      /\ \A i \in DOMAIN seqs : i # id => ss[i] = seqs[i]
  BY <1>3
<1>6. Active(t.seq)
  BY <1>4 DEF Active
<1>7. Queued(ss, wait, run, finished) /\ InOrder(ss, wait)
  BY <1>1, <1>2, <1>6, QueuedStart
<1>8. FirstCome(ss)
  BY <1>1, <1>2, <1>4, FirstComeStart DEF SameText
<1>9. run \in Seq(Nat) /\ ToSet(run) = ToSet(running) \cup {id}
  BY <1>3, AppendSet
<1> HIDE DEF id, ss, run, wait
<1>10. Recorded(ss)
  BY <1>2, <1>4, <1>5 DEF Recorded, Statuses
<1>11. /\ Queued(ss, wait, run \o <<>>, finished) /\ <<>> \in Seq(Nat)
       /\ id \in ToSet(run) /\ id \notin ToSet(PlanIds) /\ ToSet(PlanIds) \subseteq ToSet(run)
  BY <1>1, <1>2, <1>3, <1>7, <1>9, ConcatEmptySeq, EmptySet DEF PlanOK
<1>12. /\ DOMAIN seqs' = DOMAIN ss /\ Recorded(seqs') /\ FirstCome(seqs')
       /\ Queued(seqs', waiting', running' \o <<>>, finished) /\ InOrder(seqs', waiting')
       /\ running' \in Seq(Nat) /\ PlanList'
       /\ ToSet(PlanIds') \subseteq ToSet(running')
       /\ \A i \in DOMAIN ss : /\ SameText(seqs'[i], ss[i])
                               /\ is_finished(seqs'[i]) <=> is_finished(ss[i])
       /\ phase' \in {phase, "panicked"}
  BY <1>1, <1>2, <1>7, <1>8, <1>9, <1>10, <1>11, PushFacts
<1>13. Queued(seqs', waiting', running', finished')
  BY <1>1, <1>12, ConcatEmptySeq
<1>14. \A i \in DOMAIN seqs : SameText(seqs'[i], seqs[i])
  BY <1>4, <1>5, <1>12 DEF SameText
<1>17. \A i \in DOMAIN seqs : is_finished(seqs[i]) => is_finished(seqs'[i])
  <2>1. ~is_finished(seqs[id])
    BY <1>3 DEF is_finished
  <2> QED
    BY <1>5, <1>12, <2>1
<1>15. phase' # "panicked" => PlanOK' /\ TodoOK'
  BY <1>1, <1>2, <1>12 DEF PlanOK, PlanList, TodoOK
<1>16. phase' # "panicked" => ForkOK'
  BY <1>1, <1>2, <1>5, <1>12, <1>14 DEF ForkOK, SameText
<1> QED
  BY <1>1, <1>2, <1>5, <1>12, <1>13, <1>14, <1>15, <1>16, <1>17, IInvParts DEF TextKept

\* Steps that change no sequence and no queue.
LEMMA QuietInv ==
    ASSUME IInv, phase \notin {"panicked", "decodes"}, phase' # "decodes",
           UNCHANGED <<seqs, waiting, running, finished, next_id>>,
           phase' # "panicked" => PlanOK' /\ TodoOK' /\ ForkOK'
    PROVE  IInv'
<1>1. /\ next_id \in Nat /\ DOMAIN seqs \subseteq 0 .. (next_id - 1)
      /\ Recorded(seqs) /\ FirstCome(seqs) /\ InOrder(seqs, waiting)
      /\ Queued(seqs, waiting, running, finished)
  BY IInvFacts
<1> QED
  BY <1>1, IInvParts

\* Steps that only go on to another phase, whose loop has nothing to visit
\* or visits what the last one left.
LEMMA PhaseInv ==
    ASSUME IInv, EndPrefills \/ StartRefused \/ EndStarts \/ EmptyPlan \/ CopyBlocks \/ EndForks
    PROVE  IInv'
<1>1. /\ phase \notin {"panicked", "decodes"} /\ phase' # "decodes"
      /\ UNCHANGED <<seqs, waiting, running, finished, next_id, plan, fork>>
      /\ todo' = todo \/ todo' = <<>>
      /\ \/ phase \in {"prefills", "starts"} /\ phase' \in {"starts", "forward"}
         \/ phase' = "drain"
         \/ phase = "forking" /\ phase' = "seeding"
  BY DEF EndPrefills, StartRefused, EndStarts, EmptyPlan, CopyBlocks, EndForks, queueVars
<1>2. PlanOK /\ TodoOK /\ ForkOK
  BY <1>1, IInvFacts
<1>3. PlanOK'
  BY <1>1, <1>2 DEF PlanOK, PlanIds
<1>4. TodoOK'
  BY <1>1, <1>2, EmptySet DEF TodoOK, PlanIds
<1>5. ForkOK'
  BY <1>1, <1>2 DEF ForkOK
<1> QED
  BY <1>1, <1>3, <1>4, <1>5, QuietInv

\* The forward changes the device only.
LEMMA ForwardInv ==
    ASSUME IInv, Forward
    PROVE  IInv'
<1>1. /\ phase = "forward" /\ phase' \in {"stops", "panicked"}
      /\ UNCHANGED <<seqs, waiting, running, finished, next_id, plan, fork>>
      /\ \E S : todo' = Without(SampledIds, S)
  BY DEF Forward, queueVars
<1>2. PlanList /\ PlanOK /\ TodoOK /\ ForkOK /\ Queued(seqs, waiting, running, finished)
  BY <1>1, IInvFacts
<1>3. todo' \in Seq(Nat) /\ NoRepeats(todo') /\ ToSet(todo') \subseteq ToSet(PlanIds)
  <2>1. PICK S : todo' = Without(SampledIds, S)
    BY <1>1
  <2>2. SampledIds \in Seq(Nat) /\ NoRepeats(SampledIds) /\ ToSet(SampledIds) \subseteq ToSet(PlanIds)
    BY <1>2, SampledFacts
  <2> HIDE DEF SampledIds
  <2> QED
    BY <2>1, <2>2, WithoutSet
<1>4. ToSet(PlanIds) \subseteq DOMAIN seqs
  BY <1>1, <1>2 DEF PlanOK, Queued
<1>5. phase' # "panicked" => PlanOK'
  BY <1>1, <1>2, <1>4 DEF PlanOK, PlanIds
<1>6. phase' # "panicked" => TodoOK'
  BY <1>1, <1>2, <1>3 DEF TodoOK, PlanIds
<1>7. phase' # "panicked" => ForkOK'
  BY <1>1, <1>2 DEF ForkOK
<1> QED
  BY <1>1, <1>5, <1>6, <1>7, QuietInv

\* From tokens to publishing.
LEMMA EndTokensInv ==
    ASSUME IInv, EndTokens
    PROVE  IInv'
<1>1. /\ phase = "tokens" /\ phase' = "publish" /\ todo' \in {PlanIds, <<>>}
      /\ UNCHANGED <<seqs, waiting, running, finished, next_id, plan, fork>>
  BY DEF EndTokens, queueVars
<1>2. PlanOK /\ TodoOK /\ ForkOK
  BY <1>1, IInvFacts
<1>3. PlanOK'
  BY <1>1, <1>2 DEF PlanOK, PlanIds
<1>4. TodoOK'
  <2>1. PlanIds \in Seq(Nat)
    BY <1>2 DEF PlanOK
  <2> HIDE DEF PlanIds
  <2> QED
    BY <1>1, <1>2, <2>1, EmptySet DEF TodoOK
<1>5. ForkOK'
  BY <1>1, <1>2 DEF ForkOK
<1> QED
  BY <1>1, <1>3, <1>4, <1>5, QuietInv

\* From publishing to the sampled leaders that have forks pending.
LEMMA EndPublishInv ==
    ASSUME IInv, EndPublish
    PROVE  IInv'
<1>1. /\ phase = "publish" /\ phase' = "forks"
      /\ todo' = Without(SampledIds, ToSet(SampledIds) \ DOMAIN pending_forks)
      /\ UNCHANGED <<seqs, waiting, running, finished, next_id, plan, fork>>
  BY DEF EndPublish, queueVars
<1>2. PlanList /\ PlanOK /\ TodoOK /\ ForkOK
  BY <1>1, IInvFacts
<1>3. todo' \in Seq(Nat) /\ ToSet(todo') \subseteq ToSet(PlanIds)
  <2>1. SampledIds \in Seq(Nat) /\ ToSet(SampledIds) \subseteq ToSet(PlanIds)
    BY <1>2, SampledFacts
  <2> HIDE DEF SampledIds
  <2> QED
    BY <1>1, <2>1, WithoutSet
<1>4. PlanOK'
  BY <1>1, <1>2 DEF PlanOK, PlanIds
<1>5. TodoOK'
  BY <1>1, <1>2, <1>3 DEF TodoOK, PlanIds
<1>6. ForkOK'
  BY <1>1, <1>2 DEF ForkOK
<1> QED
  BY <1>1, <1>4, <1>5, <1>6, QuietInv

\* The fork of the next leader begins.
LEMMA BeginForkInv ==
    ASSUME IInv, BeginFork
    PROVE  IInv'
<1>1. /\ phase = "forks" /\ phase' = "forking" /\ todo # <<>> /\ todo' = Tail(todo)
      /\ fork' = [fork EXCEPT !.leader = Head(todo), !.left = pending_forks[Head(todo)]]
      /\ UNCHANGED <<seqs, waiting, running, finished, next_id, plan>>
  BY DEF BeginFork, queueVars
<1>2. PlanOK /\ TodoOK /\ ForkOK
  BY <1>1, IInvFacts
<1>3. /\ todo' \in Seq(Nat) /\ ToSet(todo') \subseteq ToSet(PlanIds)
      /\ Head(todo) \in DOMAIN seqs
  <2>1. /\ Tail(todo) \in Seq(Nat) /\ Head(todo) \in ToSet(todo)
        /\ ToSet(todo) = ToSet(Tail(todo)) \cup {Head(todo)}
    BY <1>1, <1>2, TailSet DEF TodoOK
  <2> QED
    BY <1>1, <1>2, <2>1 DEF PlanOK, TodoOK
<1>4. PlanOK'
  BY <1>1, <1>2 DEF PlanOK, PlanIds
<1>5. TodoOK'
  BY <1>1, <1>2, <1>3 DEF TodoOK, PlanIds
<1>6. ForkOK'
  BY <1>1, <1>2, <1>3 DEF ForkOK
<1> QED
  BY <1>1, <1>4, <1>5, <1>6, QuietInv

\* A fork that ends names nobody.
LEMMA EndForkFacts ==
    ASSUME NEW failed, EndFork(failed)
    PROVE  /\ DOMAIN fork' = {"leader", "left", "ids", "copies", "failed"}
           /\ fork'.ids = <<>> /\ phase' = "forks"
  BY DEF EndFork, NoFork

\* A fork that ends, with an error or without.
LEMMA EndForkInv ==
    ASSUME IInv, ForkFails \/ CopyFails \/ EndSeeding
    PROVE  IInv'
<1>1. /\ phase \in {"forking", "seeding"} /\ (EndFork(TRUE) \/ EndFork(FALSE))
      /\ UNCHANGED <<seqs, waiting, running, finished, next_id, todo, plan>>
  BY DEF ForkFails, CopyFails, EndSeeding
<1>2. /\ DOMAIN fork' = {"leader", "left", "ids", "copies", "failed"}
      /\ fork'.ids = <<>> /\ phase' = "forks"
  BY <1>1, EndForkFacts
<1>3. PlanOK /\ TodoOK
  BY <1>1, IInvFacts
<1>4. PlanOK'
  BY <1>1, <1>2, <1>3 DEF PlanOK, PlanIds
<1>5. TodoOK'
  BY <1>1, <1>2, <1>3 DEF TodoOK, PlanIds
<1>6. ForkOK'
  BY <1>2, EmptySet DEF ForkOK
<1> QED
  BY <1>1, <1>2, <1>4, <1>5, <1>6, QuietInv

\* Stop strings end sequences before commit.
LEMMA FinishStoppedInv ==
    ASSUME IInv, FinishStopped
    PROVE  IInv' /\ TextKept
<1>1. /\ phase = "stops" /\ phase' = "advance" /\ Finish(seqs, todo, "stop") /\ todo' = <<>>
      /\ UNCHANGED <<next_id, plan, fork>>
  BY DEF FinishStopped
<1>2. /\ next_id \in Nat /\ DOMAIN seqs \subseteq 0 .. (next_id - 1)
      /\ Recorded(seqs) /\ FirstCome(seqs) /\ InOrder(seqs, waiting)
      /\ Queued(seqs, waiting, running, finished) /\ PlanOK /\ TodoOK /\ ForkOK
  BY <1>1, IInvFacts
<1>3. todo \in Seq(Nat) /\ NoRepeats(todo) /\ ToSet(todo) \subseteq DOMAIN seqs
  BY <1>1, <1>2 DEF PlanOK, TodoOK
<1>4. /\ DOMAIN seqs' = DOMAIN seqs /\ Recorded(seqs') /\ FirstCome(seqs')
      /\ Queued(seqs', waiting', running', finished') /\ InOrder(seqs', waiting')
      /\ \A i \in DOMAIN seqs : /\ SameText(seqs'[i], seqs[i])
                                /\ is_finished(seqs[i]) => is_finished(seqs'[i])
  BY <1>1, <1>2, <1>3, FinishFacts
<1>5. PlanOK'
  BY <1>1, <1>2, <1>4 DEF PlanOK, PlanIds
<1>6. TodoOK'
  BY <1>1, <1>4, EmptySet DEF TodoOK, Queued
<1>7. ForkOK'
  BY <1>1, <1>2, <1>4 DEF ForkOK, SameText
<1> QED
  BY <1>1, <1>2, <1>4, <1>5, <1>6, <1>7, IInvParts DEF TextKept

\* advance_computed keeps a sequence in its queue.
LEMMA AdvanceFacts ==
    ASSUME NEW s, DOMAIN s = Fields, s.status \in Statuses, NEW q
    PROVE  LET t == advance_computed(s, q)
           IN  /\ DOMAIN t = Fields /\ t.status \in Statuses /\ SameText(t, s)
               /\ t.status = s.status \/ (Active(t) /\ Active(s))
<1> DEFINE n == s.num_computed + q
           st == IF s.status = "prefilling" /\ s.prefill_target <= n THEN "decoding" ELSE s.status
           u == [s EXCEPT !.num_computed = n, !.status = st]
<1>1. advance_computed(s, q) = u
  BY DEF advance_computed, Fields
<1>2. DOMAIN u = Fields /\ SameText(u, s) /\ u.status = st
  BY DEF Fields, SameText
<1>3. st = s.status \/ (st = "decoding" /\ s.status = "prefilling")
  OBVIOUS
<1> HIDE DEF u, st
<1> QED
  BY <1>1, <1>2, <1>3 DEF Active, Statuses

\* commit: progress of what was scheduled.
LEMMA CommitAdvanceInv ==
    ASSUME IInv, CommitAdvance
    PROVE  IInv' /\ TextKept
<1>1. /\ phase = "advance" /\ phase' = "tokens" /\ todo' = SampledIds
      /\ UNCHANGED <<waiting, running, finished, next_id, plan, fork>>
  BY DEF CommitAdvance
<1>2. /\ next_id \in Nat /\ DOMAIN seqs \subseteq 0 .. (next_id - 1)
      /\ Recorded(seqs) /\ FirstCome(seqs) /\ InOrder(seqs, waiting)
      /\ Queued(seqs, waiting, running, finished) /\ PlanList /\ PlanOK /\ TodoOK /\ ForkOK
  BY <1>1, IInvFacts
<1>3. /\ DOMAIN seqs' = DOMAIN seqs
      /\ \A i \in DOMAIN seqs : seqs'[i] = seqs[i] \/ \E q : seqs'[i] = advance_computed(seqs[i], q)
  BY DEF CommitAdvance
<1>4. ASSUME NEW i \in DOMAIN seqs
      PROVE  /\ DOMAIN seqs'[i] = Fields /\ seqs'[i].status \in Statuses /\ SameText(seqs'[i], seqs[i])
             /\ seqs'[i].status = seqs[i].status \/ (Active(seqs'[i]) /\ Active(seqs[i]))
  <2>1. DOMAIN seqs[i] = Fields /\ seqs[i].status \in Statuses
    BY <1>2 DEF Recorded
  <2>2. CASE seqs'[i] = seqs[i]
    BY <2>1, <2>2 DEF SameText
  <2>3. CASE \E q : seqs'[i] = advance_computed(seqs[i], q)
    <3>1. PICK q : seqs'[i] = advance_computed(seqs[i], q)
      BY <2>3
    <3> QED
      BY <2>1, <3>1, AdvanceFacts
  <2> QED
    BY <1>3, <2>2, <2>3
<1>5. Recorded(seqs')
  BY <1>3, <1>4 DEF Recorded
<1>6. Queued(seqs', waiting', running', finished') /\ InOrder(seqs', waiting')
  BY <1>1, <1>2, <1>3, <1>4, QueuedSame
<1>7. FirstCome(seqs')
  <2>1. ASSUME NEW i \in DOMAIN seqs'
        PROVE  /\ seqs'[i].choice = seqs[i].choice
               /\ seqs'[i].status = "waiting" => seqs[i].status = "waiting"
               /\ seqs[i].status \in {"waiting", "finished"} => seqs'[i].status \in {"waiting", "finished"}
    BY <1>3, <1>4 DEF SameText, Active
  <2> QED
    BY <1>2, <1>3, <2>1, FirstComeKept
<1>8. PlanOK'
  BY <1>1, <1>2, <1>3 DEF PlanOK, PlanIds
<1>9. TodoOK'
  <2>1. SampledIds \in Seq(Nat) /\ NoRepeats(SampledIds) /\ ToSet(SampledIds) \subseteq ToSet(PlanIds)
    BY <1>2, SampledFacts
  <2>2. PlanIds' = PlanIds
    BY <1>1 DEF PlanIds
  <2> HIDE DEF SampledIds, PlanIds
  <2> QED
    BY <1>1, <1>2, <2>1, <2>2 DEF TodoOK
<1>11. \A i \in DOMAIN seqs : is_finished(seqs[i]) => is_finished(seqs'[i])
  BY <1>4 DEF is_finished, Active
<1>10. ForkOK'
  BY <1>1, <1>2, <1>3, <1>4 DEF ForkOK, SameText
<1> QED
  BY <1>1, <1>2, <1>3, <1>5, <1>6, <1>7, <1>8, <1>9, <1>10, <1>4, <1>11, IInvParts DEF TextKept

\* push_token changes the tokens only.
LEMMA PushTokenFacts ==
    ASSUME NEW s, DOMAIN s = Fields, NEW t
    PROVE  LET u == push_token(s, t)
           IN  /\ DOMAIN u = Fields /\ u.status = s.status /\ u.choice = s.choice
               /\ u.tokens = Append(s.tokens, t) /\ u.prompt_len = s.prompt_len
               /\ u.max_tokens = s.max_tokens /\ u.stop = s.stop
  BY DEF push_token, Fields

\* commit, for one sampled token: the sequences once the token is appended.
LEMMA PushedFacts ==
    ASSUME Recorded(seqs), FirstCome(seqs), Queued(seqs, waiting, running, finished),
           InOrder(seqs, waiting), NEW id \in DOMAIN seqs, NEW t
    PROVE  LET ss == [seqs EXCEPT ![id] = push_token(@, t)]
           IN  /\ DOMAIN ss = DOMAIN seqs /\ Recorded(ss) /\ FirstCome(ss)
               /\ Queued(ss, waiting, running, finished) /\ InOrder(ss, waiting)
               /\ ss[id] = push_token(seqs[id], t)
               /\ \A i \in DOMAIN seqs : /\ i # id => ss[i] = seqs[i]
                                         /\ ss[i].choice = seqs[i].choice
                                         /\ ss[i].status = seqs[i].status
<1> DEFINE ss == [seqs EXCEPT ![id] = push_token(@, t)]
<1>1. /\ DOMAIN ss = DOMAIN seqs /\ ss[id] = push_token(seqs[id], t)
      /\ \A i \in DOMAIN seqs : i # id => ss[i] = seqs[i]
  OBVIOUS
<1> HIDE DEF ss
<1>2. /\ DOMAIN ss[id] = Fields /\ ss[id].status = seqs[id].status /\ ss[id].choice = seqs[id].choice
  BY <1>1, PushTokenFacts DEF Recorded
<1>3. \A i \in DOMAIN seqs : ss[i].status = seqs[i].status /\ ss[i].choice = seqs[i].choice
  BY <1>1, <1>2
<1>4. Recorded(ss)
  BY <1>1, <1>2, <1>3 DEF Recorded
<1>5. FirstCome(ss)
  BY <1>1, <1>3, FirstComeKept
<1>6. Queued(ss, waiting, running, finished) /\ InOrder(ss, waiting)
  BY <1>1, <1>3, QueuedSame
<1> QED
  BY <1>1, <1>3, <1>4, <1>5, <1>6 DEF ss

\* What CommitToken does.
LEMMA CommitTokenFacts ==
    ASSUME IInv, CommitToken
    PROVE  LET id == Head(todo)
               s  == push_token(seqs[id], sampled[id])
           IN  /\ phase = "tokens" /\ phase' = "tokens" /\ todo' = Tail(todo)
               /\ UNCHANGED <<next_id, plan, fork, pending_forks>>
               /\ id \in DOMAIN seqs /\ id \in Nat /\ todo # <<>>
               /\ todo' \in Seq(Nat) /\ NoRepeats(todo') /\ id \notin ToSet(todo')
               /\ ToSet(todo) = ToSet(todo') \cup {id}
               /\ DOMAIN seqs' = DOMAIN seqs /\ Recorded(seqs') /\ FirstCome(seqs')
               /\ Queued(seqs', waiting', running', finished') /\ InOrder(seqs', waiting')
               /\ SameText(seqs'[id], s)
               /\ is_finished(seqs'[id]) <=> is_finished(seqs[id]) \/ check_finished(s) # "none"
               /\ \A i \in DOMAIN seqs : /\ seqs'[i].choice = seqs[i].choice
                                         /\ i # id => /\ SameText(seqs'[i], seqs[i])
                                                      /\ is_finished(seqs'[i]) <=> is_finished(seqs[i])
<1> DEFINE id == Head(todo)
           s  == push_token(seqs[id], sampled[id])
           ss == [seqs EXCEPT ![id] = push_token(@, sampled[id])]
           reason == check_finished(ss[id])
           ids == IF reason = "none" THEN <<>> ELSE <<id>>
<1>1. /\ phase = "tokens" /\ phase' = "tokens" /\ todo # <<>> /\ todo' = Tail(todo)
      /\ Finish(ss, ids, reason) /\ UNCHANGED <<next_id, plan, fork, pending_forks>>
  BY DEF CommitToken
<1>2. /\ Recorded(seqs) /\ FirstCome(seqs) /\ InOrder(seqs, waiting)
      /\ Queued(seqs, waiting, running, finished) /\ PlanOK /\ TodoOK
  BY <1>1, IInvFacts
<1>3. /\ id \in DOMAIN seqs /\ id \in Nat
      /\ todo' \in Seq(Nat) /\ NoRepeats(todo') /\ id \notin ToSet(todo')
      /\ ToSet(todo) = ToSet(todo') \cup {id}
  <2>1. todo \in Seq(Nat) /\ NoRepeats(todo) /\ ToSet(todo) \subseteq DOMAIN seqs
    BY <1>1, <1>2 DEF PlanOK, TodoOK
  <2>2. /\ id \in Nat /\ Tail(todo) \in Seq(Nat) /\ id \in ToSet(todo)
        /\ ToSet(todo) = ToSet(Tail(todo)) \cup {id}
        /\ NoRepeats(Tail(todo)) /\ id \notin ToSet(Tail(todo))
    BY <1>1, <2>1, TailSet
  <2> QED
    BY <1>1, <2>1, <2>2
<1> HIDE DEF id
<1>4. /\ DOMAIN ss = DOMAIN seqs /\ Recorded(ss) /\ FirstCome(ss)
      /\ Queued(ss, waiting, running, finished) /\ InOrder(ss, waiting) /\ ss[id] = s
      /\ \A i \in DOMAIN seqs : /\ i # id => ss[i] = seqs[i]
                                /\ ss[i].choice = seqs[i].choice
                                /\ ss[i].status = seqs[i].status
  BY <1>2, <1>3, PushedFacts
<1> HIDE DEF ss, s
<1>5. /\ ids \in Seq(Nat) /\ NoRepeats(ids) /\ ToSet(ids) \subseteq DOMAIN ss
      /\ id \in ToSet(ids) <=> check_finished(s) # "none"
      /\ \A i \in ToSet(ids) : i = id
  <2>1. <<id>> \in Seq(Nat) /\ NoRepeats(<<id>>) /\ ToSet(<<id>>) = {id}
    BY <1>3 DEF NoRepeats, ToSet
  <2> QED
    BY <1>3, <1>4, <2>1, EmptySet
<1> HIDE DEF ids, reason
<1>6. /\ DOMAIN seqs' = DOMAIN ss /\ Recorded(seqs') /\ FirstCome(seqs')
      /\ Queued(seqs', waiting', running', finished') /\ InOrder(seqs', waiting')
      /\ \A i \in DOMAIN ss : /\ SameText(seqs'[i], ss[i])
                              /\ is_finished(seqs'[i]) <=> is_finished(ss[i]) \/ i \in ToSet(ids)
  BY <1>1, <1>4, <1>5, FinishFacts
<1>7. \A i \in DOMAIN seqs : is_finished(ss[i]) <=> is_finished(seqs[i])
  BY <1>4 DEF is_finished
<1>8. /\ SameText(seqs'[id], s)
      /\ is_finished(seqs'[id]) <=> is_finished(seqs[id]) \/ check_finished(s) # "none"
  BY <1>3, <1>4, <1>5, <1>6, <1>7
<1>9. ASSUME NEW i \in DOMAIN seqs
      PROVE  /\ seqs'[i].choice = seqs[i].choice
             /\ i # id => /\ SameText(seqs'[i], seqs[i])
                          /\ is_finished(seqs'[i]) <=> is_finished(seqs[i])
  <2>1. seqs'[i].choice = seqs[i].choice
    BY <1>4, <1>6 DEF SameText
  <2> QED
    BY <1>4, <1>5, <1>6, <1>7, <2>1
<1> QED
  BY <1>1, <1>3, <1>4, <1>6, <1>8, <1>9 DEF id, s

\* commit: the sampled token, which may end the sequence.
LEMMA CommitTokenInv ==
    ASSUME IInv, CommitToken
    PROVE  IInv'
<1>1. /\ phase = "tokens" /\ phase' = "tokens" /\ UNCHANGED <<next_id, plan, fork>>
      /\ todo' \in Seq(Nat) /\ NoRepeats(todo') /\ ToSet(todo') \subseteq ToSet(todo)
      /\ DOMAIN seqs' = DOMAIN seqs /\ Recorded(seqs') /\ FirstCome(seqs')
      /\ Queued(seqs', waiting', running', finished') /\ InOrder(seqs', waiting')
      /\ \A i \in DOMAIN seqs : seqs'[i].choice = seqs[i].choice
  BY CommitTokenFacts
<1>2. /\ next_id \in Nat /\ DOMAIN seqs \subseteq 0 .. (next_id - 1) /\ PlanOK /\ TodoOK /\ ForkOK
  BY <1>1, IInvFacts
<1>3. PlanOK'
  BY <1>1, <1>2 DEF PlanOK, PlanIds
<1>4. TodoOK'
  BY <1>1, <1>2 DEF TodoOK, PlanIds, Queued
<1>5. ForkOK'
  BY <1>1, <1>2 DEF ForkOK
<1> QED
  BY <1>1, <1>2, <1>3, <1>4, <1>5, IInvParts

\* A step that rewrites one sequence and leaves its status alone.
LEMMA OneSequence ==
    ASSUME Recorded(seqs), FirstCome(seqs), Queued(seqs, waiting, running, finished),
           InOrder(seqs, waiting), NEW id, NEW s, seqs' = [seqs EXCEPT ![id] = s],
           id \in DOMAIN seqs =>
              DOMAIN s = Fields /\ s.status = seqs[id].status /\ s.choice = seqs[id].choice,
           UNCHANGED <<waiting, running, finished>>
    PROVE  /\ DOMAIN seqs' = DOMAIN seqs /\ Recorded(seqs') /\ FirstCome(seqs')
           /\ Queued(seqs', waiting', running', finished') /\ InOrder(seqs', waiting')
           /\ \A i \in DOMAIN seqs : /\ i # id => seqs'[i] = seqs[i]
                                     /\ seqs'[i].choice = seqs[i].choice
                                     /\ seqs'[i].status = seqs[i].status
           /\ id \in DOMAIN seqs => seqs'[id] = s
<1>1. /\ DOMAIN seqs' = DOMAIN seqs
      /\ id \in DOMAIN seqs => seqs'[id] = s
      /\ \A i \in DOMAIN seqs : i # id => seqs'[i] = seqs[i]
  OBVIOUS
<1>2. \A i \in DOMAIN seqs : seqs'[i].choice = seqs[i].choice /\ seqs'[i].status = seqs[i].status
  BY <1>1
<1>3. Recorded(seqs')
  BY <1>1, <1>2 DEF Recorded
<1>4. FirstCome(seqs')
  BY <1>1, <1>2, FirstComeKept, ZenonT(40)
<1>5. Queued(seqs', waiting, running, finished) /\ InOrder(seqs', waiting)
  BY <1>1, <1>2, QueuedSame
<1> QED
  BY <1>1, <1>2, <1>3, <1>4, <1>5

\* commit: full blocks are published.
LEMMA CommitPublishInv ==
    ASSUME IInv, CommitPublish
    PROVE  IInv' /\ TextKept
<1> DEFINE id == Head(todo)
           r == publish_full_blocks(seqs[id])
<1>1. /\ phase = "publish" /\ phase' = "publish" /\ todo # <<>> /\ todo' = Tail(todo)
      /\ seqs' = seqs \/ seqs' = [seqs EXCEPT ![id] = r.seq]
      /\ UNCHANGED <<waiting, running, finished, next_id, plan, fork>>
  BY DEF CommitPublish
<1>2. /\ next_id \in Nat /\ DOMAIN seqs \subseteq 0 .. (next_id - 1)
      /\ Recorded(seqs) /\ FirstCome(seqs) /\ InOrder(seqs, waiting)
      /\ Queued(seqs, waiting, running, finished) /\ PlanOK /\ TodoOK /\ ForkOK
  BY <1>1, IInvFacts
<1>3. ASSUME id \in DOMAIN seqs
      PROVE  /\ DOMAIN r.seq = Fields /\ r.seq.status = seqs[id].status /\ r.seq.choice = seqs[id].choice
             /\ SameText(r.seq, seqs[id])
  <2>1. \E x, y : r.seq = [seqs[id] EXCEPT !.blocks = x, !.num_cached_blocks = y]
    BY DEF publish_full_blocks
  <2>2. DOMAIN seqs[id] = Fields
    BY <1>2, <1>3 DEF Recorded
  <2> HIDE DEF r
  <2> QED
    BY <2>1, <2>2 DEF Fields, SameText
<1> HIDE DEF id, r
<1>4. /\ DOMAIN seqs' = DOMAIN seqs /\ Recorded(seqs') /\ FirstCome(seqs')
      /\ Queued(seqs', waiting', running', finished') /\ InOrder(seqs', waiting')
      /\ \A i \in DOMAIN seqs : /\ SameText(seqs'[i], seqs[i])
                                /\ seqs'[i].status = seqs[i].status
  <2>1. CASE seqs' = seqs
    BY <1>1, <1>2, <2>1 DEF SameText
  <2>2. CASE seqs' = [seqs EXCEPT ![id] = r.seq]
    <3>1. /\ DOMAIN seqs' = DOMAIN seqs /\ Recorded(seqs') /\ FirstCome(seqs')
          /\ Queued(seqs', waiting', running', finished') /\ InOrder(seqs', waiting')
          /\ \A i \in DOMAIN seqs : /\ i # id => seqs'[i] = seqs[i]
                                    /\ seqs'[i].status = seqs[i].status
          /\ id \in DOMAIN seqs => seqs'[id] = r.seq
      BY <1>1, <1>2, <1>3, <2>2, OneSequence
    <3>2. \A i \in DOMAIN seqs : SameText(seqs'[i], seqs[i])
      BY <1>3, <3>1 DEF SameText
    <3> QED
      BY <3>1, <3>2
  <2> QED
    BY <1>1, <2>1, <2>2
<1>5. PlanOK'
  BY <1>1, <1>2, <1>4 DEF PlanOK, PlanIds
<1>6. TodoOK'
  BY <1>1, <1>2 DEF TodoOK
<1>7. ForkOK'
  BY <1>1, <1>2, <1>4 DEF ForkOK, SameText
<1> QED
  BY <1>1, <1>2, <1>4, <1>5, <1>6, <1>7, IInvParts DEF TextKept, is_finished

\* What ForkChild does: a new running sequence that is no leader.
LEMMA ForkChildFacts ==
    ASSUME IInv, ForkChild
    PROVE  \E c : /\ seqs' = Bind(seqs, next_id, c)
                  /\ DOMAIN c = Fields /\ c.status = "decoding"
                  /\ c.choice = Len(fork.ids) + 1
                  /\ c.tokens = SubSeq(Leader.tokens, 1, Leader.prompt_len)
                  /\ c.prompt_len = Leader.prompt_len /\ c.max_tokens = Leader.max_tokens
<1> DEFINE private == ForkOpen.block
           c == [Leader EXCEPT
                       !.status = "decoding", !.reason = "none", !.stream = FALSE,
                       !.choice = Len(fork.ids) + 1,
                       !.tokens = SubSeq(@, 1, Leader.prompt_len),
                       !.prefill_target = Leader.prompt_len,
                       !.blocks = IF private = NoBlock THEN ForkShared
                                                       ELSE Append(ForkShared, private)]
<1>1. phase = "forking" /\ seqs' = Bind(seqs, next_id, c)
  BY DEF ForkChild
<1>2. ForkOK /\ Recorded(seqs)
  BY <1>1, IInvFacts
<1>3. DOMAIN Leader = Fields
  BY <1>1, <1>2 DEF ForkOK, Recorded, Leader
<1> HIDE DEF Leader, private
<1>4. /\ DOMAIN c = Fields /\ c.status = "decoding" /\ c.choice = Len(fork.ids) + 1
      /\ c.tokens = SubSeq(Leader.tokens, 1, Leader.prompt_len)
      /\ c.prompt_len = Leader.prompt_len /\ c.max_tokens = Leader.max_tokens
  BY <1>3 DEF Fields
<1> QED
  BY <1>1, <1>4

\* fork: a child in the running queue, or a failure.
LEMMA ForkChildInv ==
    ASSUME IInv, ForkChild
    PROVE  IInv'
<1>1. /\ phase = "forking" /\ phase' = "forking"
      /\ running' = Append(running, next_id) /\ next_id' = next_id + 1
      /\ UNCHANGED <<waiting, finished, todo, plan>>
  BY DEF ForkChild
<1>2. /\ next_id \in Nat /\ DOMAIN seqs \subseteq 0 .. (next_id - 1)
      /\ Recorded(seqs) /\ FirstCome(seqs) /\ InOrder(seqs, waiting)
      /\ Queued(seqs, waiting, running, finished) /\ PlanOK /\ TodoOK /\ ForkOK
  BY <1>1, IInvFacts
<1>3. PICK c : /\ seqs' = Bind(seqs, next_id, c)
               /\ DOMAIN c = Fields /\ c.status = "decoding" /\ c.choice = Len(fork.ids) + 1
  BY ForkChildFacts
<1>4. /\ fork.ids \in Seq(Nat) /\ Len(fork.ids) \in Nat /\ c.choice # 0
  BY <1>2, <1>3 DEF ForkOK
<1>5. /\ DOMAIN fork' = DOMAIN fork /\ fork'.leader = fork.leader
      /\ fork'.ids = Append(fork.ids, next_id)
  <2>1. \E x, y : fork' = [fork EXCEPT !.left = x, !.ids = Append(@, next_id), !.copies = y]
    BY DEF ForkChild
  <2> QED
    BY <1>2, <2>1 DEF ForkOK
<1>6. /\ DOMAIN seqs' = DOMAIN seqs \cup {next_id} /\ seqs'[next_id] = c /\ next_id \notin DOMAIN seqs
      /\ \A i \in DOMAIN seqs : seqs'[i] = seqs[i]
  BY <1>2, <1>3 DEF Bind
<1>7. DOMAIN seqs' \subseteq 0 .. (next_id' - 1) /\ next_id' \in Nat
  BY <1>1, <1>2, <1>6
<1>8. Recorded(seqs')
  BY <1>2, <1>3, <1>6 DEF Recorded, Statuses
<1>9. FirstCome(seqs')
  BY <1>2, <1>3, <1>4, FirstComeNew
<1>10. Queued(seqs', waiting', running', finished') /\ InOrder(seqs', waiting')
  <2>1. Active(c)
    BY <1>3 DEF Active
  <2> QED
    BY <1>1, <1>2, <1>3, <1>6, <2>1, QueuedChild
<1>11. PlanOK'
  BY <1>1, <1>2, <1>6 DEF PlanOK, PlanIds
<1>12. TodoOK'
  BY <1>1, <1>2, <1>10 DEF TodoOK, PlanIds, Queued
<1>13. ForkOK'
  <2>1. /\ fork'.ids \in Seq(Nat) /\ ToSet(fork'.ids) = ToSet(fork.ids) \cup {next_id}
    BY <1>2, <1>4, <1>5, AppendSet
  <2>2. \A i \in ToSet(fork.ids) : i \in Nat /\ i < next_id
    BY <1>2 DEF ForkOK, ToSet
  <2> QED
    BY <1>1, <1>2, <1>4, <1>5, <1>6, <2>1, <2>2 DEF ForkOK
<1> QED
  BY <1>1, <1>7, <1>8, <1>9, <1>10, <1>11, <1>12, <1>13, IInvParts

\* What SeedFork does: it rewrites one sequence, appending a token.
LEMMA SeedForkFacts ==
    ASSUME IInv, SeedFork
    PROVE  LET id == Head(fork.ids)
           IN  /\ phase = "seeding" /\ fork.ids # <<>>
               /\ UNCHANGED <<waiting, running, finished, next_id, todo, plan>>
               /\ \/ /\ fork' = [fork EXCEPT !.ids = Tail(@)]
                     /\ UNCHANGED phase
                  \/ EndFork(TRUE)
               /\ \E s : /\ seqs' = [seqs EXCEPT ![id] = s]
                         /\ id \in DOMAIN seqs =>
                              /\ DOMAIN s = Fields
                              /\ s.status = seqs[id].status /\ s.choice = seqs[id].choice
                              /\ \E t : s.tokens = Append(seqs[id].tokens, t)
                              /\ s.prompt_len = seqs[id].prompt_len
                              /\ s.max_tokens = seqs[id].max_tokens
<1> DEFINE id == Head(fork.ids)
<1>1. /\ phase = "seeding" /\ fork.ids # <<>>
      /\ UNCHANGED <<waiting, running, finished, next_id, todo, plan>>
      /\ (fork' = [fork EXCEPT !.ids = Tail(@)] /\ UNCHANGED phase) \/ EndFork(TRUE)
  BY DEF SeedFork
<1>2. PICK t, x, y : seqs' = [seqs EXCEPT ![id] = [push_token(seqs[id], t) EXCEPT !.blocks = x, !.stream = y]]
  BY DEF SeedFork
<1> DEFINE u == push_token(seqs[id], t)
           s == [u EXCEPT !.blocks = x, !.stream = y]
<1>3. ASSUME id \in DOMAIN seqs
      PROVE  /\ DOMAIN s = Fields /\ s.status = seqs[id].status /\ s.choice = seqs[id].choice
             /\ s.tokens = Append(seqs[id].tokens, t)
             /\ s.prompt_len = seqs[id].prompt_len /\ s.max_tokens = seqs[id].max_tokens
  <2>1. DOMAIN seqs[id] = Fields
    BY <1>1, <1>3, IInvFacts DEF Recorded
  <2>2. /\ DOMAIN u = Fields /\ u.status = seqs[id].status /\ u.choice = seqs[id].choice
        /\ u.tokens = Append(seqs[id].tokens, t)
        /\ u.prompt_len = seqs[id].prompt_len /\ u.max_tokens = seqs[id].max_tokens
    BY <2>1, PushTokenFacts
  <2> HIDE DEF u
  <2> QED
    BY <2>2 DEF Fields
<1>4. seqs' = [seqs EXCEPT ![id] = s]
  BY <1>2
<1> HIDE DEF s, id
<1> QED
  BY <1>1, <1>3, <1>4 DEF id

\* seed_fork: the child's first token.
LEMMA SeedForkInv ==
    ASSUME IInv, SeedFork
    PROVE  IInv'
<1> DEFINE id == Head(fork.ids)
<1>1. /\ phase = "seeding" /\ fork.ids # <<>>
      /\ UNCHANGED <<waiting, running, finished, next_id, todo, plan>>
      /\ (fork' = [fork EXCEPT !.ids = Tail(@)] /\ UNCHANGED phase) \/ EndFork(TRUE)
  BY SeedForkFacts
<1>2. PICK s : /\ seqs' = [seqs EXCEPT ![id] = s]
               /\ id \in DOMAIN seqs =>
                    DOMAIN s = Fields /\ s.status = seqs[id].status /\ s.choice = seqs[id].choice
  BY SeedForkFacts
<1>3. /\ next_id \in Nat /\ DOMAIN seqs \subseteq 0 .. (next_id - 1)
      /\ Recorded(seqs) /\ FirstCome(seqs) /\ InOrder(seqs, waiting)
      /\ Queued(seqs, waiting, running, finished) /\ PlanOK /\ TodoOK /\ ForkOK
  BY <1>1, IInvFacts
<1>4. /\ DOMAIN seqs' = DOMAIN seqs /\ Recorded(seqs') /\ FirstCome(seqs')
      /\ Queued(seqs', waiting', running', finished') /\ InOrder(seqs', waiting')
      /\ \A i \in DOMAIN seqs : seqs'[i].choice = seqs[i].choice
  BY <1>1, <1>2, <1>3, OneSequence
<1>5. phase' \in {"seeding", "forks"} /\ ForkOK'
  <2>1. CASE EndFork(TRUE)
    BY <2>1, EndForkFacts, EmptySet DEF ForkOK
  <2>2. CASE fork' = [fork EXCEPT !.ids = Tail(@)] /\ UNCHANGED phase
    <3>1. /\ DOMAIN fork' = DOMAIN fork /\ fork'.ids = Tail(fork.ids) /\ fork'.leader = fork.leader
      BY <1>3, <2>2 DEF ForkOK
    <3>2. fork'.ids \in Seq(Nat) /\ ToSet(fork'.ids) \subseteq ToSet(fork.ids)
      BY <1>1, <1>3, <3>1, TailSet DEF ForkOK
    <3> QED
      BY <1>1, <1>3, <1>4, <2>2, <3>1, <3>2 DEF ForkOK
  <2> QED
    BY <1>1, <2>1, <2>2
<1>6. PlanOK'
  BY <1>1, <1>3, <1>4, <1>5 DEF PlanOK, PlanIds
<1>7. TodoOK'
  BY <1>1, <1>3, <1>5 DEF TodoOK, PlanIds
<1> QED
  BY <1>1, <1>3, <1>4, <1>5, <1>6, <1>7, IInvParts

\* The end of a step: the finished sequences, and those in gone, are dropped.
LEMMA DropInv ==
    ASSUME IInv, phase \notin {"panicked", "decodes"}, phase' = "idle", NEW gone,
           seqs' = [i \in DOMAIN seqs \ (gone \cup ToSet(finished)) |-> seqs[i]],
           waiting' = Without(waiting, gone) \/ (gone = {} /\ waiting' = waiting),
           running' = Without(running, gone) \/ (gone = {} /\ running' = running),
           finished' = <<>>, todo' = <<>>, plan' = <<>>, UNCHANGED <<next_id, fork>>
    PROVE  IInv' /\ TextKept
<1>1. /\ next_id \in Nat /\ DOMAIN seqs \subseteq 0 .. (next_id - 1)
      /\ Recorded(seqs) /\ FirstCome(seqs) /\ InOrder(seqs, waiting)
      /\ Queued(seqs, waiting, running, finished) /\ ForkOK
  BY IInvFacts
<1>2. /\ DOMAIN seqs' = DOMAIN seqs \ (gone \cup ToSet(finished))
      /\ \A i \in DOMAIN seqs' : seqs'[i] = seqs[i]
  OBVIOUS
<1>3. waiting \in Seq(Nat) /\ NoRepeats(waiting) /\ running \in Seq(Nat) /\ NoRepeats(running)
  BY <1>1 DEF Queued
<1>4. waiting' \in Seq(Nat) /\ NoRepeats(waiting') /\ ToSet(waiting') = ToSet(waiting) \ gone
  BY <1>3, WithoutSet
<1>5. running' \in Seq(Nat) /\ NoRepeats(running') /\ ToSet(running') = ToSet(running) \ gone
  BY <1>3, WithoutSet
<1>6. Queued(seqs', waiting', running', <<>>)
  BY <1>1, <1>4, <1>5, QueuedDrop
<1>7. InOrder(seqs', waiting')
  <2>1. \A i \in ToSet(waiting) \ gone : seqs'[i] = seqs[i]
    <3>1. \A i \in ToSet(waiting) : i \in DOMAIN seqs /\ i \notin ToSet(finished)
      BY <1>1, OneClass DEF Queued
    <3> QED
      BY <1>2, <3>1
  <2>2. InOrder(seqs', Without(waiting, gone))
    BY <1>1, <1>3, <2>1, OrderWithout
  <2>3. ASSUME gone = {} PROVE InOrder(seqs', waiting)
    <3>1. \A a \in 1 .. Len(waiting) : waiting[a] \in ToSet(waiting)
      BY <1>3 DEF ToSet
    <3>2. \A a \in 1 .. Len(waiting) : seqs'[waiting[a]] = seqs[waiting[a]]
      BY <2>1, <2>3, <3>1
    <3> QED
      BY <1>1, <3>2 DEF InOrder
  <2> QED
    BY <2>2, <2>3
<1>8. Recorded(seqs')
  BY <1>1, <1>2 DEF Recorded
<1>9. FirstCome(seqs')
  BY <1>1, <1>2, FirstComeKept
<1>10. PlanOK'
  <2>1. PlanIds' = <<>> /\ plan' \in Seq(ToSet(plan'))
    BY EmptySet DEF PlanIds
  <2> QED
    BY <2>1, EmptySet DEF PlanOK
<1>11. TodoOK'
  BY <1>5, EmptySet DEF TodoOK
<1>12. ForkOK'
  BY <1>1, <1>2 DEF ForkOK
<1> QED
  BY <1>1, <1>2, <1>6, <1>7, <1>8, <1>9, <1>10, <1>11, <1>12, IInvParts DEF TextKept, SameText

\* drain_finished removes what has ended.
LEMMA DrainInv ==
    ASSUME IInv, Drain
    PROVE  IInv' /\ TextKept
<1>1. /\ phase = "drain" /\ phase' = "idle" /\ finished' = <<>> /\ todo' = <<>> /\ plan' = <<>>
      /\ seqs' = [i \in DOMAIN seqs \ ToSet(finished) |-> seqs[i]]
      /\ UNCHANGED <<waiting, running, next_id, fork>>
  BY DEF Drain
<1>2. seqs' = [i \in DOMAIN seqs \ ({} \cup ToSet(finished)) |-> seqs[i]]
  BY <1>1
<1> QED
  BY <1>1, <1>2, DropInv

\* fail_all cancels one request after another.
LEMMA FailAllInv ==
    ASSUME IInv, ForwardFails \/ DeadlinePassed
    PROVE  IInv' /\ TextKept
<1>1. PICK gone : /\ seqs' = [i \in DOMAIN seqs \ (gone \cup ToSet(finished)) |-> seqs[i]]
                  /\ waiting' = Without(waiting, gone) /\ running' = Without(running, gone)
  BY DEF ForwardFails, DeadlinePassed, FailAll
<1>2. /\ phase \in {"idle", "forward"} /\ phase' = "idle"
      /\ finished' = <<>> /\ todo' = <<>> /\ plan' = <<>> /\ UNCHANGED <<next_id, fork>>
  BY DEF ForwardFails, DeadlinePassed, FailAll
<1> QED
  BY <1>1, <1>2, DropInv

----------------------------------------------------------------------------
\* The invariant holds at the start.
LEMMA InitIInv == Init => IInv
<1> SUFFICES ASSUME Init PROVE IInv
  OBVIOUS
<1>1. /\ seqs = <<>> /\ waiting = <<>> /\ running = <<>> /\ finished = <<>> /\ next_id = 0
      /\ phase = "idle" /\ todo = <<>> /\ plan = <<>> /\ fork = NoFork
  BY DEF Init
<1>2. DOMAIN seqs = {}
  BY <1>1
<1>3. Recorded(seqs) /\ NoOvertaking
  BY <1>2 DEF Recorded, NoOvertaking
<1>4. Queued(seqs, waiting, RunList, finished)
  BY <1>1, <1>2, EmptySet DEF Queued, RunList
<1>5. InOrder(seqs, waiting)
  BY <1>1 DEF InOrder
<1>6. PlanIds = <<>> /\ plan \in Seq(ToSet(plan))
  BY <1>1, EmptySet DEF PlanIds
<1>7. PlanOK /\ TodoOK
  BY <1>1, <1>6, EmptySet DEF PlanOK, TodoOK
<1>8. ForkOK
  BY <1>1, EmptySet DEF ForkOK, NoFork
<1> QED
  BY <1>1, <1>2, <1>3, <1>4, <1>5, <1>7, <1>8 DEF IInv

\* Every step keeps the invariant.
LEMMA StepIInv == IInv /\ [Next]_vars => IInv'
<1> SUFFICES ASSUME IInv, [Next]_vars PROVE IInv'
  OBVIOUS
<1>1. CASE UNCHANGED vars
  <2>1. UNCHANGED <<seqs, waiting, running, finished, next_id, phase, todo, plan, fork>>
    BY <1>1 DEF vars
  <2>2. /\ PlanIds' = PlanIds /\ RunList' = RunList /\ (NoOvertaking' <=> NoOvertaking)
    BY <2>1 DEF PlanIds, RunList, NoOvertaking
  <2>3. (PlanOK' <=> PlanOK) /\ (TodoOK' <=> TodoOK) /\ (ForkOK' <=> ForkOK)
    BY <2>1, <2>2 DEF PlanOK, TodoOK, ForkOK
  <2> QED
    BY <2>1, <2>2, <2>3 DEF IInv
<1>2. CASE Step
  BY <1>2, BeginStepInv, SkipDecodeInv, ScheduleDecodeInv, EndDecodesInv, ContinuePrefillInv,
     StartWaitingInv, PhaseInv, ForwardInv, FinishStoppedInv, CommitAdvanceInv, CommitTokenInv,
     EndTokensInv, CommitPublishInv, EndPublishInv, BeginForkInv, ForkChildInv, EndForkInv,
     SeedForkInv, DrainInv
     DEF Step
<1>3. CASE ForwardFails \/ DeadlinePassed
  BY <1>3, FailAllInv
<1>4. ASSUME NEW j \in Jobs, Admit(j) \/ Cancel(j.rid)
      PROVE  IInv'
  BY <1>4, AdmitInv, CancelInv
<1> QED
  BY <1>1, <1>2, <1>3, <1>4 DEF Next

\* The inductive invariant holds in every reachable state of the scheduler.
THEOREM QueuesHold == Spec => []IInv
  BY InitIInv, StepIInv, PTL DEF Spec

----------------------------------------------------------------------------
\* The places of an id in the list q, under the letter c.
PlacesIn(c, q, i) == {<<c, k>> : k \in {k \in 1 .. Len(q) : q[k] = i}}

\* A list without repetitions has one place for a member.
LEMMA PlacesOne ==
    ASSUME NEW q \in Seq(Nat), NoRepeats(q), NEW i, NEW c
    PROVE  /\ i \in ToSet(q) => \E k : PlacesIn(c, q, i) = {<<c, k>>}
           /\ i \notin ToSet(q) => PlacesIn(c, q, i) = {}
<1> DEFINE K == {k \in 1 .. Len(q) : q[k] = i}
<1>1. CASE i \in ToSet(q)
  <2>1. PICK k \in 1 .. Len(q) : q[k] = i
    BY <1>1 DEF ToSet
  <2>2. K = {k}
    BY <2>1 DEF NoRepeats
  <2> QED
    BY <1>1, <2>2 DEF PlacesIn
<1>2. CASE i \notin ToSet(q)
  <2>1. K = {}
    BY <1>2 DEF ToSet
  <2> QED
    BY <1>2, <2>1 DEF PlacesIn
<1> QED
  BY <1>1, <1>2

\* The invariant puts a sequence in one queue.
LEMMA QueueOfStatus == IInv => OneQueue
<1> SUFFICES ASSUME IInv, phase # "panicked"
             PROVE  /\ \A i \in DOMAIN seqs :
                          /\ Cardinality(Places(i)) = 1
                          /\ \A p \in Places(i) :
                                \/ p[1] = "w" /\ seqs[i].status \in {"waiting", "preempted"}
                                \/ p[1] = "f" /\ is_finished(seqs[i])
                                \/ p[1] \in {"r", "t"} /\ Active(seqs[i])
                    /\ ToSet(waiting) \cup ToSet(running) \cup ToSet(finished) \subseteq DOMAIN seqs
  BY DEF OneQueue
<1>1. Queued(seqs, waiting, RunList, finished) /\ Recorded(seqs) /\ TodoOK
  BY DEF IInv
<1>2. running \in Seq(Nat) /\ todo \in Seq(Nat)
  BY <1>1 DEF TodoOK
<1>3. /\ NoRepeats(running) /\ ToSet(running) \subseteq ToSet(RunList)
      /\ phase = "decodes" => /\ NoRepeats(todo) /\ ToSet(running) \cap ToSet(todo) = {}
                              /\ ToSet(RunList) = ToSet(running) \cup ToSet(todo)
      /\ phase # "decodes" => RunList = running
  <2>1. CASE phase = "decodes"
    BY <1>1, <1>2, <2>1, DecodesFacts, ConcatSet DEF RunList
  <2>2. CASE phase # "decodes"
    BY <1>1, <2>2 DEF RunList, Queued
  <2> QED
    BY <2>1, <2>2
<1>4. ToSet(waiting) \cup ToSet(running) \cup ToSet(finished) \subseteq DOMAIN seqs
  BY <1>1, <1>3 DEF Queued
<1>5. ASSUME NEW i \in DOMAIN seqs
      PROVE  /\ Cardinality(Places(i)) = 1
             /\ \A p \in Places(i) :
                   \/ p[1] = "w" /\ seqs[i].status \in {"waiting", "preempted"}
                   \/ p[1] = "f" /\ is_finished(seqs[i])
                   \/ p[1] \in {"r", "t"} /\ Active(seqs[i])
  <2> DEFINE W == PlacesIn("w", waiting, i)
             R == PlacesIn("r", running, i)
             F == PlacesIn("f", finished, i)
             T == PlacesIn("t", todo, i)
  <2>1. Places(i) = W \cup R \cup F \cup (IF phase = "decodes" THEN T ELSE {})
    BY DEF Places, PlacesIn
  <2>2. /\ i \in ToSet(waiting) => \E k : W = {<<"w", k>>}
        /\ i \notin ToSet(waiting) => W = {}
    BY <1>1, PlacesOne DEF Queued
  <2>3. /\ i \in ToSet(running) => \E k : R = {<<"r", k>>}
        /\ i \notin ToSet(running) => R = {}
    BY <1>2, <1>3, PlacesOne
  <2>4. /\ i \in ToSet(finished) => \E k : F = {<<"f", k>>}
        /\ i \notin ToSet(finished) => F = {}
    BY <1>1, PlacesOne DEF Queued
  <2>5. phase = "decodes" => /\ i \in ToSet(todo) => \E k : T = {<<"t", k>>}
                             /\ i \notin ToSet(todo) => T = {}
    BY <1>2, <1>3, PlacesOne
  <2> HIDE DEF W, R, F, T
  <2>6. /\ i \in ToSet(waiting) <=> seqs[i].status \in {"waiting", "preempted"}
        /\ i \in ToSet(finished) <=> is_finished(seqs[i])
        /\ i \in ToSet(RunList) <=> Active(seqs[i])
    BY <1>1 DEF Queued
  <2>7. /\ i \in ToSet(RunList) => i \notin ToSet(waiting) /\ i \notin ToSet(finished)
        /\ i \in ToSet(finished) => i \notin ToSet(waiting)
        /\ i \in ToSet(waiting) \/ i \in ToSet(finished) \/ i \in ToSet(RunList)
    BY <1>1, <2>6 DEF Recorded, Statuses, Active, is_finished
  <2>8. \E c, k :
           /\ Places(i) = {<<c, k>>}
           /\ \/ c = "w" /\ i \in ToSet(waiting)
              \/ c = "f" /\ i \in ToSet(finished)
              \/ c \in {"r", "t"} /\ i \in ToSet(RunList)
    <3>1. CASE i \in ToSet(waiting)
      <4>1. R = {} /\ F = {} /\ (phase = "decodes" => T = {})
        BY <1>3, <2>3, <2>4, <2>5, <2>7, <3>1
      <4>2. PICK k : W = {<<"w", k>>}
        BY <2>2, <3>1
      <4> QED
        BY <2>1, <3>1, <4>1, <4>2
    <3>2. CASE i \in ToSet(finished)
      <4>1. R = {} /\ W = {} /\ (phase = "decodes" => T = {})
        BY <1>3, <2>2, <2>3, <2>5, <2>7, <3>2
      <4>2. PICK k : F = {<<"f", k>>}
        BY <2>4, <3>2
      <4> QED
        BY <2>1, <3>2, <4>1, <4>2
    <3>3. CASE i \in ToSet(running)
      <4>1. W = {} /\ F = {} /\ (phase = "decodes" => T = {})
        BY <1>3, <2>2, <2>4, <2>5, <2>7, <3>3
      <4>2. PICK k : R = {<<"r", k>>}
        BY <2>3, <3>3
      <4> QED
        BY <1>3, <2>1, <3>3, <4>1, <4>2
    <3>4. CASE i \in ToSet(RunList) /\ i \notin ToSet(running)
      <4>1. W = {} /\ F = {} /\ R = {} /\ phase = "decodes" /\ i \in ToSet(todo)
        BY <1>3, <2>2, <2>3, <2>4, <2>7, <3>4
      <4>2. PICK k : T = {<<"t", k>>}
        BY <2>5, <4>1
      <4> QED
        BY <2>1, <3>4, <4>1, <4>2
    <3> QED
      BY <2>7, <3>1, <3>2, <3>3, <3>4
  <2>9. PICK c, k :
           /\ Places(i) = {<<c, k>>}
           /\ \/ c = "w" /\ i \in ToSet(waiting)
              \/ c = "f" /\ i \in ToSet(finished)
              \/ c \in {"r", "t"} /\ i \in ToSet(RunList)
    BY <2>8
  <2>10. Cardinality(Places(i)) = 1
    BY <2>9, FS_Singleton
  <2>11. \A p \in Places(i) : p[1] = c
    BY <2>9
  <2> QED
    BY <2>6, <2>9, <2>10, <2>11
<1> QED
  BY <1>4, <1>5

\* Scheduler, queues (scheduler.rs): a live sequence is in exactly one queue,
\* the one its status names, and no queue names a sequence that is gone, for
\* any requests, pool and batch size, through preemption, cancellation, stop
\* strings, forks and backend errors.
THEOREM AlwaysOneQueue == Spec => []OneQueue
  BY QueuesHold, QueueOfStatus, PTL

\* Scheduler::schedule_prefills: no request starts before one admitted
\* earlier that has never been started, whatever the two ask for.
THEOREM NeverOvertaken == Spec => []NoOvertaking
<1>1. IInv => NoOvertaking
  BY DEF IInv
<1> QED
  BY <1>1, QueuesHold, PTL

----------------------------------------------------------------------------
(***************************************************************************)
(* Generation ends where it must.                                          *)
(***************************************************************************)

\* A sequence's text: a prompt and what was generated after it.
Texted(s) ==
    /\ s.tokens \in Seq(ToSet(s.tokens))
    /\ s.prompt_len \in 0 .. Len(s.tokens)
    /\ s.max_tokens \in Nat \ {0}

\* The body of GenerationBounded, for one sequence.
Bounded(s) ==
    /\ num_generated(s) <= s.max_tokens
    /\ total_len(s) <= MaxContext
    /\ \A k \in (s.prompt_len + 1) .. (total_len(s) - 1) : s.tokens[k] \notin EosTokens \cup s.stop

\* Nothing has ended the generation yet.
Open(s) ==
    /\ num_generated(s) < s.max_tokens
    /\ total_len(s) < MaxContext
    /\ \A k \in (s.prompt_len + 1) .. total_len(s) : s.tokens[k] \notin EosTokens \cup s.stop

\* The invariant behind GenerationBounded, for the leaders: a sequence that
\* goes on is open, and so is one stopped in this step whose token has still
\* to be committed.
GenInv ==
    /\ \A i \in DOMAIN seqs :
          /\ Texted(seqs[i])
          /\ seqs[i].choice = 0 => /\ Bounded(seqs[i])
                                   /\ is_finished(seqs[i]) \/ Open(seqs[i])
    /\ phase \in {"stops", "advance"} =>
          \A i \in ToSet(PlanIds) : seqs[i].choice = 0 => Open(seqs[i])
    /\ phase = "tokens" => \A i \in ToSet(todo) : seqs[i].choice = 0 => Open(seqs[i])

\* The same text has the same bounds.
LEMMA SameBounds ==
    ASSUME NEW t, NEW s, SameText(t, s)
    PROVE  (Texted(t) <=> Texted(s)) /\ (Bounded(t) <=> Bounded(s)) /\ (Open(t) <=> Open(s))
  BY DEF SameText, Texted, Bounded, Open, num_generated, total_len

\* A step that leaves the texts alone.
LEMMA GenKept ==
    ASSUME GenInv, TextKept,
           phase' \in {"stops", "advance"} =>
              \A i \in ToSet(PlanIds') : i \in DOMAIN seqs' /\ (seqs[i].choice = 0 => Open(seqs[i])),
           phase' = "tokens" =>
              \A i \in ToSet(todo') : i \in DOMAIN seqs' /\ (seqs[i].choice = 0 => Open(seqs[i]))
    PROVE  GenInv'
<1>1. ASSUME NEW i \in DOMAIN seqs'
      PROVE  /\ i \in DOMAIN seqs /\ seqs'[i].choice = seqs[i].choice
             /\ is_finished(seqs[i]) => is_finished(seqs'[i])
             /\ Texted(seqs'[i]) <=> Texted(seqs[i])
             /\ Bounded(seqs'[i]) <=> Bounded(seqs[i])
             /\ Open(seqs'[i]) <=> Open(seqs[i])
  BY SameBounds DEF TextKept, SameText
<1> DEFINE Fine(s) == /\ Texted(s)
                      /\ s.choice = 0 => Bounded(s) /\ (is_finished(s) \/ Open(s))
<1>2. ASSUME NEW i \in DOMAIN seqs'
      PROVE  Fine(seqs'[i])
  <2>1. Fine(seqs[i])
    BY <1>1 DEF GenInv
  <2> QED
    BY <1>1, <2>1
<1>3. phase' \in {"stops", "advance"} =>
          \A i \in ToSet(PlanIds') : seqs'[i].choice = 0 => Open(seqs'[i])
  BY <1>1
<1>4. phase' = "tokens" => \A i \in ToSet(todo') : seqs'[i].choice = 0 => Open(seqs'[i])
  BY <1>1
<1>5. GenInv' <=> /\ \A i \in DOMAIN seqs' : Fine(seqs'[i])
                  /\ phase' \in {"stops", "advance"} =>
                        \A i \in ToSet(PlanIds') : seqs'[i].choice = 0 => Open(seqs'[i])
                  /\ phase' = "tokens" => \A i \in ToSet(todo') : seqs'[i].choice = 0 => Open(seqs'[i])
  BY DEF GenInv, Texted, Bounded, Open, is_finished, num_generated, total_len
<1> QED
  BY <1>2, <1>3, <1>4, <1>5

\* One more token: push_token, then check_finished.
LEMMA PushBounds ==
    ASSUME NEW s, DOMAIN s = Fields, Texted(s), NEW t
    PROVE  LET u == push_token(s, t)
           IN  /\ Texted(u)
               /\ Open(s) => Bounded(u) /\ (check_finished(u) = "none" => Open(u))
<1> DEFINE u == push_token(s, t)
           A == ToSet(s.tokens) \cup {t}
<1>1. /\ u.tokens = Append(s.tokens, t) /\ u.prompt_len = s.prompt_len
      /\ u.max_tokens = s.max_tokens /\ u.stop = s.stop
  BY PushTokenFacts
<1> HIDE DEF u
<1>2. /\ s.tokens \in Seq(A) /\ t \in A /\ Len(s.tokens) \in Nat
      /\ s.prompt_len \in 0 .. Len(s.tokens) /\ s.max_tokens \in Nat \ {0}
  BY DEF Texted
<1>3. /\ u.tokens \in Seq(A) /\ Len(u.tokens) = Len(s.tokens) + 1 /\ u.tokens[Len(s.tokens) + 1] = t
      /\ \A k \in 1 .. Len(s.tokens) : u.tokens[k] = s.tokens[k]
  BY <1>1, <1>2
<1>4. ToSet(u.tokens) = A
  BY <1>1, <1>2, AppendSet
<1>5. Texted(u)
  BY <1>1, <1>2, <1>3, <1>4 DEF Texted
<1>6. ASSUME Open(s)
      PROVE  Bounded(u)
  <2>1. num_generated(u) <= u.max_tokens /\ total_len(u) <= MaxContext
    BY <1>1, <1>2, <1>3, <1>6, SchedulerAssumption DEF Open, num_generated, total_len
  <2>2. ASSUME NEW k \in (u.prompt_len + 1) .. (total_len(u) - 1)
        PROVE  u.tokens[k] \notin EosTokens \cup u.stop
    <3>1. k \in 1 .. Len(s.tokens) /\ k \in (s.prompt_len + 1) .. total_len(s)
      BY <1>1, <1>2, <1>3 DEF total_len
    <3> QED
      BY <1>1, <1>3, <1>6, <3>1 DEF Open
  <2> QED
    BY <2>1, <2>2 DEF Bounded
<1>7. ASSUME Open(s), check_finished(u) = "none"
      PROVE  Open(u)
  <2>1. num_generated(u) \in Nat /\ num_generated(u) > 0 /\ total_len(u) \in Nat
    BY <1>1, <1>2, <1>3 DEF num_generated, total_len
  <2>2. /\ u.tokens[Len(u.tokens)] \notin EosTokens \cup u.stop
        /\ ~(num_generated(u) >= u.max_tokens) /\ ~(total_len(u) >= MaxContext)
    BY <1>7, <2>1 DEF check_finished
  <2>3. num_generated(u) < u.max_tokens /\ total_len(u) < MaxContext
    BY <1>1, <1>2, <2>1, <2>2, SchedulerAssumption
  <2>4. ASSUME NEW k \in (u.prompt_len + 1) .. total_len(u)
        PROVE  u.tokens[k] \notin EosTokens \cup u.stop
    <3>1. CASE k = Len(u.tokens)
      BY <2>2, <3>1
    <3>2. CASE k # Len(u.tokens)
      <4>1. k \in (u.prompt_len + 1) .. (total_len(u) - 1)
        BY <1>1, <1>2, <1>3, <3>2 DEF total_len
      <4> QED
        BY <1>6, <1>7, <4>1 DEF Bounded
    <3> QED
      BY <3>1, <3>2
  <2> QED
    BY <2>3, <2>4 DEF Open
<1> QED
  BY <1>5, <1>6, <1>7 DEF u

\* GenInv', part by part.
LEMMA GenParts ==
    ASSUME \A i \in DOMAIN seqs' :
              /\ Texted(seqs'[i])
              /\ seqs'[i].choice = 0 => Bounded(seqs'[i]) /\ (is_finished(seqs'[i]) \/ Open(seqs'[i])),
           phase' \notin {"stops", "advance"},
           phase' = "tokens" => \A i \in ToSet(todo') : seqs'[i].choice = 0 => Open(seqs'[i])
    PROVE  GenInv'
<1> DEFINE Fine(s) == /\ Texted(s)
                      /\ s.choice = 0 => Bounded(s) /\ (is_finished(s) \/ Open(s))
<1>1. \A i \in DOMAIN seqs' : Fine(seqs'[i])
  OBVIOUS
<1>2. GenInv' <=> /\ \A i \in DOMAIN seqs' : Fine(seqs'[i])
                  /\ phase' \in {"stops", "advance"} =>
                        \A i \in ToSet(PlanIds') : seqs'[i].choice = 0 => Open(seqs'[i])
                  /\ phase' = "tokens" => \A i \in ToSet(todo') : seqs'[i].choice = 0 => Open(seqs'[i])
  BY DEF GenInv, Texted, Bounded, Open, is_finished, num_generated, total_len
<1> QED
  BY <1>1, <1>2

\* A new sequence has generated nothing.
LEMMA AdmitGen ==
    ASSUME IInv, GenInv, NEW j \in Jobs, Admit(j)
    PROVE  GenInv'
<1> DEFINE s == NewSequence(j)
<1>1. /\ phase = "idle" /\ phase' = "idle" /\ seqs' = Bind(seqs, next_id, s)
      /\ Len(j.prompt) > 0 /\ Len(j.prompt) < MaxContext
  BY DEF Admit, stepVars
<1>2. /\ s.tokens = j.prompt /\ s.prompt_len = Len(j.prompt) /\ s.max_tokens = j.max_tokens
      /\ s.choice = 0
  BY DEF NewSequence
<1>3. /\ j.prompt \in Seq(ToSet(j.prompt)) /\ Len(j.prompt) \in Nat
      /\ j.max_tokens \in Nat \ {0} /\ MaxContext \in Nat
  BY SchedulerAssumption
<1> HIDE DEF s
<1>4. Texted(s) /\ Bounded(s) /\ Open(s)
  BY <1>1, <1>2, <1>3 DEF Texted, Bounded, Open, num_generated, total_len
<1>5. DOMAIN seqs' = DOMAIN seqs \cup {next_id} /\ seqs'[next_id] = s
      /\ \A i \in DOMAIN seqs : i # next_id => seqs'[i] = seqs[i]
  BY <1>1 DEF Bind
<1> QED
  BY <1>1, <1>4, <1>5, GenParts DEF GenInv

\* A token is added only to a sequence that may go on.
LEMMA CommitTokenGen ==
    ASSUME IInv, GenInv, CommitToken
    PROVE  GenInv'
<1> DEFINE id == Head(todo)
           s  == push_token(seqs[id], sampled[id])
<1>1. /\ phase = "tokens" /\ phase' = "tokens"
      /\ id \in DOMAIN seqs /\ id \notin ToSet(todo') /\ ToSet(todo) = ToSet(todo') \cup {id}
      /\ DOMAIN seqs' = DOMAIN seqs
      /\ SameText(seqs'[id], s)
      /\ is_finished(seqs'[id]) <=> is_finished(seqs[id]) \/ check_finished(s) # "none"
      /\ \A i \in DOMAIN seqs : /\ seqs'[i].choice = seqs[i].choice
                                /\ i # id => /\ SameText(seqs'[i], seqs[i])
                                             /\ is_finished(seqs'[i]) <=> is_finished(seqs[i])
  BY CommitTokenFacts
<1>2. ToSet(todo) \subseteq DOMAIN seqs /\ DOMAIN seqs[id] = Fields
  BY <1>1, IInvFacts DEF PlanOK, TodoOK, Recorded
<1>3. /\ Texted(s)
      /\ Open(seqs[id]) => Bounded(s) /\ (check_finished(s) = "none" => Open(s))
  BY <1>1, <1>2, PushBounds DEF GenInv
<1>4. seqs[id].choice = 0 => Open(seqs[id])
  BY <1>1 DEF GenInv
<1> HIDE DEF id, s
<1>5. ASSUME NEW i \in DOMAIN seqs'
      PROVE  /\ Texted(seqs'[i])
             /\ seqs'[i].choice = 0 => Bounded(seqs'[i]) /\ (is_finished(seqs'[i]) \/ Open(seqs'[i]))
  <2>1. CASE i = id
    BY <1>1, <1>3, <1>4, <2>1, SameBounds
  <2>2. CASE i # id
    <3>1. /\ SameText(seqs'[i], seqs[i])
          /\ is_finished(seqs'[i]) <=> is_finished(seqs[i])
          /\ seqs'[i].choice = seqs[i].choice
      BY <1>1, <2>2
    <3>2. /\ Texted(seqs[i])
          /\ seqs[i].choice = 0 => Bounded(seqs[i]) /\ (is_finished(seqs[i]) \/ Open(seqs[i]))
      BY <1>1 DEF GenInv
    <3> QED
      BY <3>1, <3>2, SameBounds
  <2> QED
    BY <2>1, <2>2
<1>6. ASSUME NEW i \in ToSet(todo'), seqs'[i].choice = 0
      PROVE  Open(seqs'[i])
  <2>1. i # id /\ i \in ToSet(todo) /\ i \in DOMAIN seqs
    BY <1>1, <1>2
  <2>2. SameText(seqs'[i], seqs[i]) /\ seqs[i].choice = 0
    BY <1>1, <1>6, <2>1
  <2>3. Open(seqs[i])
    BY <1>1, <2>1, <2>2 DEF GenInv
  <2> QED
    BY <2>2, <2>3, SameBounds
<1> QED
  BY <1>1, <1>5, <1>6, GenParts

\* A child has generated nothing, and its leader is unchanged.
LEMMA ForkChildGen ==
    ASSUME IInv, GenInv, ForkChild
    PROVE  GenInv'
<1>1. phase = "forking" /\ phase' = "forking"
  BY DEF ForkChild
<1>2. PICK c : /\ seqs' = Bind(seqs, next_id, c)
               /\ c.choice = Len(fork.ids) + 1
               /\ c.tokens = SubSeq(Leader.tokens, 1, Leader.prompt_len)
               /\ c.prompt_len = Leader.prompt_len /\ c.max_tokens = Leader.max_tokens
  BY ForkChildFacts
<1>3. ForkOK
  BY <1>1, IInvFacts
<1>4. c.choice # 0
  BY <1>2, <1>3 DEF ForkOK
<1>5. Texted(Leader)
  BY <1>1, <1>3 DEF ForkOK, GenInv, Leader
<1>6. Texted(c)
  <2>1. /\ Leader.tokens \in Seq(ToSet(Leader.tokens)) /\ Leader.prompt_len \in 0 .. Len(Leader.tokens)
    BY <1>5 DEF Texted
  <2> DEFINE A == ToSet(Leader.tokens)
             q == Leader.tokens
             n == Leader.prompt_len
             r == SubSeq(q, 1, n)
  <2>2. /\ Len(r) = n /\ r \in Seq(A) /\ DOMAIN r = 1 .. n
        /\ \A k \in 1 .. n : r[k] = q[k]
    BY <2>1
  <2>3. r \in Seq(ToSet(r))
    BY <2>2, OwnElements
  <2> QED
    BY <1>2, <1>5, <2>2, <2>3 DEF Texted
<1>7. /\ DOMAIN seqs' = DOMAIN seqs \cup {next_id} /\ seqs'[next_id] = c
      /\ \A i \in DOMAIN seqs : i # next_id => seqs'[i] = seqs[i]
  BY <1>2 DEF Bind
<1> QED
  BY <1>1, <1>4, <1>6, <1>7, GenParts DEF GenInv

\* The first token of a child is its own.
LEMMA SeedForkGen ==
    ASSUME IInv, GenInv, SeedFork
    PROVE  GenInv'
<1> DEFINE id == Head(fork.ids)
<1>1. /\ phase = "seeding" /\ phase' \in {"seeding", "forks"} /\ fork.ids # <<>>
  BY SeedForkFacts, EndForkFacts
<1>2. PICK s : /\ seqs' = [seqs EXCEPT ![id] = s]
               /\ id \in DOMAIN seqs =>
                    /\ s.choice = seqs[id].choice
                    /\ \E t : s.tokens = Append(seqs[id].tokens, t)
                    /\ s.prompt_len = seqs[id].prompt_len
                    /\ s.max_tokens = seqs[id].max_tokens
  BY SeedForkFacts
<1>3. ForkOK
  BY <1>1, IInvFacts
<1>4. id \in ToSet(fork.ids)
  BY <1>1, <1>3, TailSet DEF ForkOK
<1> HIDE DEF id
<1>5. ASSUME id \in DOMAIN seqs
      PROVE  s.choice # 0 /\ Texted(s)
  <2>1. s.choice # 0
    BY <1>2, <1>3, <1>4, <1>5 DEF ForkOK
  <2>2. PICK t : s.tokens = Append(seqs[id].tokens, t)
    BY <1>2, <1>5
  <2>3. Texted(seqs[id])
    BY <1>5 DEF GenInv
  <2> DEFINE q == seqs[id].tokens
             A == ToSet(q) \cup {t}
  <2>4. q \in Seq(A) /\ t \in A /\ Len(q) \in Nat
    BY <2>3 DEF Texted
  <2>5. s.tokens \in Seq(A) /\ ToSet(s.tokens) = A /\ Len(s.tokens) = Len(q) + 1
    BY <2>2, <2>4, AppendSet
  <2> QED
    BY <1>2, <1>5, <2>1, <2>3, <2>4, <2>5 DEF Texted
<1>6. /\ DOMAIN seqs' = DOMAIN seqs
      /\ \A i \in DOMAIN seqs : seqs'[i] = IF i = id THEN s ELSE seqs[i]
  BY <1>2
<1> QED
  BY <1>1, <1>5, <1>6, GenParts DEF GenInv

\* Every step keeps GenInv.
LEMMA StepGen == IInv /\ IInv' /\ GenInv /\ [Next]_vars => GenInv'
<1> SUFFICES ASSUME IInv, IInv', GenInv, [Next]_vars PROVE GenInv'
  OBVIOUS
<1>1. CASE UNCHANGED vars
  <2>1. UNCHANGED <<seqs, phase, todo, plan>>
    BY <1>1 DEF vars
  <2>2. PlanIds' = PlanIds
    BY <2>1 DEF PlanIds
  <2> QED
    BY <2>1, <2>2 DEF GenInv, Texted, Bounded, Open, is_finished, num_generated, total_len
\* The steps that touch no text and lead to no loop GenInv speaks of.
<1>2. ASSUME TextKept, phase' \notin {"stops", "advance", "tokens"}
      PROVE  GenInv'
  BY <1>2, GenKept
<1>3. CASE seqs' = seqs /\ phase' \notin {"stops", "advance", "tokens"}
  BY <1>2, <1>3 DEF TextKept, SameText
<1>4. CASE BeginStep \/ SkipDecode \/ EndDecodes \/ EndPrefills \/ StartRefused \/ EndStarts
           \/ EmptyPlan \/ EndTokens \/ EndPublish \/ BeginFork \/ ForkFails \/ CopyBlocks
           \/ CopyFails \/ EndSeeding \/ EndForks
  <2>1. seqs' = seqs /\ phase' \notin {"stops", "advance", "tokens"}
    BY <1>4 DEF BeginStep, SkipDecode, EndDecodes, EndPrefills, StartRefused, EndStarts,
       EmptyPlan, EndTokens, EndPublish, BeginFork, ForkFails, CopyBlocks, CopyFails,
       EndSeeding, EndForks, EndFork, queueVars
  <2> QED
    BY <1>3, <2>1
<1>5. CASE ScheduleDecode \/ ContinuePrefill \/ StartWaiting
  <2>1. phase' \in {"decodes", "prefills", "starts", "panicked"}
    BY <1>5 DEF ScheduleDecode, ContinuePrefill, StartWaiting, PushOrPreempt
  <2> QED
    BY <1>2, <1>5, <2>1, ScheduleDecodeInv, ContinuePrefillInv, StartWaitingInv
<1>6. CASE Forward
  <2>1. seqs' = seqs /\ plan' = plan /\ phase = "forward" /\ phase' \in {"stops", "panicked"}
    BY <1>6 DEF Forward, queueVars
  <2>2. PlanIds' = PlanIds /\ PlanOK /\ Queued(seqs, waiting, running, finished)
    BY <2>1, IInvFacts DEF PlanIds
  <2>3. ASSUME NEW i \in ToSet(PlanIds')
        PROVE  i \in DOMAIN seqs' /\ (seqs[i].choice = 0 => Open(seqs[i]))
    <3>1. i \in DOMAIN seqs /\ Active(seqs[i])
      BY <2>1, <2>2, <2>3 DEF PlanOK, Queued
    <3> QED
      BY <2>1, <3>1, OneClass DEF GenInv
  <2> QED
    BY <2>1, <2>3, GenKept DEF TextKept, SameText
<1>7. CASE FinishStopped
  <2>1. phase = "stops" /\ phase' = "advance" /\ plan' = plan /\ TextKept
    BY <1>7, FinishStoppedInv DEF FinishStopped
  <2>2. PlanIds' = PlanIds /\ ToSet(PlanIds') \subseteq DOMAIN seqs'
    BY <2>1 DEF PlanIds, IInv, PlanOK
  <2> QED
    BY <2>1, <2>2, GenKept DEF GenInv
<1>8. CASE CommitAdvance
  <2>1. phase = "advance" /\ phase' = "tokens" /\ plan' = plan /\ todo' = SampledIds /\ TextKept
    BY <1>8, CommitAdvanceInv DEF CommitAdvance
  <2>2. PlanIds' = PlanIds /\ ToSet(PlanIds') \subseteq DOMAIN seqs'
    BY <2>1 DEF PlanIds, IInv, PlanOK
  <2>3. ToSet(SampledIds) \subseteq ToSet(PlanIds)
    BY <2>1, IInvFacts, SampledFacts
  <2> HIDE DEF SampledIds
  <2> QED
    BY <2>1, <2>2, <2>3, GenKept DEF GenInv
<1>9. CASE CommitPublish \/ Drain \/ ForwardFails \/ DeadlinePassed
  <2>1. phase' \in {"publish", "idle"}
    BY <1>9 DEF CommitPublish, Drain, ForwardFails, DeadlinePassed, FailAll
  <2> QED
    BY <1>2, <1>9, <2>1, CommitPublishInv, DrainInv, FailAllInv
<1>10. CASE CommitToken \/ ForkChild \/ SeedFork
  BY <1>10, CommitTokenGen, ForkChildGen, SeedForkGen
<1>11. ASSUME NEW j \in Jobs, Admit(j) \/ Cancel(j.rid)
       PROVE  GenInv'
  <2>1. CASE Admit(j)
    BY <2>1, AdmitGen
  <2>2. CASE Cancel(j.rid)
    <3>1. phase' = "idle"
      BY <2>2 DEF Cancel, stepVars
    <3> QED
      BY <1>2, <2>2, <3>1, CancelInv
  <2> QED
    BY <1>11, <2>1, <2>2
<1>12. CASE Step
  BY <1>4, <1>5, <1>6, <1>7, <1>8, <1>9, <1>10, <1>12 DEF Step
<1> QED
  BY <1>1, <1>9, <1>11, <1>12 DEF Next

\* Nothing is generated at the start.
LEMMA InitGen == Init => GenInv
<1> SUFFICES ASSUME Init PROVE GenInv
  OBVIOUS
<1>1. DOMAIN seqs = {} /\ phase = "idle"
  BY DEF Init
<1> QED
  BY <1>1 DEF GenInv

\* Engine::commit and check_finished: no request's first choice ever runs past
\* its max_tokens or the context window, or goes on after an end-of-sequence
\* or stop token, in any schedule; a stop string, a cancellation or a
\* preemption in the middle of a step changes nothing.
THEOREM LeadersBounded == Spec => [](\A i \in DOMAIN seqs : seqs[i].choice = 0 => Bounded(seqs[i]))
<1>1. Spec => []GenInv
  BY InitGen, StepGen, QueuesHold, PTL DEF Spec
<1>2. GenInv => \A i \in DOMAIN seqs : seqs[i].choice = 0 => Bounded(seqs[i])
  BY DEF GenInv
<1> QED
  BY <1>1, <1>2, PTL

----------------------------------------------------------------------------
\* With one choice per request nothing is ever forked, so every sequence is
\* a leader.
OneChoice == \A j \in Jobs : j.choices = 1

NoForks ==
    /\ DOMAIN pending_forks = {}
    /\ phase \notin {"forking", "seeding"}
    /\ phase = "forks" => todo = <<>>
    /\ \A i \in DOMAIN seqs : seqs[i].choice = 0

\* With one choice per request nothing is ever forked.
LEMMA StepNoForks == OneChoice /\ IInv /\ NoForks /\ [Next]_vars => NoForks'
<1> SUFFICES ASSUME OneChoice, IInv, NoForks, [Next]_vars PROVE NoForks'
  OBVIOUS
<1>1. CASE UNCHANGED vars
  BY <1>1 DEF vars, NoForks
\* The steps that touch no text and do not enter the loop over the forks.
<1>2. ASSUME TextKept, phase' \notin {"forks", "forking", "seeding"}, DOMAIN pending_forks' = {}
      PROVE  NoForks'
  BY <1>2 DEF NoForks, TextKept, SameText
<1>3. CASE seqs' = seqs /\ phase' \notin {"forks", "forking", "seeding"}
           /\ pending_forks' = pending_forks
  BY <1>3 DEF NoForks
<1>4. CASE BeginStep \/ SkipDecode \/ EndDecodes \/ EndPrefills \/ StartRefused \/ EndStarts
           \/ Forward \/ EmptyPlan \/ EndTokens \/ EndForks
  <2>1. /\ seqs' = seqs /\ phase' \notin {"forks", "forking", "seeding"}
        /\ pending_forks' = pending_forks
    BY <1>4 DEF BeginStep, SkipDecode, EndDecodes, EndPrefills, StartRefused, EndStarts,
       Forward, EmptyPlan, EndTokens, EndForks, queueVars
  <2> QED
    BY <1>3, <2>1
<1>5. CASE ScheduleDecode \/ ContinuePrefill \/ StartWaiting
  <2>1. phase' \in {"decodes", "prefills", "starts", "panicked"} /\ pending_forks' = pending_forks
    BY <1>5 DEF ScheduleDecode, ContinuePrefill, StartWaiting, PushOrPreempt
  <2> QED
    BY <1>2, <1>5, <2>1, ScheduleDecodeInv, ContinuePrefillInv, StartWaitingInv DEF NoForks
<1>6. CASE FinishStopped \/ CommitAdvance \/ CommitPublish
  <2>1. phase' \in {"advance", "tokens", "publish"} /\ pending_forks' = pending_forks
    BY <1>6 DEF FinishStopped, CommitAdvance, CommitPublish
  <2> QED
    BY <1>2, <1>6, <2>1, FinishStoppedInv, CommitAdvanceInv, CommitPublishInv DEF NoForks
<1>7. CASE CommitToken
  <2>1. /\ phase' = "tokens" /\ pending_forks' = pending_forks /\ DOMAIN seqs' = DOMAIN seqs
        /\ \A i \in DOMAIN seqs : seqs'[i].choice = seqs[i].choice
    BY <1>7, CommitTokenFacts
  <2> QED
    BY <2>1 DEF NoForks
<1>8. CASE EndPublish
  <2>1. /\ phase = "publish" /\ phase' = "forks" /\ UNCHANGED <<seqs, pending_forks>>
        /\ todo' = Without(SampledIds, ToSet(SampledIds) \ DOMAIN pending_forks)
    BY <1>8 DEF EndPublish, queueVars
  <2>2. SampledIds \in Seq(Nat)
    BY <2>1, IInvFacts, SampledFacts
  <2> HIDE DEF SampledIds
  <2> DEFINE q == SampledIds
             S == ToSet(q) \ DOMAIN pending_forks
  <2>3. Without(q, S) \in Seq(Nat) /\ ToSet(Without(q, S)) = ToSet(q) \ S
    BY <2>2, WithoutSet
  <2>4. todo' \in Seq(Nat) /\ ToSet(todo') = {}
    BY <2>1, <2>3 DEF NoForks
  <2>5. todo' = <<>>
    BY <2>4, TailSet
  <2> QED
    BY <2>1, <2>5 DEF NoForks
<1>9. CASE Drain
  <2>1. phase' = "idle" /\ DOMAIN pending_forks' \subseteq DOMAIN pending_forks
    BY <1>9 DEF Drain
  <2> QED
    BY <1>2, <1>9, <2>1, DrainInv DEF NoForks
<1>10. CASE ForwardFails \/ DeadlinePassed
  <2>1. phase' = "idle" /\ pending_forks' = pending_forks
    BY <1>10 DEF ForwardFails, DeadlinePassed, FailAll
  <2> QED
    BY <1>2, <1>10, <2>1, FailAllInv DEF NoForks
<1>11. ~(BeginFork \/ ForkChild \/ ForkFails \/ CopyBlocks \/ CopyFails \/ SeedFork \/ EndSeeding)
  BY DEF NoForks, BeginFork, ForkChild, ForkFails, CopyBlocks, CopyFails, SeedFork, EndSeeding
<1>12. ASSUME NEW j \in Jobs, Admit(j)
       PROVE  NoForks'
  <2> ~(j.choices > 1)
    BY DEF OneChoice
  <2>1. /\ phase' = "idle" /\ pending_forks' = pending_forks
        /\ seqs' = Bind(seqs, next_id, NewSequence(j))
    BY <1>12 DEF Admit, stepVars
  <2>2. NewSequence(j).choice = 0
    BY DEF NewSequence
  <2>3. \A i \in DOMAIN seqs' : seqs'[i] = NewSequence(j) \/ (i \in DOMAIN seqs /\ seqs'[i] = seqs[i])
    BY <2>1 DEF Bind
  <2> QED
    BY <2>1, <2>2, <2>3 DEF NoForks
<1>13. ASSUME NEW j \in Jobs, Cancel(j.rid)
       PROVE  NoForks'
  <2>1. phase' = "idle" /\ pending_forks' = pending_forks
    BY <1>13 DEF Cancel, stepVars
  <2> QED
    BY <1>2, <1>13, <2>1, CancelInv DEF NoForks
<1>14. CASE Step
  BY <1>4, <1>5, <1>6, <1>7, <1>8, <1>9, <1>11, <1>14 DEF Step
<1> QED
  BY <1>1, <1>10, <1>12, <1>13, <1>14 DEF Next

\* Engine::commit, for requests of one choice: GenerationBounded as it is
\* checked.  With several choices it needs max_tokens > 1: seed_fork appends a
\* child's first token without asking check_finished.
THEOREM GenerationAlwaysBounded == OneChoice => (Spec => []GenerationBounded)
<1> SUFFICES ASSUME OneChoice PROVE Spec => []GenerationBounded
  OBVIOUS
<1>1. Init => NoForks
  BY DEF Init, NoForks
<1>2. IInv /\ NoForks /\ [Next]_vars => NoForks'
  BY StepNoForks
<1>3. GenInv /\ NoForks => GenerationBounded
  BY DEF GenInv, NoForks, Bounded, GenerationBounded
<1> QED
  BY <1>1, <1>2, <1>3, InitGen, StepGen, QueuesHold, PTL DEF Spec
=============================================================================
