------------------------------ MODULE Sampler -------------------------------
(***************************************************************************)
(* Choosing a token from a row of logits: the sampler                      *)
(* (crates/vapi-engine/src/sampler.rs), the device-side shortcuts it may   *)
(* be served from (crates/vapi-backend-candle/src/fused.rs and             *)
(* forward_candidates in backend.rs) and the engine's choice between them  *)
(* (crates/vapi-worker/src/engine.rs).                                     *)
(*                                                                         *)
(* Logits are integers and a nat halves a weight.  A weight further than   *)
(* the window below the row's maximum is below the resolution of the sum,  *)
(* which is what CANDIDATE_CUTOFF says of it: it adds nothing to a sum and *)
(* is never drawn.  A random draw is any token with weight.                *)
(***************************************************************************)
EXTENDS Integers, Sequences, FiniteSets, SequencesExt, FiniteSetsExt

CONSTANTS
    Vocab,      \* token ids, 0..n
    Logits,     \* the values a logit takes
    Params,     \* the sampling parameters requests come with
    WINDOW,     \* CANDIDATE_CUTOFF and CANDIDATE_WINDOW, in scaled nats
    CAP,        \* CANDIDATE_CAP, the most candidates a row returns
    MaxTokens   \* bound: tokens sampled

VARIABLES
    params,   \* SamplingParams of the sequence
    counts,   \* SamplerState.counts: token -> occurrences
    draws,    \* SamplerState.device_draws
    row       \* the logits of the step being sampled, or NoRow

vars == <<params, counts, draws, row>>

NoRow == <<>>

is_greedy(p) == p.temperature = 0

penalised(p) == p.repetition # <<1, 1>> \/ p.frequency # 0 \/ p.presence # 0

\* A temperature of 1 or, at 2, of one half.
inv_t(p) == IF is_greedy(p) THEN 1 ELSE p.temperature

distinct_observed == Cardinality({t \in Vocab : counts[t] > 0})

observe(c, t) == [c EXCEPT ![t] = @ + 1]

-----------------------------------------------------------------------------
(* Penalties.                                                              *)

\* Dividing a negative logit would raise it, so the repetition penalty
\* multiplies it instead.
penalise(l, count, p) ==
    LET num == p.repetition[1]
        den == p.repetition[2]
        r == IF l > 0 THEN (l * den) \div num ELSE (l * num) \div den
    IN  r - p.frequency * count - (IF count > 0 THEN p.presence ELSE 0)

Penalised(l, t) == IF counts[t] = 0 THEN l ELSE penalise(l, counts[t], params)

apply_penalties(logits) == [t \in DOMAIN logits |-> Penalised(logits[t], t)]

-----------------------------------------------------------------------------
(* A candidate is <<token, weight>>.  Weights are powers of two relative   *)
(* to some maximum m; Scale keeps them whole however far below it.         *)

Scale == 12
Weight(l, m, it) == 2 ^ (Scale - (m - l) * it)

RowMax(logits) == Max({logits[t] : t \in DOMAIN logits})

SumWeights(c) == FoldLeft(LAMBDA acc, x : acc + x[2], 0, c)

\* Heaviest first, ties by id.
ByWeight(S) == SetToSortSeq(S, LAMBDA x, y : x[2] > y[2] \/ (x[2] = y[2] /\ x[1] < y[1]))

\* Every token within the cutoff of the maximum.
candidates(logits, it) ==
    LET m == RowMax(logits)
    IN  ByWeight({<<t, Weight(logits[t], m, it)>> : t \in {t \in DOMAIN logits : (m - logits[t]) * it <= WINDOW}})

truncate_top_k(c, k) == SubSeq(c, 1, Min({Len(c), Max({k, 1})}))

\* min_p is a fraction <<num, den>> of the top candidate's weight.
truncate_min_p(c, f) ==
    LET low == {i \in DOMAIN c : c[i][2] * f[2] < f[1] * c[1][2]}
    IN  SubSeq(c, 1, Max({1, Min(low \cup {Len(c) + 1}) - 1}))

\* The shortest prefix that reaches top_p of the whole.
truncate_top_p(c, f, whole) ==
    LET enough == {i \in DOMAIN c : SumWeights(SubSeq(c, 1, i)) * f[2] >= f[1] * whole}
    IN  SubSeq(c, 1, Min(enough \cup {Len(c)}))

Truncated(c, p, whole) ==
    LET k == IF p.top_k = 0 THEN c ELSE truncate_top_k(c, p.top_k)
        m == IF p.min_p[1] = 0 THEN k ELSE truncate_min_p(k, p.min_p)
    IN  IF p.top_p = <<1, 1>> THEN m ELSE truncate_top_p(m, p.top_p, whole)

argmax(logits) == Min({t \in DOMAIN logits : logits[t] = RowMax(logits)})

\* What sample draws from, given the whole row.
sample(logits, p) ==
    LET l == apply_penalties(logits)
        c == candidates(l, inv_t(p))
    IN  IF is_greedy(p) THEN << <<argmax(l), 1>> >> ELSE Truncated(c, p, SumWeights(c))

-----------------------------------------------------------------------------
(* What a row needs, and what the device selects for it.                   *)

raising(p) == p.repetition[1] < p.repetition[2] \/ p.frequency < 0 \/ p.presence < 0

device_drawable(p) == ~is_greedy(p) /\ p.top_k = 0 /\ p.top_p = <<1, 1>> /\ p.min_p[1] = 0

Top(p) == IF is_greedy(p) THEN 1 ELSE p.top_k

\* Forgetting that an observed token may fall out of the top k.
needed_top_k(p) == IF Top(p) = 0 \/ raising(p) THEN 0 ELSE Top(p)

needed(p) == IF Top(p) = 0 \/ raising(p) THEN 0 ELSE Top(p) + distinct_observed

\* A row that is about to fork is drawn from again, so it is needed whole.
need(p, forking) ==
    [needed |-> needed(p), full |-> p.full \/ forking,
     gumbel |-> device_drawable(p) /\ ~p.full /\ ~forking]

\* Tokens by the whole nats of their scaled gap, the last bin open-ended.
Bin(logits, it, t) == Min({(RowMax(logits) - logits[t]) * it, WINDOW + 1})
UpTo(logits, it, d) == {t \in DOMAIN logits : Bin(logits, it, t) <= d}

\* The deepest run of bins that fits in CAP; -1 when the first one does not.
\* The sum is that of the whole row.
select_candidates(logits, it) ==
    LET fits == {d \in 0..WINDOW : Cardinality(UpTo(logits, it, d)) <= CAP}
        depth == Max(fits \cup {-1})
    IN  [depth |-> depth,
         count |-> Cardinality(UpTo(logits, it, Max({depth, 0}))),
         entries |-> UpTo(logits, it, depth),
         max |-> RowMax(logits),
         sum |-> SumWeights(candidates(logits, it))]

covered(n, s) ==
    /\ ~n.full
    /\ \/ n.gumbel
       \/ s.count <= CAP /\ (s.depth = WINDOW \/ (n.needed > 0 /\ s.count >= n.needed))

\* The penalties are applied to the candidates present and the sum is
\* corrected for what they moved.
sample_candidates(logits, s, p) ==
    LET w(l) == Weight(l, s.max, inv_t(p))
        l(t) == Penalised(logits[t], t)
        moved == MapThenSumSet(LAMBDA t : w(l(t)) - w(logits[t]), s.entries)
        local == MapThenSumSet(LAMBDA t : w(l(t)), s.entries)
        best == CHOOSE t \in s.entries : \A u \in s.entries : l(t) > l(u) \/ (l(t) = l(u) /\ t <= u)
    IN  IF is_greedy(p) THEN << <<best, 1>> >>
        ELSE Truncated(ByWeight({<<t, w(l(t))>> : t \in s.entries}), p, Max({s.sum + moved, local}))

\* Noise on the device draws from the penalised row itself.
gumbel_draw(logits, p) == candidates(apply_penalties(logits), inv_t(p))

\* A row served by a whole copy, by its candidates or by a token.
RowKind(logits, p, forking) ==
    LET n == need(p, forking)
    IN  IF n.gumbel THEN "token"
        ELSE IF covered(n, select_candidates(logits, inv_t(p))) THEN "candidates" ELSE "full"

forward_candidates(logits, p, forking) ==
    LET kind == RowKind(logits, p, forking)
    IN  CASE kind = "token"      -> gumbel_draw(logits, p)
          [] kind = "candidates" -> sample_candidates(logits, select_candidates(logits, inv_t(p)), p)
          [] kind = "full"       -> sample(logits, p)

\* A greedy row of the batch that penalties do not touch.
plain_greedy(p) == is_greedy(p) /\ ~penalised(p) /\ ~p.full

\* The engine takes the argmax path when the batch allows it.
AnyGreedy(p, others) == plain_greedy(p) \/ others
all_greedy(p, others) == plain_greedy(p) /\ others

\* What the step draws from: others says whether every other row of the batch
\* is greedy, cuda whether the device selects.
Drawn(logits, p, others, forking, cuda) ==
    IF all_greedy(p, others) THEN << <<argmax(logits), 1>> >>
    ELSE IF cuda THEN forward_candidates(logits, p, forking)
    ELSE sample(logits, p)

-----------------------------------------------------------------------------
Init ==
    /\ params \in Params
    /\ counts = [t \in Vocab |-> 0] /\ draws = 0 /\ row = NoRow

Sampled == FoldFunction(+, 0, counts)

\* A forward pass leaves some row of logits.
Forward(logits) ==
    /\ row = NoRow /\ Sampled < MaxTokens
    /\ row' = logits
    /\ UNCHANGED <<params, counts, draws>>

\* weighted_choice on whatever the row was served as; a token drawn on the
\* device also moves its noise on.
Sample(others, forking, cuda) ==
    /\ row # NoRow
    /\ \E x \in ToSet(Drawn(row, params, others, forking, cuda)) : counts' = observe(counts, x[1])
    /\ draws' = draws + (IF cuda /\ ~all_greedy(params, others) /\ need(params, forking).gumbel THEN 1 ELSE 0)
    /\ row' = NoRow /\ UNCHANGED params

Next ==
    \/ \E logits \in [Vocab -> Logits] : Forward(logits)
    \/ \E others, forking, cuda \in BOOLEAN : Sample(others, forking, cuda)

Spec == Init /\ [][Next]_vars
-----------------------------------------------------------------------------
(* Two draws are the same when the same tokens carry weight, in the same   *)
(* proportions.                                                            *)

\* Without what is below resolution next to the heaviest.
Plausible(c) == {x \in ToSet(c) : x[2] * 2 ^ WINDOW >= c[1][2]}

SameDraw(c, d) ==
    LET P == Plausible(c)
        Q == Plausible(d)
    IN  /\ {x[1] : x \in P} = {x[1] : x \in Q}
        /\ \A x \in P, y \in Q : x[1] = y[1] => x[2] * d[1][2] = y[2] * c[1][2]

\* Penalties that only lower, judged by the count the row asked for: the case
\* the need is computed for.  top_p also looks at the tail, which the device
\* does not return.
CountedRow(p, s) ==
    ~raising(p) /\ s.depth < WINDOW /\ s.count >= needed(p) /\ (p.top_p = <<1, 1>> \/ is_greedy(p))

\* "to sample exactly as Sampler::sample would from the full logits": a row
\* served by its candidates alone is drawn from exactly as the whole row
\* would be, with no penalties whatever the truncations, and with lowering
\* penalties whenever the count the row asked for was met.
CandidatesExact ==
    (row # NoRow /\ RowKind(row, params, FALSE) # "full") =>
        LET s == select_candidates(row, inv_t(params))
        IN  (~penalised(params) \/ need(params, FALSE).gumbel \/ CountedRow(params, s)) =>
                SameDraw(forward_candidates(row, params, FALSE), sample(row, params))

\* What a request draws from does not depend on who shares its batch, on
\* whether it is about to fork, or on the device: with the exceptions above,
\* every path to the next token is the same draw.
BatchBlind ==
    (row # NoRow /\ ~penalised(params)) =>
        \A others, forking, cuda \in BOOLEAN :
            SameDraw(Drawn(row, params, others, forking, cuda), sample(row, params))

\* "the selection is exact for any parameters": a row whose window is complete.
SelectionExact ==
    (row # NoRow /\ RowKind(row, params, FALSE) = "candidates"
       /\ select_candidates(row, inv_t(params)).depth = WINDOW) =>
        SameDraw(forward_candidates(row, params, FALSE), sample(row, params))
=============================================================================
