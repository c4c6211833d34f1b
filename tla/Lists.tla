------------------------------- MODULE Lists -------------------------------
(***************************************************************************)
(* What the models need of lists beyond the library: Vec::retain, written  *)
(* as a recursive function so that proofs can expand it (tlapm does not    *)
(* expand SelectSeq).                                                      *)
(***************************************************************************)
EXTENDS Integers, Sequences

NoRepeats(q) == \A i, j \in 1 .. Len(q) : q[i] = q[j] => i = j
InList(q, b) == \E i \in 1 .. Len(q) : q[i] = b
PlacesOf(q, b) == {k \in 1 .. Len(q) : q[k] = b}

\* Mutant of Without: retain keeps everything.
WithoutNothing(q, S) == q

Keep(r, x, S) == IF x \in S THEN r ELSE Append(r, x)

\* q without the members of S, in order (retain).
Without(q, S) ==
    LET kept[n \in 0 .. Len(q)] == IF n = 0 THEN <<>> ELSE Keep(kept[n - 1], q[n], S)
    IN  kept[Len(q)]

\* The sum of len over the places of a list.
Total(q, len) ==
    LET sum[n \in 0 .. Len(q)] == IF n = 0 THEN 0 ELSE sum[n - 1] + len[q[n]]
    IN  sum[Len(q)]
=============================================================================
