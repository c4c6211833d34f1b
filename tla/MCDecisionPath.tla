--------------------------- MODULE MCDecisionPath ---------------------------
(* Sequences of at most 16 tokens, 11 of them for a question and its        *)
(* options; a pass takes three rows or 30 padded positions.                 *)
EXTENDS DecisionPath, TLC

W(n) == 10 + n
Str(text) == [kind |-> "string", text |-> text]
Obj(fields) == [kind |-> "object", fields |-> fields]
Named(options) == [kind |-> "named", options |-> options]
List(options) == [kind |-> "list", options |-> options]
NoCriteria == [kind |-> "none", options |-> <<>>]
Q(qtype, instructions, criteria) == [qtype |-> qtype, instructions |-> instructions, criteria |-> criteria]
Ask(state, questions) ==
    [state |-> state, questions |-> [i \in DOMAIN questions |-> [id |-> i, q |-> questions[i]]] \o <<>>]

MCRaw ==
    [max_len |-> 16, head_max_len |-> 11, temperature |-> <<2, 0>>,
     temperature_by_options |-> (<<"choice", "2">> :> 0) @@ (<<"noul", "2">> :> 3)]

\* A yes/no question and one whose texts spell the mask token, one inside
\* another, over a document that does too and is too long.
Spelled ==
    Ask(Str(<<LEFT, RIGHT, W(1), LEFT, LEFT, RIGHT, RIGHT>>),
        <<Q("noul", Str(<<W(1), LEFT, RIGHT>>), NoCriteria),
          Q("choice", Str(<<LEFT, LEFT, RIGHT, RIGHT>>),
            Named(<< <<<<W(2)>>, <<LEFT, RIGHT>>>>, <<<<W(3)>>, <<>>>> >>))>>)

\* A score whose levels do not fit whole, over a JSON document.
Levels ==
    Ask(Obj(<< <<<<W(4)>>, <<W(5)>>>>, <<<<W(6)>>, <<W(7)>>>> >>),
        <<Q("score", Obj(<< <<<<W(1)>>, <<W(2)>>>> >>), List(<< <<W(1), W(2)>>, <<W(3), W(4)>>, <<W(5)>> >>))>>)

\* Three questions, more than one pass takes with anybody else.
Many ==
    Ask(Str(<<W(8)>>),
        <<Q("choice", Str(<<W(1)>>), List(<< <<W(2)>>, <<W(3)>>, <<W(4)>> >>)),
          Q("noul", Str(<<W(1)>>), Named(<< <<<<TRUE_WORD>>, <<W(5)>>>>, <<<<FALSE_WORD>>, <<>>>> >>)),
          Q("score", Str(<<W(1)>>), Named(<< <<<<W(2)>>, <<W(3)>>>>, <<<<W(4)>>, <<>>>> >>))>>)

\* Refused: a single option, options that cannot all exist, no questions.
Single == Ask(Str(<<W(1)>>), <<Q("choice", Str(<<W(1)>>), List(<< <<W(2)>> >>))>>)
TooMany == Ask(Str(<<W(1)>>),
               <<Q("choice", Str(<<W(1)>>), List(<< <<W(2)>>, <<W(3)>>, <<W(4)>>, <<W(5)>>, <<W(6)>> >>))>>)
Empty == Ask(Str(<<W(1)>>), <<>>)

Symmetry == Permutations(Requests)

MCAsks == {Spelled, Levels, Many, Single, TooMany, Empty}
=============================================================================
