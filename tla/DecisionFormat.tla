--------------------------- MODULE DecisionFormat ---------------------------
(***************************************************************************)
(* How a typed question becomes the sequence a decision model reads, and   *)
(* how the model's scores become its answer: the question types            *)
(* (crates/vapi-openai/src/decision.rs), the sequence builder              *)
(* (crates/vapi-tokenize/src/decision.rs), the calibration                 *)
(* (crates/vapi-core/src/decision.rs) and shape_answer                     *)
(* (crates/vapi-gateway/src/api.rs).                                       *)
(*                                                                         *)
(* A text is a sequence of symbols, which are natural numbers, and a token *)
(* is a number, negative for the structural ones.  The byte-level          *)
(* vocabulary has one token per symbol and another one for the same symbol *)
(* with a space before it; the two halves of the mask token's text are     *)
(* symbols of their own, so that a text can spell it, and can spell it     *)
(* around another one.                                                     *)
(***************************************************************************)
EXTENDS Integers, Sequences, SequencesExt, FiniteSetsExt

CONSTANTS
    Raw,                     \* rl_agent_config.json, -1 where it is silent
    OPTION_TOKEN_CAP,        \* longest an option's own text may be
    MIN_OPTION_BUDGET,       \* below this much room for the question, options shrink
    MIN_HEAD_TOKENS,         \* the question never shrinks below this
    MIN_TOKENS_PER_OPTION,   \* below this an option cannot exist
    truncate_left            \* keep the end of a long state, not its start

\* Symbols.  Letters and words are the numbers from 10 to 39.
LEFT == 1
RIGHT == 2
SPACE == 3
COLON == 4
COMMA == 5
BRACE == 6
LEVEL == 7
NO == 8
YES == 9
Digit(i) == 40 + i
FALSE_WORD == 50
TRUE_WORD == 51

\* Structural tokens.
CLS == -1
SEP == -2
MASK == -3

ASSUME FormatAssumption ==
    /\ Raw.max_len \in Int /\ Raw.head_max_len \in Int
    /\ OPTION_TOKEN_CAP \in Nat /\ MIN_OPTION_BUDGET \in Nat /\ MIN_HEAD_TOKENS \in Nat
    /\ MIN_TOKENS_PER_OPTION \in Nat \ {0}
    /\ truncate_left \in BOOLEAN

-----------------------------------------------------------------------------
(* The checkpoint's configuration.                                         *)

Default == [max_len |-> 512, head_max_len |-> 192, per_type |-> <<1, 1, 1>>]

or_default(v, d) == IF v < 0 THEN d ELSE v

\* Nothing in the file is required; a short list of temperatures fills the
\* first slots only.
from_json(raw) ==
    [max_len      |-> or_default(raw.max_len, Default.max_len),
     head_max_len |-> or_default(raw.head_max_len, Default.head_max_len),
     per_type     |-> [i \in 1..3 |-> IF i \in DOMAIN raw.temperature
                                      THEN raw.temperature[i] ELSE Default.per_type[i]],
     by_bucket    |-> raw.temperature_by_options]

config == from_json(Raw)

index(qtype) == CASE qtype = "choice" -> 0 [] qtype = "score" -> 1 [] qtype = "noul" -> 2

temperature_bucket(qtype, options) ==
    <<qtype, IF options <= 2 THEN "2" ELSE IF options <= 5 THEN "3-5"
             ELSE IF options <= 10 THEN "6-10" ELSE "11+">>

\* The divisor for a question of this type and size; one that is not a
\* positive number is passed over.
temperature(qtype, options) ==
    LET bucket == temperature_bucket(qtype, options)
        t      == config.per_type[index(qtype) + 1]
    IN  IF bucket \in DOMAIN config.by_bucket /\ config.by_bucket[bucket] > 0
        THEN config.by_bucket[bucket]
        ELSE IF t > 0 THEN t ELSE 1

-----------------------------------------------------------------------------
(* Questions.                                                              *)

\* What a request may contain: texts, JSON documents, and three kinds of
\* criteria.
Text == Seq(Nat)
Value == [kind : {"string"}, text : Text] \cup [kind : {"object"}, fields : Seq(Text \X Text)]
Criteria ==
    [kind : {"named"}, options : Seq(Text \X Text)] \cup [kind : {"list"}, options : Seq(Text)]
        \cup [kind : {"none"}, options : {<<>>}]
Question == [qtype : {"choice", "score", "noul"}, instructions : Value, criteria : Criteria]

\* A JSON document as the reference builder spells it: a space after every
\* comma and colon.  A string stays as it is.
python_json(value) ==
    IF value.kind = "string" THEN value.text
    ELSE <<BRACE>> \o FlattenSeq([i \in DOMAIN value.fields |->
              (IF i = 1 THEN <<>> ELSE <<COMMA, SPACE>>)
                \o value.fields[i][1] \o <<COLON, SPACE>> \o value.fields[i][2]]) \o <<BRACE>>

instruction_text(q) == python_json(q.instructions)
state_text(ask) == python_json(ask.state)

\* What the answer is reported in terms of.
labels(q) ==
    CASE q.qtype = "noul" -> <<<<FALSE_WORD>>, <<TRUE_WORD>>>>
      [] q.qtype # "noul" /\ q.criteria.kind = "named" ->
            [i \in DOMAIN q.criteria.options |-> q.criteria.options[i][1]]
      [] q.qtype = "choice" /\ q.criteria.kind = "list" -> q.criteria.options
      [] q.qtype = "score" /\ q.criteria.kind = "list" ->
            [i \in DOMAIN q.criteria.options |-> <<Digit(i - 1)>>]
      [] q.qtype # "noul" /\ q.criteria.kind = "none" -> <<>>

\* What each level of a score means.
legend(q) ==
    IF q.qtype # "score" THEN <<>>
    ELSE [i \in DOMAIN q.criteria.options |->
            << <<Digit(i - 1)>>,
               IF q.criteria.kind = "named" THEN q.criteria.options[i][1] ELSE q.criteria.options[i] >>]

\* "key: description", or the key alone.
Described(option) ==
    IF option[2] = <<>> THEN option[1] ELSE option[1] \o <<COLON, SPACE>> \o option[2]

LevelPrefix(i) == <<LEVEL, SPACE, Digit(i - 1), COLON, SPACE>>

\* The caller's description under this key, if it gives one, or the default.
pick(q, key, default) ==
    LET options == q.criteria.options
        given   == IF q.criteria.kind # "named" THEN {} ELSE {i \in DOMAIN options : options[i][1] = <<key>>}
    IN  IF given = {} THEN default
        ELSE IF options[Min(given)][2] = <<>> THEN default ELSE options[Min(given)][2]

\* The texts the model is shown, one per marker; <<>> stands for the error.
option_texts(q) ==
    LET options == q.criteria.options
        texts == CASE q.qtype = "noul" ->
                        << <<FALSE_WORD, COLON, SPACE>> \o pick(q, FALSE_WORD, <<NO>>),
                           <<TRUE_WORD, COLON, SPACE>> \o pick(q, TRUE_WORD, <<YES>>) >>
                   [] q.qtype = "choice" /\ q.criteria.kind = "named" ->
                        [i \in DOMAIN options |-> Described(options[i])]
                   [] q.qtype = "choice" /\ q.criteria.kind = "list" -> options
                   [] q.qtype = "score" /\ q.criteria.kind = "named" ->
                        [i \in DOMAIN options |-> LevelPrefix(i) \o Described(options[i])]
                   [] q.qtype = "score" /\ q.criteria.kind = "list" ->
                        [i \in DOMAIN options |-> LevelPrefix(i) \o options[i]]
                   [] q.qtype # "noul" /\ q.criteria.kind = "none" -> <<>>
    IN  IF Len(texts) < 2 THEN <<>> ELSE texts

-----------------------------------------------------------------------------
(* The tokenizer, external: the mask token where a text spells it, a token *)
(* per symbol otherwise, a space folded into the symbol after it.          *)

Spells(text, i) == i < Len(text) /\ text[i] = LEFT /\ text[i + 1] = RIGHT

\* A space that belongs to the symbol after it.
Folded(text, i) == text[i] = SPACE /\ i < Len(text) /\ ~Spells(text, i + 1) /\ text[i + 1] # SPACE

\* What a text becomes, left to right: at i comes piece[i], which stands for
\* width[i] symbols.
Scan(piece, width) ==
    LET Rest[i \in 1..(Len(piece) + 1)] ==
          IF i > Len(piece) THEN <<>> ELSE piece[i] \o Rest[i + width[i]]
    IN  Rest[1]

encode(text) ==
    Scan([i \in DOMAIN text |-> IF Spells(text, i) THEN <<MASK>>
                               ELSE IF Folded(text, i) THEN <<100 + text[i + 1]>> ELSE <<text[i]>>],
         [i \in DOMAIN text |-> IF Spells(text, i) \/ Folded(text, i) THEN 2 ELSE 1])

\* Replace every spelling of the mask token, left to right.
Replaced(text, by) ==
    Scan([i \in DOMAIN text |-> IF Spells(text, i) THEN by ELSE <<text[i]>>],
         [i \in DOMAIN text |-> IF Spells(text, i) THEN 2 ELSE 1])

\* Mutant: the mask token is cut out rather than blanked, so the text on its
\* two sides can spell it again.
scrub_closing_up(text) == Replaced(text, <<>>)

scrub(text) == Replaced(text, <<SPACE>>)

-----------------------------------------------------------------------------
(* The builder.                                                            *)

truncate(s, n) == SubSeq(s, 1, Min({n, Len(s)}))

saturating_sub(a, b) == IF a > b THEN a - b ELSE 0

\* Where each of a list of slices ends, from their lengths; the first starts at 0.
Ends(lens) ==
    LET at[n \in 0..Len(lens)] == IF n = 0 THEN 0 ELSE at[n - 1] + lens[n] IN at

Lens(rows) == [i \in DOMAIN rows |-> Len(rows[i])] \o <<>>

TotalLen(rows) == Ends(Lens(rows))[Len(rows)]

head_max == Min({config.head_max_len, config.max_len})

\* One marker and its option's text.
OptionRow(text) == <<MASK>> \o truncate(encode(<<SPACE>> \o scrub(text)), OPTION_TOKEN_CAP)

Crowded(rows) == saturating_sub(head_max, TotalLen(rows)) < MIN_OPTION_BUDGET

\* The equal share of every option once they do not all fit.
Share(rows) == saturating_sub(head_max, MIN_OPTION_BUDGET) \div Len(rows)

\* Mutant: the slot for the closing separator is not held back.
StateRoom_all(used) == saturating_sub(config.max_len, used)

StateRoom(used) == saturating_sub(config.max_len, used + 1)

Refused == [refused |-> TRUE, tokens |-> <<>>, markers |-> <<>>]

OptionRows(options) == [i \in DOMAIN options |-> OptionRow(options[i])] \o <<>>

\* Every option shrinks by the same amount.
Kept(rows) ==
    IF Crowded(rows) THEN [i \in DOMAIN rows |-> truncate(rows[i], Share(rows))] \o <<>> ELSE rows

\* The question, in what the options leave of its share.
Start(q, kept) ==
    <<CLS>> \o truncate(<<60 + index(q.qtype)>> \o encode(<<SPACE>> \o scrub(instruction_text(q))),
                       Max({saturating_sub(head_max, TotalLen(kept)), MIN_HEAD_TOKENS}))
            \o <<SEP>>

\* What is kept of the state.
Seen(ids, room) ==
    IF Len(ids) <= room THEN ids
    ELSE IF truncate_left THEN SubSeq(ids, Len(ids) - room + 1, Len(ids))
    ELSE SubSeq(ids, 1, room)

\* Where the options' markers are; positions count from zero.
Markers(start, kept) == [i \in DOMAIN kept |-> Len(start) + Ends(Lens(kept))[i - 1]] \o <<>>

build(q, options, state) ==
    LET rows    == OptionRows(options)
        kept    == Kept(rows)
        start   == Start(q, kept)
        upto    == start \o FlattenSeq(kept) \o <<SEP>>
        seen    == Seen(encode(scrub(state)), StateRoom(Len(upto)))
        tokens  == truncate(upto \o seen \o <<SEP>>, config.max_len)
        markers == Markers(start, kept)
    IN  IF \/ Len(options) < 2
           \/ Crowded(rows) /\ Share(rows) < MIN_TOKENS_PER_OPTION
           \/ \E i \in DOMAIN markers : markers[i] >= Len(tokens)
        THEN Refused
        ELSE [refused |-> FALSE, tokens |-> tokens, markers |-> markers]

-----------------------------------------------------------------------------
(* Answers.                                                                *)

\* A softmax keeps the order of the logits and is settled by them and the
\* temperature: the distribution is the pair.
calibrated_probabilities(logits, t) == [logits |-> logits, temperature |-> t]

Probability(p, i) == <<p, i>>

\* max_by keeps the last of several equal maxima.
Best(logits) == Max({i \in DOMAIN logits : \A j \in DOMAIN logits : logits[j] <= logits[i]})

shape_answer(q, row, t) ==
    LET p     == calibrated_probabilities(row.logits, t)
        names == labels(q)
        n     == Min({Len(names), Len(row.logits)})
        probabilities == [i \in 1..n |-> <<names[i], Probability(p, i)>>] \o <<>>
    IN  CASE q.qtype = "choice" ->
               [type |-> "choice", answer |-> names[Best(row.logits)],
                probabilities |-> probabilities, confidence |-> p, act |-> row.act]
          [] q.qtype = "score" ->
               [type |-> "score", answer |-> p, legend |-> legend(q),
                probabilities |-> probabilities, confidence |-> p, act |-> row.act]
          [] q.qtype = "noul" ->
               [type |-> "noul", answer |-> Probability(p, 2), act |-> row.act]
=============================================================================
