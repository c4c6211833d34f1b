----------------------------- MODULE Structured -----------------------------
(***************************************************************************)
(* Constrained decoding of one choice in the worker                        *)
(* (vapi-worker/src/engine.rs over vapi-engine/src/structured.rs): the     *)
(* constraint that waits for the end of the reasoning block, the masks the *)
(* sampler obeys, the patience and closing budgets, and the answer that    *)
(* comes out.  The model's choice among the tokens left is free, and so is *)
(* whether the highest-scoring token of a row is the end of turn.          *)
(***************************************************************************)
EXTENDS JsonMachine

CONSTANTS
    Requests,        \* records: schema, vocab, max (max_tokens),
                     \*   marker (the closing marker, or <<>>) and
                     \*   close (whether the marker is one token)
    Eos,             \* the end-of-turn token; its text is empty
    CLOSING_BUDGET   \* tokens reserved for closing the document

VARIABLES
    req,             \* the request
    tokens,          \* sampled tokens
    constraint,      \* StreamState::constraint
    doc,             \* what the machine was given, once it is in force
    reason           \* "running", "stop" or "length"

vars == <<req, tokens, constraint, doc, reason>>

Dropped == [kind |-> "dropped"]
Active(m) == [kind |-> "active", m |-> m]
Waiting(tail) == [kind |-> "waiting", tail |-> tail]

Text(t) == IF t = Eos THEN <<>> ELSE t

(* The position of the marker in the tail, or 0.                           *)
MarkerAt(r, tail) ==
    LET at == {i \in 1..(Len(tail) - Len(r.marker) + 1) :
                 SubSeq(tail, i, i + Len(r.marker) - 1) = r.marker}
    IN  IF at = {} THEN 0 ELSE CHOOSE i \in at : \A j \in at : i <= j

trim_start(text) ==
    LET solid == {i \in 1..Len(text) : text[i] \notin Whitespace}
    IN  IF solid = {} THEN <<>>
        ELSE SubSeq(text, CHOOSE i \in solid : \A j \in solid : i <= j, Len(text))

(* Constraint::push: the constraint after the text of a sampled token, and *)
(* the text the machine was given.  A rejected token drops the constraint. *)
ActivePush(m, text) ==
    LET p == push(m, text) IN [c |-> IF p.ok THEN Active(p.m) ELSE Dropped, read |-> text]

WaitingPush(r, tail, text) ==
    LET all == tail \o text
        at == MarkerAt(r, all)
        keep == Len(r.marker) - 1
    IN  IF at = 0
        THEN [c |-> Waiting(IF Len(all) > keep THEN SubSeq(all, Len(all) - keep + 1, Len(all)) ELSE all),
              read |-> <<>>]
        ELSE ActivePush(NewMachine(compile(r.schema).nodes),
                        trim_start(SubSeq(all, at + Len(r.marker), Len(all))))

ConstraintPush(r, c, text) ==
    CASE c.kind = "active" -> ActivePush(c.m, text)
      [] c.kind = "waiting" -> WaitingPush(r, c.tail, text)
      [] OTHER -> [c |-> c, read |-> text]

(* Mutant of out_of_patience: one token late.                              *)
PatienceLate(r, n) == n * 4 > r.max * 3

(* Three quarters of the budget for thinking, the end of it for closing.   *)
out_of_patience(r, n) == n * 4 >= r.max * 3
finishing(r, n) == r.max - n <= CLOSING_BUDGET

(* The tokens a step may sample.  leaning: the model's best token is the   *)
(* end of turn.                                                            *)
RowMask(r, c, n, leaning) ==
    LET all == r.vocab \cup {Eos}
    IN  CASE c.kind = "active" ->
               IF finishing(r, n) THEN mask_finishing(c.m, r.vocab, Eos)
               ELSE mask(c.m, r.vocab, Eos)
          [] c.kind = "waiting" ->
               IF (out_of_patience(r, n) \/ leaning) /\ r.close THEN {r.marker}
               ELSE all \ {Eos}
          [] OTHER -> all

(* admit: a request whose schema does not compile never starts.            *)
Init ==
    /\ req \in {r \in Requests : compile(r.schema).ok}
    /\ tokens = <<>>
    /\ constraint = IF req.marker = <<>> THEN Active(NewMachine(compile(req.schema).nodes))
                    ELSE Waiting(<<>>)
    /\ doc = <<>>
    /\ reason = "running"

Sample(leaning) ==
    /\ reason = "running"
    /\ leaning => constraint.kind = "waiting"
    /\ \E t \in RowMask(req, constraint, Len(tokens), leaning) :
         \E p \in {ConstraintPush(req, constraint, Text(t))} :
           /\ tokens' = Append(tokens, t)
           /\ constraint' = p.c
           /\ doc' = doc \o p.read
           /\ reason' = IF t = Eos THEN "stop"
                        ELSE IF Len(tokens) + 1 >= req.max THEN "length" ELSE "running"
    /\ UNCHANGED req

Next == \E leaning \in BOOLEAN : Sample(leaning)

Spec == Init /\ [][Next]_vars

-----------------------------------------------------------------------------
(***************************************************************************)
(* The reference: what a document of a schema is, as the set of positions  *)
(* at which a value that begins at i can end.  strict asks for JSON's own  *)
(* numbers; otherwise leading zeros are let through, as the machine does.  *)
(***************************************************************************)
Spaced(s, i) == {j \in i..(Len(s) + 1) : \A k \in i..(j - 1) : s[k] \in Whitespace}

At(s, i, c) == i <= Len(s) /\ s[i] = c

RunEnds(s, i, C) ==
    {j \in (i + 1)..(Len(s) + 1) : \A k \in i..(j - 1) : s[k] \in C}

WholeEnds(s, i, strict) ==
    {j \in RunEnds(s, i, Digits) : strict /\ At(s, i, "0") => j = i + 1}

NumberEnds(s, i, integer, strict) ==
    LET whole == WholeEnds(s, IF At(s, i, "-") THEN i + 1 ELSE i, strict)
        frac == UNION {RunEnds(s, j + 1, Digits) : j \in {k \in whole : At(s, k, ".")}}
        exps == {k + 1 : k \in {j \in whole \cup frac : At(s, j, "e")}}
        signed == exps \cup {k + 1 : k \in {j \in exps : At(s, j, "+") \/ At(s, j, "-")}}
    IN  whole \cup (IF integer THEN {} ELSE frac \cup UNION {RunEnds(s, j, Digits) : j \in signed})

(* Characters of a string from i on, up to and including its closing quote.*)
RECURSIVE StringEnds(_, _)
StringEnds(s, i) ==
    IF i > Len(s) THEN {}
    ELSE IF s[i] = Quote THEN {i + 1}
    ELSE IF s[i] \in Controls THEN {}
    ELSE IF s[i] # Escape THEN StringEnds(s, i + 1)
    ELSE IF i = Len(s) \/ s[i + 1] \notin EscapeChars THEN {}
    ELSE IF s[i + 1] # "u" THEN StringEnds(s, i + 2)
    ELSE IF i + 5 <= Len(s) /\ \A k \in (i + 2)..(i + 5) : s[k] \in HexDigits
         THEN StringEnds(s, i + 6) ELSE {}

RECURSIVE Ends(_, _, _, _), MemberEnds(_, _, _, _, _), ElementEnds(_, _, _, _)

(* From where a key is expected to after the closing brace.                *)
MemberEnds(o, s, i0, seen, strict) ==
    LET names == {o.properties[k][1] : k \in 1..Len(o.properties)}
        Value(key) == IF key \in names
                      THEN o.properties[CHOOSE k \in 1..Len(o.properties) : o.properties[k][1] = key][2]
                      ELSE Typed("absent")
    IN  UNION {LET key == SubSeq(s, i + 1, j - 2)
                   now == seen \cup {key}
                   vals == UNION {Ends(Value(key), s, v, strict) :
                                    v \in UNION {Spaced(s, k + 1) : k \in {k \in Spaced(s, j) : At(s, k, ":")}}}
                   next == UNION {Spaced(s, v) : v \in vals}
               IN  IF key \in names \cap seen \/ (key \notin names /\ ~additional_of(o)) THEN {}
                   ELSE {k + 1 : k \in {k \in next : At(s, k, "}") /\ o.required \subseteq now}}
                        \cup UNION {MemberEnds(o, s, k + 1, now, strict) : k \in {k \in next : At(s, k, ",")}}
               : <<i, j>> \in {<<i, j>> \in Spaced(s, i0) \X (1..(Len(s) + 1)) :
                                 At(s, i, Quote) /\ j \in StringEnds(s, i + 1)}}

ElementEnds(items, s, i0, strict) ==
    LET vals == UNION {Ends(items, s, i, strict) : i \in Spaced(s, i0)}
        next == UNION {Spaced(s, v) : v \in vals}
    IN  {k + 1 : k \in {k \in next : At(s, k, "]")}}
        \cup UNION {ElementEnds(items, s, k + 1, strict) : k \in {k \in next : At(s, k, ",")}}

EmptyEnds(s, i, close) == {k + 1 : k \in {k \in Spaced(s, i + 1) : At(s, k, close)}}

WordEnds(s, i, words) ==
    {i + Len(w) : w \in {w \in words : i + Len(w) <= Len(s) + 1 /\ SubSeq(s, i, i + Len(w) - 1) = w}}

Ends(t, s, i, strict) ==
    CASE t.type = "absent" ->
           UNION {Ends(u, s, i, strict) :
                    u \in {Typed("string"), Typed("number"), Typed("boolean"), Typed("null")}}
           \cup (IF At(s, i, "[") THEN Ends(ArrayOf(t), s, i, strict) ELSE {})
           \cup (IF At(s, i, "{") THEN Ends(ObjectOf(<<>>, {}, "true"), s, i, strict) ELSE {})
      [] t.type = "string" -> IF At(s, i, Quote) THEN StringEnds(s, i + 1) ELSE {}
      [] t.type = "integer" -> NumberEnds(s, i, TRUE, strict)
      [] t.type = "number" -> NumberEnds(s, i, FALSE, strict)
      [] t.type = "boolean" -> WordEnds(s, i, {Words.t, Words.f})
      [] t.type = "null" -> WordEnds(s, i, {Words.n})
      [] t.type = "choice" -> WordEnds(s, i, t.options)
      [] t.type = "array" ->
           IF At(s, i, "[") THEN EmptyEnds(s, i, "]") \cup ElementEnds(t.items, s, i + 1, strict) ELSE {}
      [] OTHER ->
           IF ~At(s, i, "{") THEN {}
           ELSE (IF t.required = {} THEN EmptyEnds(s, i, "}") ELSE {})
                \cup MemberEnds(t, s, i + 1, {}, strict)

Valid(schema, s, strict) ==
    \E e \in Ends(schema, s, 1, strict) : Len(s) + 1 \in Spaced(s, e)

(***************************************************************************)
(* Properties.                                                             *)
(***************************************************************************)
(* Every enum value of the machine's schema is in ASCII.                   *)
Ascii(m) ==
    \A i \in 1..Len(m.nodes) :
        m.nodes[i].kind = "choice" => \A o \in m.nodes[i].options : as_bytes(o) = o

CompleteIsValid ==
    constraint.kind = "active" => (complete(constraint.m) <=> Valid(req.schema, doc, FALSE))

(* The machine says a document is complete exactly when the text it read   *)
(* is a document of the schema the client sent, leading zeros apart; so an *)
(* answer that ends with the end of turn is one; and a masked token is     *)
(* never sampled, so the constraint is dropped only by text that shares a  *)
(* token with the marker (Machine::push and complete, Schema::compile,     *)
(* TokenMasker::mask, Constraint::push).  Excepted is a schema with an     *)
(* enum value outside ASCII: in_word reads its bytes as characters, and a  *)
(* complete document holds those characters instead.                       *)
CompleteMeansValid ==
    /\ (req.close \/ req.marker = <<>>) => constraint.kind # "dropped"
    /\ (constraint.kind = "active" => Ascii(constraint.m)) => CompleteIsValid
    /\ (reason = "stop" /\ constraint.kind = "active" /\ ~complete(constraint.m))
          => mask(constraint.m, req.vocab, Eos) = {Eos}

(* The same with JSON's own grammar for numbers.                           *)
AnswersParse == (reason = "stop" /\ constraint.kind = "active") => Valid(req.schema, doc, TRUE)

(* A number or a \u escape that is cut by its length limit while it is     *)
(* incomplete.                                                             *)
AtLimit(m) ==
    \/ Top(m).kind = "number" /\ Top(m).len >= MAX_NUMBER_CHARS /\ ~NumberComplete(Top(m))
    \/ Top(m).kind = "str" /\ Top(m).len >= MAX_STRING_CHARS /\ Top(m).escape > 0

(* An enum value that can go on only with a character outside ASCII, which *)
(* in_word compares with the first byte of its encoding.                   *)
AtNonAscii(m) ==
    /\ Top(m).kind = "word"
    /\ \A a \in Top(m).alts : Len(a) > Top(m).at /\ a[Top(m).at + 1] \in {"U+C3", "U+A9"}

(* The mask never paints the model into a corner: while the document is    *)
(* not complete some token of the vocabulary continues it (viable,         *)
(* frame_viable, key_possible), except at a length limit and inside an     *)
(* enum value whose every way on is a character outside ASCII: there       *)
(* in_word refuses the character itself, and unless the vocabulary has the *)
(* character its first byte is taken for only the end of turn is left.     *)
NoDeadEnd ==
    (constraint.kind = "active" /\ reason = "running" /\ ~complete(constraint.m))
        => \/ AtLimit(constraint.m)
           \/ AtNonAscii(constraint.m)
           \/ Eos \notin mask(constraint.m, req.vocab, Eos)

(* The reasoning block ends in time: when the marker is one token, a       *)
(* request with at least four tokens to spend is in its document when its  *)
(* budget is gone, and it cannot end its turn before.                      *)
ThinkingEnds ==
    (reason # "running" /\ req.close /\ req.max >= 4) => constraint.kind # "waiting"

(* Running out of tokens leaves a document that parses.                    *)
ClosedInTime == (reason = "length" /\ constraint.kind = "active") => complete(constraint.m)
=============================================================================
