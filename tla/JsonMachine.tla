---------------------------- MODULE JsonMachine ----------------------------
(***************************************************************************)
(* The schema machine of constrained decoding                              *)
(* (vapi-engine/src/structured.rs): a JSON-schema subset compiled into an  *)
(* arena of nodes, a machine that reads the answer one character at a      *)
(* time, and the mask over the vocabulary.                                 *)
(*                                                                         *)
(* Characters are strings; the letters of `true`, `false` and `null` after *)
(* the first are one character each.  e' is a character of two bytes in    *)
(* UTF-8, C3 and A9.  Where the code mutates the machine and returns false *)
(* the operators return Bad: a rejected machine is never used again.       *)
(***************************************************************************)
EXTENDS Integers, Sequences, SequencesExt, FiniteSets

CONSTANTS
    MAX_DEPTH,         \* deepest schema that compiles
    MAX_WS_RUN,        \* longest run of whitespace
    MAX_NUMBER_CHARS,  \* longest number
    MAX_STRING_CHARS   \* longest string

Quote == "\""
Escape == "\\"
Whitespace == {" ", "nl"}
Digits == {"0", "1"}
HexDigits == Digits \cup {"a", "b", "e", "f"}
EscapeChars == {Quote, Escape, "n", "b", "f", "t", "u"}
Controls == {"nl"}     \* characters below 0x20

Words == [t |-> <<"t", "rue">>, f |-> <<"f", "alse">>, n |-> <<"n", "ull">>]

(* The arena index the code writes u32::MAX: no node, anything goes.       *)
Free == 0

(***************************************************************************)
(* Schemas.  A schema document is a record with the type (or "choice" for  *)
(* enum and const, "absent" for none, "unsupported" for a keyword outside  *)
(* the subset) and the keywords of that type.                              *)
(***************************************************************************)
Typed(t) == [type |-> t]
ArrayOf(items) == [type |-> "array", items |-> items]
ChoiceOf(options) == [type |-> "choice", options |-> options]
ObjectOf(properties, required, additional) ==
    [type |-> "object", properties |-> properties, required |-> required,
     additional |-> additional]

Refused == [ok |-> FALSE]

Pushed(nodes, node) == [ok |-> TRUE, nodes |-> Append(nodes, node), id |-> Len(nodes) + 1]

additional_of(s) == IF s.additional = "absent" THEN s.properties = <<>> ELSE s.additional = "true"

RECURSIVE compile_node(_, _, _), CompileProperties(_, _, _)
compile_node(s, nodes, depth) ==
    IF depth > MAX_DEPTH \/ s.type = "unsupported" THEN Refused
    ELSE CASE s.type = "choice" ->
                 IF s.options = {} THEN Refused
                 ELSE Pushed(nodes, [kind |-> "choice", options |-> s.options])
           [] s.type = "absent" -> Pushed(nodes, [kind |-> "any"])
           [] s.type = "array" ->
                 LET items == compile_node(s.items, nodes, depth + 1)
                 IN  IF ~items.ok THEN Refused
                     ELSE Pushed(items.nodes, [kind |-> "array", items |-> items.id])
           [] s.type = "object" ->
                 LET props == CompileProperties(s.properties, nodes, depth)
                     names == {s.properties[i][1] : i \in 1..Len(s.properties)}
                 IN  IF \/ ~props.ok
                        \/ ~(s.required \subseteq names)
                        \/ (s.properties = <<>> /\ ~additional_of(s))
                     THEN Refused
                     ELSE Pushed(props.nodes,
                                 [kind |-> "object", properties |-> props.list,
                                  required |-> {i \in 1..Len(s.properties) :
                                                  s.properties[i][1] \in s.required},
                                  additional |-> additional_of(s)])
           [] OTHER -> Pushed(nodes, [kind |-> s.type])

CompileProperties(properties, nodes, depth) ==
    IF properties = <<>> THEN [ok |-> TRUE, nodes |-> nodes, list |-> <<>>]
    ELSE LET first == compile_node(properties[1][2], nodes, depth + 1)
             rest == CompileProperties(Tail(properties), first.nodes, depth)
         IN  IF ~first.ok THEN Refused
             ELSE IF ~rest.ok THEN Refused
             ELSE [ok |-> TRUE, nodes |-> rest.nodes,
                   list |-> <<<<properties[1][1], first.id>>>> \o rest.list]

(* Swap two node indices everywhere they are referenced.                   *)
remap(nodes, a, b) ==
    LET fix(i) == IF i = a THEN b ELSE IF i = b THEN a ELSE i
    IN  [k \in 1..Len(nodes) |->
           CASE nodes[k].kind = "array" -> [nodes[k] EXCEPT !.items = fix(@)]
             [] nodes[k].kind = "object" ->
                  [nodes[k] EXCEPT !.properties =
                      [i \in 1..Len(@) |-> <<@[i][1], fix(@[i][2])>>]]
             [] OTHER -> nodes[k]]

with_any_node(nodes) ==
    IF \E i \in 1..Len(nodes) : nodes[i].kind = "any" THEN nodes
    ELSE Append(nodes, [kind |-> "any"])

(* compile: the root moved to the first place, and a node for free values. *)
compile(s) ==
    LET c == compile_node(s, <<>>, 0)
        swapped == [i \in 1..Len(c.nodes) |->
                      IF i = 1 THEN c.nodes[c.id] ELSE IF i = c.id THEN c.nodes[1] ELSE c.nodes[i]]
    IN  IF ~c.ok THEN Refused
        ELSE [ok |-> TRUE,
              nodes |-> with_any_node(IF c.id = 1 THEN c.nodes ELSE remap(swapped, 1, c.id))]

any_node(nodes) ==
    CHOOSE i \in 1..Len(nodes) :
        nodes[i].kind = "any" /\ \A j \in 1..(i - 1) : nodes[j].kind # "any"

(***************************************************************************)
(* The machine: nodes, a stack of frames (the last is innermost), whether  *)
(* a document was read, whether anything was, and the whitespace run.      *)
(***************************************************************************)
NewMachine(nodes) ==
    [nodes |-> nodes, stack |-> <<[kind |-> "value", node |-> 1]>>,
     done |-> FALSE, started |-> FALSE, ws |-> 0]

Bad == [ok |-> FALSE]
Good(m) == [ok |-> TRUE, m |-> m]

Top(m) == Last(m.stack)

WithTop(m, frame) == [m EXCEPT !.stack = Append(Front(@), frame)]

NumberComplete(f) == f.seen_digit /\ (~f.seen_exp \/ f.exp_digit)

complete(m) ==
    \/ m.done
    \/ Len(m.stack) = 1 /\ Top(m).kind = "number" /\ NumberComplete(Top(m))

in_string_body(m) ==
    /\ m.stack # <<>>
    /\ \/ Top(m).kind = "str"
       \/ Top(m).kind = "object" /\ Top(m).state = "key"

(* A value is finished: pop it and tell the frame underneath.              *)
finish_value(m) ==
    LET below == Front(m.stack)
    IN  IF below = <<>> THEN Good([m EXCEPT !.stack = <<>>, !.done = TRUE])
        ELSE IF Last(below).kind \notin {"object", "array"} THEN Bad
        ELSE Good([m EXCEPT !.stack = Append(Front(below), [Last(below) EXCEPT !.state = "next"])])

(* A word that has matched a whole option is a finished value.             *)
settle_word(m) ==
    IF Top(m).kind = "word" /\ \E a \in Top(m).alts : Len(a) = Top(m).at
    THEN finish_value(m) ELSE Good(m)

StringFrame == [kind |-> "str", escape |-> 0, len |-> 0]
ObjectFrame(node) ==
    [kind |-> "object", node |-> node, state |-> "start", seen |-> {}, key |-> <<>>, escape |-> 0]
ArrayFrame(items) == [kind |-> "array", items |-> items, state |-> "start"]
WordFrame(alts) == [kind |-> "word", alts |-> alts, at |-> 1]
NumberFrame(integer, c) ==
    [kind |-> "number", integer |-> integer, seen_digit |-> c # "-", seen_dot |-> FALSE,
     seen_exp |-> FALSE, exp_digit |-> FALSE, after_sign |-> c = "-", len |-> 1]

(* What in_word compares an option with: its bytes, each taken for the     *)
(* character of that number.  An option in ASCII is itself.                *)
as_bytes(o) ==
    FlattenSeq([i \in 1..Len(o) |-> IF o[i] = "e'" THEN <<"U+C3", "U+A9">> ELSE <<o[i]>>])

(* The frames the first character c of a value of node n may open.         *)
Opened(m, node, c) ==
    LET n == m.nodes[node]
        any == n.kind = "any"
    IN  CASE n.kind = "choice" ->
               LET alts == {as_bytes(o) : o \in {o \in n.options : o[1] = c}}
               IN  IF alts = {} THEN {} ELSE {WordFrame(alts)}
          [] n.kind = "object" /\ c = "{" -> {ObjectFrame(node)}
          [] n.kind = "array" /\ c = "[" -> {ArrayFrame(n.items)}
          [] any /\ c = "{" -> {ObjectFrame(Free)}
          [] any /\ c = "[" -> {ArrayFrame(Free)}
          [] (any \/ n.kind = "string") /\ c = Quote -> {StringFrame}
          [] (any \/ n.kind \in {"number", "integer"}) /\ c \in Digits \cup {"-"} ->
               {NumberFrame(n.kind = "integer", c)}
          [] (any \/ n.kind = "boolean") /\ c \in {"t", "f"} -> {WordFrame({Words[c]})}
          [] (any \/ n.kind = "null") /\ c = "n" -> {WordFrame({Words[c]})}
          [] OTHER -> {}

start_value(m, node, c) ==
    IF c \in Whitespace THEN Good(m)
    ELSE IF Opened(m, node, c) = {} THEN Bad
    ELSE settle_word(WithTop(m, CHOOSE f \in Opened(m, node, c) : TRUE))

(* escape is 5 after a backslash, then 4..1 for the digits of \u.          *)
EscapeOk(escape, c) == IF escape = 5 THEN c \in EscapeChars ELSE c \in HexDigits

NextEscape(escape, c) ==
    IF escape = 5 THEN (IF c = "u" THEN 4 ELSE 0) ELSE escape - 1

in_string(m, c) ==
    LET f == [Top(m) EXCEPT !.len = @ + 1]
    IN  IF Top(m).len >= MAX_STRING_CHARS /\ c # Quote THEN Bad
        ELSE IF f.escape > 0
        THEN IF EscapeOk(f.escape, c)
             THEN Good(WithTop(m, [f EXCEPT !.escape = NextEscape(@, c)])) ELSE Bad
        ELSE IF c = Quote THEN finish_value(m)
        ELSE IF c = Escape THEN Good(WithTop(m, [f EXCEPT !.escape = 5]))
        ELSE IF c \in Controls THEN Bad
        ELSE Good(WithTop(m, f))

in_word(m, c) ==
    LET f == Top(m)
        alts == {a \in f.alts : Len(a) > f.at /\ a[f.at + 1] = c}
    IN  IF alts = {} THEN Bad
        ELSE settle_word(WithTop(m, [f EXCEPT !.alts = alts, !.at = @ + 1]))

keys_are_free(m, node) == node = Free \/ m.nodes[node].additional

(* Could an unused property name still start with partial?                 *)
key_possible(m, f, partial) ==
    \/ keys_are_free(m, f.node)
    \/ LET props == m.nodes[f.node].properties
       IN  \E i \in 1..Len(props) : i \notin f.seen /\ IsPrefix(partial, props[i][1])

(* A key just closed: an unknown or repeated one is rejected.              *)
check_key(m, f, key) ==
    LET props == IF f.node = Free THEN <<>> ELSE m.nodes[f.node].properties
        known == {i \in 1..Len(props) : props[i][1] = key}
        g == [f EXCEPT !.state = "colon"]
    IN  IF known = {}
        THEN IF keys_are_free(m, f.node) THEN Good(WithTop(m, g)) ELSE Bad
        ELSE IF known \subseteq f.seen THEN Bad
        ELSE Good(WithTop(m, [g EXCEPT !.seen = @ \cup known]))

value_node_for(m, f) ==
    LET props == IF f.node = Free THEN <<>> ELSE m.nodes[f.node].properties
        known == {i \in 1..Len(props) : props[i][1] = f.key}
    IN  IF known # {} THEN {props[i][2] : i \in known}
        ELSE IF keys_are_free(m, f.node) THEN {any_node(m.nodes)} ELSE {}

(* Mutant of close_object: nothing is required.                            *)
CloseObjectEarly(m, f) == finish_value(m)

(* A closing brace needs every required property.                          *)
close_object(m, f) ==
    IF f.node # Free /\ ~(m.nodes[f.node].required \subseteq f.seen) THEN Bad
    ELSE finish_value(m)

InKey(m, f, c) ==
    LET longer == [f EXCEPT !.key = Append(@, c)]
    IN  IF f.escape > 0
        THEN IF EscapeOk(f.escape, c)
             THEN Good(WithTop(m, [longer EXCEPT !.escape = NextEscape(@, c)])) ELSE Bad
        ELSE IF c = Quote THEN check_key(m, f, f.key)
        ELSE IF c = Escape
        THEN IF keys_are_free(m, f.node)
             THEN Good(WithTop(m, [longer EXCEPT !.escape = 5])) ELSE Bad
        ELSE IF c \in Controls THEN Bad
        ELSE IF key_possible(m, f, longer.key) THEN Good(WithTop(m, longer))
        ELSE Bad

in_object(m, c) ==
    LET f == Top(m)
        value == value_node_for(m, f)
    IN  IF f.state = "key" THEN InKey(m, f, c)
        ELSE IF c \in Whitespace /\ f.state # "value" THEN Good(m)
        ELSE CASE f.state = "start" /\ c = "}" -> close_object(m, f)
               [] f.state \in {"start", "key_expected"} /\ c = Quote ->
                    Good(WithTop(m, [f EXCEPT !.state = "key", !.key = <<>>, !.escape = 0]))
               [] f.state = "colon" /\ c = ":" /\ value # {} ->
                    Good([WithTop(m, [f EXCEPT !.state = "value"]) EXCEPT
                            !.stack = Append(@, [kind |-> "value",
                                                 node |-> CHOOSE n \in value : TRUE])])
               [] f.state = "next" /\ c = "," ->
                    Good(WithTop(m, [f EXCEPT !.state = "key_expected"]))
               [] f.state = "next" /\ c = "}" -> close_object(m, f)
               [] OTHER -> Bad

(* Numbers and array elements hand the character on, so push_char is       *)
(* recursive through them.                                                 *)
RECURSIVE push_char(_, _)

in_number(m, c) ==
    LET f == [Top(m) EXCEPT !.len = @ + 1]
        at_cap == Top(m).len >= MAX_NUMBER_CHARS
        ended == finish_value(m)
    IN  IF at_cap /\ c \in Digits \cup {".", "e", "+", "-"} THEN Bad
        ELSE CASE c \in Digits ->
                    Good(WithTop(m, [f EXCEPT !.exp_digit = @ \/ f.seen_exp,
                                              !.seen_digit = @ \/ ~f.seen_exp,
                                              !.after_sign = FALSE]))
               [] c = "." /\ ~f.integer /\ ~f.seen_dot /\ ~f.seen_exp /\ f.seen_digit ->
                    Good(WithTop(m, [f EXCEPT !.seen_dot = TRUE, !.seen_digit = FALSE]))
               [] c = "e" /\ ~f.integer /\ ~f.seen_exp /\ f.seen_digit ->
                    Good(WithTop(m, [f EXCEPT !.seen_exp = TRUE, !.after_sign = FALSE]))
               [] c \in {"+", "-"} /\ f.seen_exp /\ ~f.exp_digit /\ ~f.after_sign ->
                    Good(WithTop(m, [f EXCEPT !.after_sign = TRUE]))
               [] OTHER ->
                    IF ~NumberComplete(f) \/ ~ended.ok THEN Bad ELSE push_char(ended.m, c)

in_array(m, c) ==
    LET f == Top(m)
        node == IF f.items = Free THEN any_node(m.nodes) ELSE f.items
    IN  IF c \in Whitespace /\ f.state # "value" THEN Good(m)
        ELSE CASE f.state = "start" /\ c = "]" -> finish_value(m)
               [] f.state \in {"start", "value_expected"} /\ ~(f.state = "start" /\ c = "]") ->
                    push_char([WithTop(m, [f EXCEPT !.state = "value"]) EXCEPT
                                 !.stack = Append(@, [kind |-> "value", node |-> node])], c)
               [] f.state = "next" /\ c = "," ->
                    Good(WithTop(m, [f EXCEPT !.state = "value_expected"]))
               [] f.state = "next" /\ c = "]" -> finish_value(m)
               [] OTHER -> Bad

(* Whitespace is bounded, and refused before the document has started.     *)
push_char(m, c) ==
    LET space == c \in Whitespace /\ ~in_string_body(m)
        n == IF space THEN [m EXCEPT !.ws = @ + 1] ELSE [m EXCEPT !.ws = 0, !.started = TRUE]
    IN  IF space /\ (~m.started \/ m.ws >= MAX_WS_RUN) THEN Bad
        ELSE IF n.done THEN IF c \in Whitespace THEN Good(n) ELSE Bad
        ELSE CASE Top(n).kind = "value" -> start_value(n, Top(n).node, c)
               [] Top(n).kind = "str" -> in_string(n, c)
               [] Top(n).kind = "number" -> in_number(n, c)
               [] Top(n).kind = "word" -> in_word(n, c)
               [] Top(n).kind = "object" -> in_object(n, c)
               [] OTHER -> in_array(n, c)

RECURSIVE push(_, _)
push(m, text) ==
    IF text = <<>> THEN Good(m)
    ELSE LET first == push_char(m, Head(text))
         IN  IF first.ok THEN push(first.m, Tail(text)) ELSE Bad

(* Mutant of frame_viable: a comma may follow the last property.           *)
FrameViableAfterComma(m, f) ==
    f.kind = "object" /\ f.node # Free /\ f.state = "key" => key_possible(m, f, f.key)

(* Can a valid document still be reached from here?                        *)
frame_viable(m, f) ==
    CASE f.kind = "word" -> f.alts # {}
      [] f.kind = "object" /\ f.node # Free ->
           LET n == m.nodes[f.node]
               more_possible == n.additional \/ \E i \in 1..Len(n.properties) : i \notin f.seen
           IN  CASE f.state \in {"start", "next"} -> n.required \subseteq f.seen \/ more_possible
                 [] f.state = "key_expected" -> more_possible
                 [] f.state = "key" -> key_possible(m, f, f.key)
                 [] OTHER -> TRUE
      [] OTHER -> TRUE

viable(m) == m.done \/ \A i \in 1..Len(m.stack) : frame_viable(m, m.stack[i])

allows(m, text) == LET p == push(m, text) IN IF p.ok THEN viable(p.m) ELSE FALSE

depth(m) == Cardinality({i \in 1..Len(m.stack) : m.stack[i].kind \in {"object", "array"}})

(***************************************************************************)
(* The masks, as the set of tokens they leave.  eos is the end of turn.    *)
(***************************************************************************)
mask_closing(m, vocab) ==
    {t \in vocab : /\ t # <<>>
                   /\ allows(m, t)
                   /\ LET p == push(m, t).m IN depth(p) < depth(m) \/ complete(p)}

mask(m, vocab, eos) ==
    LET allowed == {t \in vocab : t # <<>> /\ allows(m, <<Head(t)>>) /\ allows(m, t)}
        closing == mask_closing(m, vocab)
    IN  IF complete(m) THEN {eos}
        ELSE IF allowed # {} THEN allowed
        ELSE IF closing # {} THEN closing
        ELSE {eos}

mask_finishing(m, vocab, eos) ==
    LET closing == mask_closing(m, vocab)
    IN  IF complete(m) \/ closing = {} THEN mask(m, vocab, eos) ELSE closing
=============================================================================
