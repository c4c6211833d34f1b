----------------------------- MODULE ToolCalls -----------------------------
(***************************************************************************)
(* How the gateway reads a tool call out of a model's text                 *)
(* (vapi-gateway/src/output.rs): the Python call syntax of LFM2 and the    *)
(* JSON object of Qwen.  A text is a sequence of characters; a word, a     *)
(* number or a whole JSON document is one character of the model, because  *)
(* only where it begins and ends matters.  Positions replace the byte      *)
(* offset `i` of the code's Parser.                                        *)
(***************************************************************************)
EXTENDS Integers, Sequences, FiniteSets, TLC

Spaces == {" ", "nl"}

(* Characters an identifier may hold, and the JSON documents the           *)
(* deserializer accepts, objects and an array; everything else is          *)
(* punctuation.                                                            *)
Punctuation == {"[", "]", "(", ")", ",", "=", "'", "\\"}

JsonDocs ==
    [d \in {"{f}", "{f:obj}", "{f:str}", "{f:text}", "{noname}", "[1]"} |->
       CASE d = "{f}"      -> [name |-> "f", arguments |-> "absent"]
         [] d = "{f:obj}"  -> [name |-> "f", arguments |-> "object"]
         [] d = "{f:str}"  -> [name |-> "f", arguments |-> "json in a string"]
         [] d = "{f:text}" -> [name |-> "f", arguments |-> "plain string"]
         [] OTHER          -> [name |-> "", arguments |-> "absent"]]

IdentChar(c) == c \notin (Spaces \cup Punctuation \cup DOMAIN JsonDocs)

Rejected == [ok |-> FALSE]

(* The first position at or after i whose character is not in the class C. *)
Skip(s, i, C(_)) ==
    CHOOSE j \in i..(Len(s) + 1) :
        /\ \A k \in i..(j - 1) : C(s[k])
        /\ j <= Len(s) => ~C(s[j])

IsSpace(c) == c \in Spaces

ws(s, i) == Skip(s, i, IsSpace)

eat(s, i, c) == i <= Len(s) /\ s[i] = c

at_end(s, i) == i > Len(s)

trim_start(s) == SubSeq(s, ws(s, 1), Len(s))

trim(s) ==
    LET t == trim_start(s)
        last == {k \in 1..Len(t) : ~IsSpace(t[k])}
    IN  IF last = {} THEN <<>> ELSE SubSeq(t, 1, CHOOSE k \in last : \A l \in last : l <= k)

(* ident: the longest run of identifier characters, at least one.          *)
ident(s, i) ==
    LET j == Skip(s, i, IdentChar)
    IN  IF j = i THEN Rejected ELSE [ok |-> TRUE, i |-> j, text |-> SubSeq(s, i, j - 1)]

(* Mutant of string: a backslash is a character like any other.            *)
StringUnescaped(s, i, out) ==
    LET quotes == {j \in i..Len(s) : s[j] = "'"}
        j == CHOOSE k \in quotes : \A l \in quotes : k <= l
    IN  IF quotes = {} THEN Rejected
        ELSE [ok |-> TRUE, i |-> j + 1, value |-> <<"string", SubSeq(s, i, j - 1)>>]

(* string: characters up to the quote that opened it, a backslash taking   *)
(* the next character as it is (n, r and t name control characters).       *)
RECURSIVE string(_, _, _)
string(s, i, out) ==
    IF at_end(s, i) \/ (s[i] = "\\" /\ at_end(s, i + 1)) THEN Rejected
    ELSE IF s[i] = "\\"
         THEN string(s, i + 2, Append(out, IF s[i + 1] = "n" THEN "nl" ELSE s[i + 1]))
    ELSE IF s[i] = "'" THEN [ok |-> TRUE, i |-> i + 1, value |-> <<"string", out>>]
    ELSE string(s, i + 1, Append(out, s[i]))

WordChar(c) == c \notin ({",", ")", "]"} \cup Spaces)

(* A bare word is a boolean, a null, a number, or else a string.           *)
Word(w) ==
    CASE w \in {<<"True">>, <<"true">>, <<"False">>, <<"false">>} -> <<"bool", w>>
      [] w \in {<<"None">>, <<"null">>} -> <<"null", w>>
      [] w = <<"1">> -> <<"number", w>>
      [] OTHER -> <<"string", w>>

(* A bracket that opens no JSON document is an error.                      *)
value(s, i) ==
    IF at_end(s, i) \/ eat(s, i, "[") THEN Rejected
    ELSE IF s[i] = "'" THEN string(s, i + 1, <<>>)
    ELSE IF s[i] \in DOMAIN JsonDocs
         THEN [ok |-> TRUE, i |-> i + 1, value |-> <<"json", <<s[i]>>>>]
    ELSE LET j == Skip(s, i, WordChar)
         IN  [ok |-> TRUE, i |-> j, value |-> Word(SubSeq(s, i, j - 1))]

(* The arguments of one call, from just after its opening parenthesis.     *)
RECURSIVE Arguments(_, _, _)
Arguments(s, i0, args) ==
    LET i == ws(s, i0)
        key == ident(s, i)
        eq == ws(s, key.i)
        val == value(s, ws(s, eq + 1))
        after == ws(s, val.i)
        taken == (key.text :> val.value) @@ args
    IN  IF eat(s, i, ")") THEN [ok |-> TRUE, i |-> i + 1, args |-> args]
        ELSE IF ~key.ok THEN Rejected
        ELSE IF ~eat(s, eq, "=") THEN Rejected
        ELSE IF ~val.ok THEN Rejected
        ELSE IF eat(s, after, ",") THEN Arguments(s, after + 1, taken)
        ELSE IF eat(s, after, ")") THEN [ok |-> TRUE, i |-> after + 1, args |-> taken]
        ELSE Rejected

(* The list of calls; what follows the closing bracket is not looked at.   *)
RECURSIVE Calls(_, _, _, _)
Calls(s, i0, bracketed, calls) ==
    LET i == ws(s, i0)
        name == ident(s, i)
        open == ws(s, name.i)
        rest == Arguments(s, open + 1, <<>>)
        more == Append(calls, [name |-> name.text, args |-> rest.args])
        after == ws(s, rest.i)
    IN  IF bracketed /\ eat(s, i, "]") THEN [ok |-> TRUE, calls |-> calls]
        ELSE IF at_end(s, i)
             THEN IF bracketed THEN Rejected ELSE [ok |-> TRUE, calls |-> calls]
        ELSE IF ~name.ok THEN Rejected
        ELSE IF ~eat(s, open, "(") THEN Rejected
        ELSE IF ~rest.ok THEN Rejected
        ELSE IF eat(s, after, ",") THEN Calls(s, after + 1, bracketed, more)
        ELSE IF ~bracketed THEN Calls(s, after, bracketed, more)
        ELSE IF eat(s, after, "]") THEN [ok |-> TRUE, calls |-> more]
        ELSE Rejected

parse_calls(text) ==
    LET s == trim(text)
        bracketed == eat(s, 1, "[")
    IN  Calls(s, IF bracketed THEN 2 ELSE 1, bracketed, <<>>)

(* Arguments may be absent, an object, or a string that holds JSON.        *)
parse_json_call(text) ==
    LET s == trim(text)
        doc == JsonDocs[s[1]]
    IN  IF Len(s) # 1 \/ s[1] \notin DOMAIN JsonDocs THEN Rejected
        ELSE IF doc.name = "" THEN Rejected
        ELSE [ok |-> TRUE,
              calls |-> <<[name |-> <<doc.name>>,
                           args |-> CASE doc.arguments = "absent" -> "object"
                                      [] doc.arguments = "json in a string" -> "object"
                                      [] OTHER -> doc.arguments]>>]

(***************************************************************************)
(* The reference: how a call is written.  Rendering is the template's side *)
(* of the format, quoting every string value.                              *)
(***************************************************************************)
RenderValue(v) ==
    CASE v[1] = "string" ->
            LET Escaped(acc, c) ==
                    acc \o (CASE c \in {"'", "\\"} -> <<"\\", c>>
                              [] c = "nl" -> <<"\\", "n">>
                              [] OTHER -> <<c>>)
                F[n \in 0..Len(v[2])] == IF n = 0 THEN <<>> ELSE Escaped(F[n - 1], v[2][n])
            IN  <<"'">> \o F[Len(v[2])] \o <<"'">>
      [] OTHER -> v[2]

RECURSIVE RenderArgs(_, _)
RenderArgs(args, keys) ==
    IF keys = {} THEN <<>>
    ELSE LET k == CHOOSE x \in keys : TRUE
             rest == RenderArgs(args, keys \ {k})
         IN  k \o <<"=">> \o RenderValue(args[k])
               \o (IF rest = <<>> THEN <<>> ELSE <<",", " ">> \o rest)

RenderCall(c) == c.name \o <<"(">> \o RenderArgs(c.args, DOMAIN c.args) \o <<")">>

RECURSIVE RenderCalls(_)
RenderCalls(calls) ==
    IF Len(calls) = 1 THEN RenderCall(calls[1])
    ELSE RenderCall(Head(calls)) \o <<",", " ">> \o RenderCalls(Tail(calls))

Render(calls) == <<"[">> \o RenderCalls(calls) \o <<"]">>
=============================================================================
