------------------------------ MODULE TextPath ------------------------------
(***************************************************************************)
(* The text of one choice, from sampled tokens to what the client reads:   *)
(* the worker's incremental detokenizer (vapi-engine/src/detokenize.rs),   *)
(* its hold-back for stop strings (emit_with_stop_strings and the drain of *)
(* Engine::step in vapi-worker/src/engine.rs), and the gateway's streaming *)
(* parser of reasoning and tool calls (vapi-gateway/src/output.rs, used    *)
(* through Parsed in api.rs).                                              *)
(*                                                                         *)
(* A token is a sequence of bytes.  A character is one byte, except the    *)
(* two bytes e1 e2, which together are the character "e'"; bytes that form *)
(* no character decode to the replacement character.  The two characters   *)
(* of a marker stand for its many, so that a cut can fall inside one.      *)
(***************************************************************************)
EXTENDS ToolCalls, SequencesExt

CONSTANTS
    Requests,     \* the instances explored: records of
                  \*   vocab  the tokens the model may sample,
                  \*   stop   the stop strings, include  include_stop_str,
                  \*   format the markers of the model's output, or NoFormat
                  \*   calls  the call lists whose rendering is in vocab,
                  \*   max    max_tokens
    Eos           \* the end-of-turn token

VARIABLES
    req,          \* the request
    tokens,       \* what was generated, the end-of-turn token included
    detok,        \* IncrementalDetokenizer: prefix, read, emitted
    held,         \* StreamState::held
    deltas,       \* the texts of the Token deltas sent, in order
    reason,       \* "running", or the FinishReason
    parser,       \* the gateway's OutputParser
    pieces        \* what the parser made of the deltas so far

vars == <<req, tokens, detok, held, deltas, reason, parser, pieces>>

NoFormat == [think_open |-> <<>>, think_close |-> <<>>, tool_start |-> <<>>,
             tool_end |-> <<>>, syntax |-> "none"]

Replacement == "U+FFFD"

(* Bytes of a character in UTF-8.                                          *)
Size(c) == CASE c = "e'" -> 2 [] c = Replacement -> 3 [] OTHER -> 1

Bytes(s) == FoldLeft(LAMBDA n, c : n + Size(c), 0, s)

(* The first position of pattern p in s, or 0.                             *)
Find(s, p) ==
    LET at == {i \in 1..(Len(s) - Len(p) + 1) : SubSeq(s, i, i + Len(p) - 1) = p}
    IN  IF at = {} THEN 0 ELSE CHOOSE i \in at : \A j \in at : i <= j

From(s, i) == SubSeq(s, i, Len(s))

Upto(s, i) == SubSeq(s, 1, i)

(***************************************************************************)
(* The tokenizer's decoder, external: bytes in a row, lossily converted,   *)
(* and a space at the very start of what is decoded left out, the          *)
(* boundary effect the detokenizer's two offsets are there to cancel.      *)
(***************************************************************************)
RECURSIVE Lossy(_)
Lossy(b) ==
    IF b = <<>> THEN <<>>
    ELSE IF Len(b) > 1 /\ b[1] = "e1" /\ b[2] = "e2" THEN <<"e'">> \o Lossy(From(b, 3))
    ELSE <<IF b[1] \in {"e1", "e2"} THEN Replacement ELSE b[1]>> \o Lossy(Tail(b))

decode(toks) ==
    LET text == Lossy(FlattenSeq(toks))
    IN  IF text # <<>> /\ Head(text) = " " THEN Tail(text) ELSE text

(***************************************************************************)
(* IncrementalDetokenizer.  The offsets count generated tokens: the prompt *)
(* is behind both of them from the start.                                  *)
(***************************************************************************)
NewDetokenizer == [prefix |-> 0, read |-> 0, emitted |-> <<>>]

(* Mutant of DetokPush: a character that is not complete goes out.         *)
DetokPushEager(d, toks) ==
    LET prefix_text == decode(SubSeq(toks, d.prefix + 1, d.read))
        delta == From(decode(From(toks, d.prefix + 1)), Len(prefix_text) + 1)
    IN  [delta |-> delta,
         detok |-> [prefix |-> d.read, read |-> Len(toks), emitted |-> d.emitted \o delta]]

(* push, after the token was appended to toks: the delta and the state.    *)
DetokPush(d, toks) ==
    LET prefix_text == decode(SubSeq(toks, d.prefix + 1, d.read))
        new_text == decode(From(toks, d.prefix + 1))
        delta == From(new_text, Len(prefix_text) + 1)
    IN  IF Bytes(new_text) <= Bytes(prefix_text) \/ Last(new_text) = Replacement
        THEN [delta |-> <<>>, detok |-> d]
        ELSE [delta |-> delta,
              detok |-> [prefix |-> d.read, read |-> Len(toks), emitted |-> d.emitted \o delta]]

(***************************************************************************)
(* Stop strings.                                                           *)
(***************************************************************************)
(* find_stop_string: where to truncate, counted in characters kept, or -1. *)
find_stop_string(r, text) ==
    LET hits == {s \in r.stop : s # <<>> /\ Find(text, s) > 0}
        cuts == {Find(text, s) - 1 + (IF r.include THEN Len(s) ELSE 0) : s \in hits}
    IN  IF hits = {} THEN -1 ELSE CHOOSE c \in cuts : \A d \in cuts : c <= d

max_stop_len(r) ==
    LET sizes == {Bytes(s) : s \in r.stop} \cup {0}
    IN  CHOOSE m \in sizes : \A n \in sizes : n <= m

(* Mutant of Releasable: one byte too many goes.                           *)
ReleasableOneMore(r, text) ==
    LET keep == IF max_stop_len(r) < 2 THEN 0 ELSE max_stop_len(r) - 2
        fits == {n \in 0..Len(text) : Bytes(Upto(text, n)) <= Bytes(text) - keep}
    IN  IF Bytes(text) <= keep THEN 0 ELSE CHOOSE n \in fits : \A k \in fits : k <= n

(* How many characters of the held text may go: all but the last           *)
(* max_stop_len - 1 bytes, moved back to a character boundary.             *)
Releasable(r, text) ==
    LET keep == IF max_stop_len(r) = 0 THEN 0 ELSE max_stop_len(r) - 1
        fits == {n \in 0..Len(text) : Bytes(Upto(text, n)) <= Bytes(text) - keep}
    IN  IF Bytes(text) <= keep THEN 0 ELSE CHOOSE n \in fits : \A k \in fits : k <= n

emit_with_stop_strings(r, h, text) ==
    LET all == h \o text
        cut == find_stop_string(r, all)
        free == Releasable(r, all)
    IN  IF r.stop = {} THEN [out |-> text, held |-> h, stopped |-> FALSE]
        ELSE IF cut >= 0 THEN [out |-> Upto(all, cut), held |-> <<>>, stopped |-> TRUE]
        ELSE [out |-> Upto(all, free), held |-> From(all, free + 1), stopped |-> FALSE]

(***************************************************************************)
(* The gateway's OutputParser.  tool is the text buffered since a tool     *)
(* call was opened, in a one-element sequence, or empty.                   *)
(***************************************************************************)
NewParser(f) ==
    [in_think |-> f.think_close # <<>> /\ f.think_open = <<>>,
     trim_leading |-> FALSE, tool |-> <<>>, calls_made |-> 0]

Reasoning(text) == IF text = <<>> THEN <<>> ELSE <<[kind |-> "reasoning", text |-> text]>>

Newline(c) == c = "nl"

(* Mutant of content: trimming ends with the delta it began in.            *)
ContentTrimOnce(p, text) ==
    LET t == IF p.trim_leading THEN From(text, Skip(text, 1, Newline)) ELSE text
    IN  [p |-> [p EXCEPT !.trim_leading = FALSE],
         out |-> IF t = <<>> THEN <<>> ELSE <<[kind |-> "content", text |-> t]>>]

(* content: the blank line after the reasoning block is left out.          *)
content(p, text) ==
    LET t == IF p.trim_leading THEN From(text, Skip(text, 1, Newline)) ELSE text
    IN  [p |-> [p EXCEPT !.trim_leading = @ /\ t = <<>>],
         out |-> IF t = <<>> THEN <<>> ELSE <<[kind |-> "content", text |-> t]>>]

(* Calls are numbered over the whole answer.                               *)
Numbered(p, calls) ==
    [p |-> [p EXCEPT !.tool = <<>>, !.calls_made = @ + Len(calls)],
     out |-> <<[kind |-> "calls",
                calls |-> [i \in 1..Len(calls) |-> [id |-> p.calls_made + i - 1, call |-> calls[i]]]]>>]

CallsOrText(f, p, text, parsed) ==
    IF parsed.ok /\ parsed.calls # <<>>
    THEN Numbered(p, parsed.calls)
    ELSE [p |-> [p EXCEPT !.tool = <<>>],
          out |-> <<[kind |-> "content", text |-> f.tool_start \o text \o f.tool_end]>>]

(* finish_tool_text: the calls, or the text handed back with its markers.  *)
finish_tool_text(f, p, text) ==
    CallsOrText(f, p, text, IF f.syntax = "python" THEN parse_calls(text) ELSE parse_json_call(text))

(* One turn of push's loop: what it emits and what is left of the delta.   *)
Turn(done, rest) == [p |-> done.p, out |-> done.out, rest |-> rest]

InThink(f, p, rest) ==
    LET i == Find(rest, f.think_close)
    IN  IF i = 0 THEN [p |-> p, out |-> Reasoning(rest), rest |-> <<>>]
        ELSE [p |-> [p EXCEPT !.in_think = FALSE, !.trim_leading = TRUE],
              out |-> Reasoning(Upto(rest, i - 1)),
              rest |-> From(rest, i + Len(f.think_close))]

InTool(f, p, rest) ==
    LET i == Find(rest, f.tool_end)
    IN  IF i = 0 THEN [p |-> [p EXCEPT !.tool = <<p.tool[1] \o rest>>], out |-> <<>>, rest |-> <<>>]
        ELSE Turn(finish_tool_text(f, p, p.tool[1] \o Upto(rest, i - 1)),
                  From(rest, i + Len(f.tool_end)))

InAnswer(f, p, rest) ==
    LET t == Find(rest, f.tool_start)
        k == IF f.think_open = <<>> THEN 0 ELSE Find(rest, f.think_open)
    IN  IF t > 0 /\ (k = 0 \/ t < k)
        THEN LET c == content(p, Upto(rest, t - 1))
             IN  Turn([c EXCEPT !.p.tool = <<(<<>>)>>], From(rest, t + Len(f.tool_start)))
        ELSE IF k > 0
        THEN LET c == content(p, Upto(rest, k - 1))
             IN  Turn([c EXCEPT !.p.in_think = TRUE], From(rest, k + Len(f.think_open)))
        ELSE Turn(content(p, rest), <<>>)

(* What was read, and then what more was read.                             *)
Then(out, more) == [p |-> more.p, out |-> out \o more.out]

RECURSIVE push(_, _, _)
push(f, p, rest) ==
    LET After(turn) == Then(turn.out, push(f, turn.p, turn.rest))
    IN  IF rest = <<>> THEN [p |-> p, out |-> <<>>]
        ELSE After(IF p.in_think THEN InThink(f, p, rest)
                   ELSE IF p.tool # <<>> THEN InTool(f, p, rest)
                   ELSE InAnswer(f, p, rest))

(* Parsed::push: without a format the text is content as it is.            *)
Parse(f, p, text) ==
    IF f = NoFormat
    THEN [p |-> p, out |-> IF text = <<>> THEN <<>> ELSE <<[kind |-> "content", text |-> text]>>]
    ELSE push(f, p, text)

(* finish: an unterminated tool call is handed back as text.               *)
finish(f, p) ==
    IF p.tool # <<>> /\ p.tool[1] # <<>>
    THEN <<[kind |-> "content", text |-> f.tool_start \o p.tool[1]]>>
    ELSE <<>>

(***************************************************************************)
(* Behaviour.                                                              *)
(***************************************************************************)
Init ==
    /\ req \in Requests
    /\ tokens = <<>>
    /\ detok = NewDetokenizer
    /\ held = <<>>
    /\ deltas = <<>>
    /\ reason = "running"
    /\ parser = NewParser(req.format)
    /\ pieces = <<>>

(* What the parser makes of the texts, one after the other.                *)
ParseAll(f, p, texts) ==
    FoldLeft(LAMBDA acc, t : Then(acc.out, Parse(f, acc.p, t)), [p |-> p, out |-> <<>>], texts)

Delivered(parsed, end) ==
    /\ reason' = end
    /\ IF end = "running"
       THEN parser' = parsed.p /\ pieces' = pieces \o parsed.out
       ELSE /\ parser' = [parsed.p EXCEPT !.tool = <<>>]
            /\ pieces' = pieces \o parsed.out \o finish(req.format, parsed.p)

(* What the client gets for the texts ts, and the end of the choice.       *)
Deliver(ts, end) ==
    LET sent == SelectSeq(ts, LAMBDA t : t # <<>>)
    IN  /\ deltas' = deltas \o sent
        /\ Delivered(ParseAll(req.format, parser, sent), end)

(* Engine::step for one sampled token: the end of turn is never emitted,   *)
(* a stop string ends the choice before max_tokens does, and a choice that *)
(* ended gives back what was held for a stop string that never came.       *)
Sampled(toks, d, e) ==
    LET end == IF Last(toks) = Eos \/ e.stopped THEN "stop"
               ELSE IF Len(toks) >= req.max THEN "length" ELSE "running"
    IN  /\ detok' = d.detok
        /\ held' = IF end = "running" THEN e.held ELSE <<>>
        /\ Deliver(IF end = "running" THEN <<e.out>> ELSE <<e.out, e.held>>, end)

Emit(toks, d) == Sampled(toks, d, emit_with_stop_strings(req, held, d.delta))

Sample(t) ==
    /\ reason = "running"
    /\ t \in req.vocab \cup {Eos}
    /\ tokens' = Append(tokens, t)
    /\ IF t = Eos
       THEN Sampled(tokens', [detok |-> detok], [out |-> <<>>, held |-> held, stopped |-> FALSE])
       ELSE Emit(tokens', DetokPush(detok, tokens'))
    /\ UNCHANGED req

(* The client went away: what is held is dropped with the choice.          *)
Cancel ==
    /\ reason = "running"
    /\ held' = <<>>
    /\ Deliver(<<>>, "cancelled")
    /\ UNCHANGED <<req, tokens, detok>>

Next ==
    \/ \E t \in UNION {r.vocab : r \in Requests} \cup {Eos} : Sample(t)
    \/ Cancel

Spec == Init /\ [][Next]_vars

-----------------------------------------------------------------------------
Generated == SelectSeq(tokens, LAMBDA t : t # Eos)

Sent == FlattenSeq(deltas)

(* Holds when the last bytes generated do not form a character yet.        *)
Pending == detok.read < Len(Generated)

(* The detokenizer neither loses, repeats nor corrupts a character: what   *)
(* it emitted is the decoding of the tokens it has read, whatever the      *)
(* token boundaries, and tokens are left unread only at the end and only   *)
(* when they complete no character (IncrementalDetokenizer::push).         *)
DetokenizerExact ==
    /\ detok.emitted = decode(Upto(Generated, detok.read))
    /\ Pending => LET whole == decode(Generated)
                  IN  whole = detok.emitted \/ Last(whole) = Replacement

(* Nothing of a stop string, nor of what follows one, is ever sent, and    *)
(* nothing else is withheld: while the choice runs what was sent and held  *)
(* is the text so far and holds no stop string; when it ended at one the   *)
(* text sent is the text before (or through) an occurrence, and otherwise  *)
(* it is the whole text (emit_with_stop_strings, Engine::step).            *)
StopStringsRespected ==
    LET text == detok.emitted
        Free(s) == \A p \in req.stop : p = <<>> \/ Find(s, p) = 0
    IN  /\ reason \in {"running", "length"} => Sent \o held = text /\ Free(text)
        /\ reason = "stop" =>
              \/ Sent = text /\ Free(text)
              \/ \E p \in req.stop \ {<<>>} :
                    IF req.include
                    THEN IsSuffix(p, Sent) /\ IsPrefix(Sent, text)
                    ELSE IsPrefix(Sent \o p, text) /\ Free(Sent)
        /\ reason = "cancelled" => IsPrefix(Sent, text)

(* Pieces of one kind run together, as a client that appends them sees     *)
(* them: the text of each kind, and the calls in order.                    *)
Seen(ps) ==
    LET Of(k) == SelectSeq(ps, LAMBDA p : p.kind = k)
    IN  [reasoning |-> FlattenSeq([i \in 1..Len(Of("reasoning")) |-> Of("reasoning")[i].text]),
         content |-> FlattenSeq([i \in 1..Len(Of("content")) |-> Of("content")[i].text]),
         calls |-> FlattenSeq([i \in 1..Len(Of("calls")) |-> Of("calls")[i].calls])]

Markers == {req.format.think_open, req.format.think_close,
            req.format.tool_start, req.format.tool_end} \ {<<>>}

(* A marker in what was sent arrived in more than one delta.               *)
MarkerCut ==
    \E m \in Markers, k \in 1..Len(deltas) :
        LET end == Len(FlattenSeq(Upto(deltas, k)))
        IN  \E i \in 1..(Len(Sent) - Len(m) + 1) :
               /\ SubSeq(Sent, i, i + Len(m) - 1) = m
               /\ i <= end /\ end < i + Len(m) - 1

ReadAsOne ==
    LET Read(whole) == whole.out \o finish(req.format, whole.p)
    IN  Seen(pieces) = Seen(Read(Parse(req.format, NewParser(req.format), Sent)))

(* How the text was cut into deltas does not show: a finished stream whose *)
(* markers arrived whole, parsed delta by delta, says what parsing the     *)
(* whole answer at once says, wherever else it was cut: in the blank line  *)
(* after the reasoning, in the text of a call, beside a marker             *)
(* (OutputParser::push and finish; a cached answer is replayed from its    *)
(* deltas, a collected one is parsed as it arrives).  Markers that arrive  *)
(* in pieces are excepted, because the parser looks for a marker in one    *)
(* delta at a time: "each marker is a single token, so it arrives whole    *)
(* inside one delta".  The text held back for a stop string cuts single    *)
(* tokens too, so CutsNeverShow does not hold.                             *)
CutsDoNotShow == (reason # "running" /\ ~MarkerCut) => ReadAsOne

CutsNeverShow == reason # "running" => ReadAsOne

(* The first call written in the model's call syntax between its two       *)
(* markers, once any reasoning is closed, reaches the client as that call, *)
(* and no two calls of an answer share an id (finish_tool_text,            *)
(* parse_calls).                                                           *)
CallsDelivered ==
    LET calls == Seen(pieces).calls
        f == req.format
        Closed(i) == \/ ~NewParser(f).in_think
                     \/ \E j \in 1..(i - 1) : tokens[j] = f.think_close
        First(i) == \A j \in 1..(i - 1) : tokens[j] \notin {f.tool_start, f.think_open}
    IN  /\ \A i, j \in 1..Len(calls) : calls[i].id = calls[j].id => i = j
        /\ \A i \in 1..(Len(tokens) - 2), c \in req.calls :
              /\ Closed(i) /\ First(i)
              /\ SubSeq(tokens, i, i + 2) = <<f.tool_start, Render(c), f.tool_end>>
              => /\ Len(calls) >= Len(c)
                 /\ \A k \in 1..Len(c) : calls[k].call = c[k]
=============================================================================
