---------------------------- MODULE GatewayIntake ----------------------------
(***************************************************************************)
(* What the gateway makes of an HTTP request before anything is queued: the*)
(* handlers of crates/vapi-gateway/src/api.rs up to prepare, the parameters*)
(* of crates/vapi-openai, SamplingParams::validate and the response-cache  *)
(* key of response_cache.rs.                                               *)
(*                                                                         *)
(* An ask is what a client sends: its route, the caller's namespace (who), *)
(* whether it streams, and the fields of the body, Unset where the client  *)
(* left one out.  Temperatures and probabilities are in tenths.  A gateway *)
(* is [max_context, format, serves, cache]: format the output format found *)
(* for the model ("none", "plain", or "thinking" when it opens a reasoning *)
(* block), serves the checkpoints it has beside a generative one (speech,  *)
(* decision), cache whether there is a response cache.                     *)
(***************************************************************************)
EXTENDS Integers, Sequences

Unset == -1
Or(v, default) == IF v = Unset THEN default ELSE v

MAX_CHOICES == 8
MAX_AUDIO_SECONDS == 150

NoKey == <<>>
----------------------------------------------------------------------------
(***************************************************************************)
(* Sampling parameters.                                                    *)
(***************************************************************************)
DefaultParams ==
    [temperature |-> 10, top_p |-> 10, top_k |-> Unset, min_p |-> 0, repetition_penalty |-> 10,
     frequency_penalty |-> 0, presence_penalty |-> 0, max_tokens |-> 256, n |-> 1, seed |-> Unset,
     logprobs |-> Unset, response_format |-> "none", constraint_starts_after |-> "none",
     stop |-> <<>>]

is_greedy(p) == p.temperature = 0
is_deterministic(p) == is_greedy(p) \/ p.seed # Unset

validate(p) ==
    /\ p.temperature \in 0 .. 20
    /\ p.top_p \in 1 .. 10
    /\ p.min_p \in 0 .. 10
    /\ p.top_k # 0
    /\ p.max_tokens >= 1
    /\ p.n \in 1 .. MAX_CHOICES
    /\ p.repetition_penalty > 0
    /\ p.logprobs <= 20

\* ChatCompletionRequest::constraint: "invalid" when the field cannot be read.
constraint(format) ==
    CASE format \in {"unset", "text"} -> "none"
      [] format \in {"json_object", "schema", "unsupported_schema"} -> format
      [] OTHER -> "invalid"

chat_params(ask, default_max_tokens) ==
    [temperature |-> Or(ask.temperature, 10), top_p |-> Or(ask.top_p, 10), top_k |-> ask.top_k,
     min_p |-> Or(ask.min_p, 0), repetition_penalty |-> Or(ask.repetition_penalty, 10),
     frequency_penalty |-> Or(ask.frequency_penalty, 0),
     presence_penalty |-> Or(ask.presence_penalty, 0),
     max_tokens |-> Or(ask.max_completion_tokens, Or(ask.max_tokens, default_max_tokens)),
     n |-> Or(ask.n, 1), seed |-> ask.seed,
     logprobs |-> IF ask.logprobs = 1 THEN Or(ask.top_logprobs, 1) ELSE Unset,
     response_format |-> constraint(ask.response_format), constraint_starts_after |-> "none",
     stop |-> ask.stop]

\* A completion has no choices, no constraint and no repetition penalty.
completion_params(ask, default_max_tokens) ==
    [DefaultParams EXCEPT
        !.temperature = Or(ask.temperature, 10), !.top_p = Or(ask.top_p, 10), !.top_k = ask.top_k,
        !.max_tokens = Or(ask.max_tokens, default_max_tokens), !.seed = ask.seed,
        !.frequency_penalty = Or(ask.frequency_penalty, 0),
        !.presence_penalty = Or(ask.presence_penalty, 0),
        !.logprobs = ask.logprobs, !.stop = ask.stop]

\* The tools shown to the model: tool_choice is auto, none or refused.
active_tools(ask) ==
    CASE ask.tool_choice \in {"unset", "auto"} -> ask.tools
      [] ask.tool_choice = "none" -> {}
      [] OTHER -> {"unsupported tool_choice"}

----------------------------------------------------------------------------
\* Answered with an error status; nothing is queued.
Refused ==
    [kind |-> "refused", namespace |-> "none", prompt |-> <<>>, params |-> DefaultParams,
     rows |-> 0, audio |-> 0, stream |-> FALSE, key |-> NoKey]

(***************************************************************************)
(* The response cache's key.                                               *)
(***************************************************************************)
cacheable(p) == is_deterministic(p) /\ p.logprobs = Unset /\ p.n <= 1

\* Mutant of key: the caller is left out.
key_shared(namespace, kind, prompt, p) ==
    <<kind, prompt, p.temperature, p.top_p, p.min_p, p.repetition_penalty, p.frequency_penalty,
      p.presence_penalty, p.top_k, p.max_tokens, p.response_format, p.constraint_starts_after,
      p.seed, p.stop>>

key(namespace, kind, prompt, p) ==
    <<namespace, kind, prompt, p.temperature, p.top_p, p.min_p, p.repetition_penalty,
      p.frequency_penalty, p.presence_penalty, p.top_k, p.max_tokens, p.response_format,
      p.constraint_starts_after, p.seed, p.stop>>

\* The limit is on the longest row of a decision, on the whole prompt
\* otherwise; len is that length.  rows counts the questions of a decision,
\* audio the seconds of a clip.
prepare(gateway, ask, kind, prompt, len, params, rows, audio) ==
    IF len >= gateway.max_context THEN Refused
    ELSE [kind |-> kind, namespace |-> ask.who, prompt |-> prompt, params |-> params,
          rows |-> rows, audio |-> audio, stream |-> ask.stream,
          key |-> IF kind # "decision" /\ gateway.cache /\ cacheable(params)
                  THEN key(ask.who, kind, prompt, params) ELSE NoKey]

----------------------------------------------------------------------------
(***************************************************************************)
(* The handlers, up to the queue.                                          *)
(***************************************************************************)
\* The schema is compiled here so that an unsupported one is refused, and the
\* constraint of a model that reasons waits for the end of its reasoning.
chat_completions(gateway, ask) ==
    LET params == chat_params(ask, gateway.max_context \div 4)
        constrained == params.response_format # "none"
        tools == active_tools(ask)
    IN  IF \/ ~validate(params)
           \/ params.response_format \in {"invalid", "unsupported_schema"}
           \/ "unsupported tool_choice" \in tools
           \/ tools # {} /\ gateway.format = "none"
        THEN Refused
        ELSE prepare(gateway, ask, "chat", <<ask.messages, tools>>, ask.len,
                     [params EXCEPT !.constraint_starts_after =
                         IF constrained /\ gateway.format = "thinking" THEN "think_close" ELSE @],
                     0, 0)

completions(gateway, ask) ==
    LET params == completion_params(ask, gateway.max_context \div 4)
    IN  IF ~validate(params) THEN Refused
        ELSE prepare(gateway, ask, "completion", <<ask.messages, {}>>, ask.len, params, 0, 0)

\* A WAV file of at most MAX_AUDIO_SECONDS that is not empty.
transcriptions(gateway, ask) ==
    IF /\ "speech" \in gateway.serves /\ ask.file = "wav" /\ ask.seconds \in 1 .. MAX_AUDIO_SECONDS
       /\ ask.response_format \in {"unset", "json", "text", "verbose_json"}
    THEN prepare(gateway, ask, "transcription", <<>>, 0, DefaultParams, 0, ask.seconds)
    ELSE Refused

\* How decisions builds its rows is DecisionFormat's subject.
decisions(gateway, ask) ==
    IF "decision" \notin gateway.serves \/ ask.rows = 0 THEN Refused
    ELSE prepare(gateway, ask, "decision", <<ask.messages, {}>>, ask.len, DefaultParams,
                 ask.rows, 0)

\* The router.
Accept(gateway, ask) ==
    CASE ask.route = "chat" -> chat_completions(gateway, ask)
      [] ask.route = "completion" -> completions(gateway, ask)
      [] ask.route = "transcription" -> transcriptions(gateway, ask)
      [] ask.route = "decision" -> decisions(gateway, ask)
      [] OTHER -> Refused
=============================================================================
