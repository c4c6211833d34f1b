----------------------------- MODULE MCDelivery -----------------------------
(***************************************************************************)
(* Instances of Delivery: one request and two workers, or two requests and *)
(* one worker, with one fault or two that make each other worse.           *)
(***************************************************************************)
EXTENDS Delivery, TLC

\* A chat of a greedy client that leaves everything else to the defaults.
Chat ==
    [route |-> "chat", who |-> "alice", messages |-> "hello", len |-> 3, stream |-> TRUE,
     temperature |-> 0, top_p |-> Unset, top_k |-> Unset, min_p |-> Unset,
     repetition_penalty |-> Unset, frequency_penalty |-> Unset, presence_penalty |-> Unset,
     max_tokens |-> Unset, max_completion_tokens |-> Unset, n |-> Unset, seed |-> Unset,
     logprobs |-> Unset, top_logprobs |-> Unset, stop |-> <<>>, response_format |-> "unset",
     tools |-> {}, tool_choice |-> "unset", rows |-> 0, file |-> "none", seconds |-> 0]

Nobody == [Chat EXCEPT !.route = "none"]
Plain == [Chat EXCEPT !.stream = FALSE]
Sampled1 == [Chat EXCEPT !.temperature = Unset]
Seeded == [Plain EXCEPT !.temperature = Unset, !.seed = 7]
Several(stream) == [Chat EXCEPT !.temperature = 7, !.n = 2, !.stream = stream]
Questions(rows) == [Plain EXCEPT !.route = "decision", !.rows = rows]
Clip == [Plain EXCEPT !.route = "transcription", !.file = "wav", !.seconds = 30]

\* What Plain may not be answered with: what another caller asked, another
\* route, a longer limit, a constraint, tools, a stop string or a seed.
Variants ==
    { [Chat EXCEPT !.who = "bob"], [Plain EXCEPT !.route = "completion"],
      [Plain EXCEPT !.max_completion_tokens = 9], [Plain EXCEPT !.response_format = "schema"],
      [Plain EXCEPT !.tools = {"search"}], [Plain EXCEPT !.stop = <<"end">>],
      [Chat EXCEPT !.logprobs = 1], Seeded }

\* Refused before anything is queued.
Invalid ==
    { [Chat EXCEPT !.temperature = 21], [Chat EXCEPT !.top_p = 0], [Chat EXCEPT !.top_k = 0],
      [Chat EXCEPT !.n = 9], [Chat EXCEPT !.logprobs = 1, !.top_logprobs = 21],
      [Chat EXCEPT !.max_tokens = 5, !.max_completion_tokens = 0],
      [Chat EXCEPT !.response_format = "unsupported_schema"],
      [Chat EXCEPT !.response_format = "regex"], [Chat EXCEPT !.tool_choice = "search"],
      [Chat EXCEPT !.len = 64], Questions(0), [Clip EXCEPT !.seconds = 151], [Clip EXCEPT !.file = "none"] }

\* A gateway whose jobs a worker of any kind may find on its queue.
Thinking == [max_context |-> 64, format |-> "thinking", serves |-> {"speech", "decision"},
             cache |-> TRUE]

Deployment(kind, ws, a, b, faultSet) ==
    [kind |-> kind, workers |-> ws, gateway |-> Thinking,
     asks |-> ("r1" :> a @@ "r2" :> b), faults |-> faultSet]

\* Two requests on one worker: chats that share a cache key, questions that
\* need more than one pass, clips beside a request of the wrong kind, and
\* choices that leave no room for what has been fetched.
OnOne(kind, a, b, faultSets) == {Deployment(kind, {"w1"}, a, b, f) : f \in faultSets}
\* One request and a second worker to take over.
OnTwo(kind, a, faultSets) == {Deployment(kind, {"w1", "w2"}, a, Nobody, f) : f \in faultSets}

MCInstances == UNION
    { OnOne("generation", Chat, Plain,
            {{"shutdown"}, {"lost"}, {"disconnect"}, {"step"}, {"timeout"}, {"publish"}}),
      UNION {OnOne("generation", Plain, b, {{}}) : b \in Variants},
      UNION {OnOne("generation", Nobody, b, {{}}) : b \in Invalid},
      OnOne("generation", Seeded, Seeded, {{"cache_off"}}),
      OnOne("generation", Several(TRUE), Clip, {{}}),
      OnOne("generation", Several(TRUE), Nobody, {{"disconnect", "shutdown"}}),
      OnOne("decision", Questions(3), Questions(1),
            {{"crash"}, {"shutdown"}, {"disconnect"}, {"step"}}),
      OnOne("transcription", Clip, Plain, {{"crash"}, {"shutdown"}, {"step"}}),
      OnTwo("generation", Sampled1, {{"crash"}, {"late"}, {"shutdown", "step"}}),
      OnTwo("generation", Several(FALSE), {{"crash"}, {"shutdown"}, {"fork", "lost"}}),
      OnTwo("generation", Several(TRUE), {{"fork", "disconnect"}, {"step", "disconnect"}}),
      OnTwo("generation", Questions(1), {{"lost"}}),
      OnTwo("decision", Questions(2), {{"disconnect", "late"}, {"crash"}}),
      OnTwo("transcription", Clip, {{"disconnect", "shutdown"}}) }
=============================================================================
