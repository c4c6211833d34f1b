---------------------------- MODULE DecisionPath ----------------------------
(***************************************************************************)
(* /v1/decisions from end to end: the gateway's handler builds a sequence  *)
(* per question and publishes them as one job (crates/vapi-gateway/src/    *)
(* api.rs, crates/vapi-proto/src/envelope.rs), the worker's single-pass    *)
(* engine packs rows of several requests into a pass and spreads a large   *)
(* request over several (crates/vapi-worker/src/decision.rs), and the      *)
(* gateway shapes the scores into answers.  Loss, redelivery and timeouts  *)
(* are Delivery's: here a job reaches the worker and its one terminal      *)
(* event comes back.                                                       *)
(***************************************************************************)
EXTENDS DecisionFormat, Encoder, Lists

CONSTANTS
    Requests,            \* request ids
    Asks,                \* the bodies a client may post
    max_requests,        \* requests the engine admits at once
    max_rows,            \* rows in one pass
    max_batched_tokens,  \* padded positions in one pass
    MaxFaults            \* bound: passes the device fails

\* A body has a state and a list of questions.
ASSUME DecisionAssumption ==
    \A a \in Asks : /\ a.state \in Value
                    /\ a.questions \in Seq(ToSet(a.questions))
                    /\ \A i \in DOMAIN a.questions : a.questions[i].q \in Question

VARIABLES
    ask,      \* request -> what was asked, once it was
    jobs,     \* published and not pulled
    queue,    \* DecisionEngine.queue
    reply,    \* request -> what the client was answered
    started,  \* requests whose Started has reached the gateway
    flash,    \* whether the attention kernel runs on this device
    faults

vars == <<ask, jobs, queue, reply, started, flash, faults>>

Nothing == [status |-> "none"]
Waiting == [status |-> "waiting"]
Failed == [status |-> "failed"]
Invalid == [status |-> "invalid"]
Cancelled == [status |-> "cancelled"]
Answered(answers) == [status |-> "answered", answers |-> answers]

NoAsk == [questions |-> <<>>]

\* A row's slot holds its scores, once it has them.
Unanswered == <<>>
Some(scores) == <<scores>>

Init ==
    /\ ask = [r \in Requests |-> NoAsk]
    /\ jobs = <<>>
    /\ queue = <<>>
    /\ reply = [r \in Requests |-> Nothing]
    /\ started = {}
    /\ flash \in BOOLEAN
    /\ faults = 0

-----------------------------------------------------------------------------
(* The gateway.                                                            *)

Built(a) ==
    [i \in DOMAIN a.questions |->
       build(a.questions[i].q, option_texts(a.questions[i].q), state_text(a))] \o <<>>

\* Every question's tokens end to end, and what each occupies of them.
JobOf(r, a, built) ==
    [id            |-> r,
     prompt_tokens |-> FlattenSeq([i \in DOMAIN built |-> built[i].tokens]),
     rows          |-> [i \in DOMAIN built |->
                          [len |-> Len(built[i].tokens), markers |-> built[i].markers,
                           qtype |-> index(a.questions[i].q.qtype)]] \o <<>>]

decisions(r, a) ==
    /\ reply[r] = Nothing
    /\ ask' = [ask EXCEPT ![r] = a]
    /\ \E built \in {Built(a)} :
          IF a.questions = <<>> \/ \E i \in DOMAIN built : built[i].refused
          THEN /\ reply' = [reply EXCEPT ![r] = Invalid]
               /\ UNCHANGED jobs
          ELSE /\ reply' = [reply EXCEPT ![r] = Waiting]
               /\ jobs' = Append(jobs, JobOf(r, a, built))
    /\ UNCHANGED <<queue, started, flash, faults>>

\* The answers, in the questions' order.
Answers(a, rows) ==
    [i \in DOMAIN a.questions |->
       <<a.questions[i].id,
         shape_answer(a.questions[i].q, rows[i],
                      temperature(a.questions[i].q.qtype, Len(option_texts(a.questions[i].q))))>>] \o <<>>

\* A worker that answers another number of questions is an error.
OnDecided(a, rows) ==
    IF Len(rows) # Len(a.questions) THEN Failed ELSE Answered(Answers(a, rows))

-----------------------------------------------------------------------------
(* The engine.                                                             *)

\* The rows of a job as slices of its prompt, or <<>> when the lengths do
\* not add up.
decision_rows(job) ==
    LET cu == Ends([i \in DOMAIN job.rows |-> job.rows[i].len])
    IN  IF cu[Len(job.rows)] # Len(job.prompt_tokens) THEN <<>>
        ELSE [i \in DOMAIN job.rows |->
                [tokens |-> SubSeq(job.prompt_tokens, cu[i - 1] + 1, cu[i]),
                 markers |-> job.rows[i].markers, qtype |-> job.rows[i].qtype]] \o <<>>

max_context == Min({config.max_len, max_position_embeddings})

headroom == saturating_sub(max_requests, Len(queue))

\* A malformed job fails its own admission.
admit ==
    /\ jobs # <<>> /\ headroom > 0
    /\ jobs' = Tail(jobs)
    /\ \E rows \in {decision_rows(Head(jobs))} :
          IF rows = <<>> \/ ~validate(rows, max_context)
          THEN /\ reply' = [reply EXCEPT ![Head(jobs).id] = Failed]
               /\ UNCHANGED queue
          ELSE /\ queue' = Append(queue, [id |-> Head(jobs).id, rows |-> rows,
                                          scores |-> [i \in DOMAIN rows |-> Unanswered] \o <<>>])
               /\ UNCHANGED reply
    /\ UNCHANGED <<ask, started, flash, faults>>

unanswered(p) ==
    Without([i \in DOMAIN p.rows |-> i], {i \in DOMAIN p.rows : p.scores[i] # Unanswered})

complete(p) == \A i \in DOMAIN p.scores : p.scores[i] # Unanswered

\* What a request has still to be scored.
RowsOf(q) == LET rows == unanswered(queue[q]) IN [i \in DOMAIN rows |-> <<q, rows[i]>>] \o <<>>

AddRows(rows, q) == rows \o RowsOf(q)

\* Every (request, row) still to be scored, in arrival order.
Backlog ==
    LET upto[q \in 0 .. Len(queue)] == IF q = 0 THEN <<>> ELSE AddRows(upto[q - 1], q)
    IN  upto[Len(queue)]

RowLen(at) == Len(queue[at[1]].rows[at[2]].tokens)

\* A pass costs its rows times its longest row.
PassCost(picked) == Len(picked) * Max({RowLen(picked[i]) : i \in DOMAIN picked})

\* The first row always goes, however long it is.
Fits(picked) == Len(picked) = 1 \/ (Len(picked) <= max_rows /\ PassCost(picked) <= max_batched_tokens)

\* Mutant: a row that does not fit is passed over for a shorter one behind it.
select_best_fit ==
    FoldLeft(LAMBDA picked, at : IF Fits(Append(picked, at)) THEN Append(picked, at) ELSE picked,
             <<>>, Backlog)

\* The longest run of the backlog every one of whose rows fitted.
select ==
    LET fits == {n \in 0..Len(Backlog) : \A k \in 1..n : Fits(SubSeq(Backlog, 1, k))}
    IN  SubSeq(Backlog, 1, Max(fits))

\* Requests that this pass is the first to touch.
StartedBy(picked) ==
    {queue[picked[i][1]].id : i \in {i \in DOMAIN picked :
        picked[i][2] = 1 /\ \A j \in DOMAIN queue[picked[i][1]].scores :
                                queue[picked[i][1]].scores[j] = Unanswered}}

Scored(picked, answers) ==
    [q \in DOMAIN queue |->
       [queue[q] EXCEPT !.scores =
          [r \in DOMAIN queue[q].rows |->
             IF \E i \in DOMAIN picked : picked[i] = <<q, r>>
             THEN Some(answers[CHOOSE i \in DOMAIN picked : picked[i] = <<q, r>>])
             ELSE queue[q].scores[r]] \o <<>>]] \o <<>>

Flat(scores) == [i \in DOMAIN scores |-> scores[i][1]] \o <<>>

\* One pass over what was picked; every request whose rows are all in is
\* answered.
step ==
    /\ queue # <<>>
    /\ select # <<>>
    /\ \E picked \in {select} :
       \E answers \in {CandleEncoder_forward([i \in DOMAIN picked |->
                            queue[picked[i][1]].rows[picked[i][2]]] \o <<>>, flash)} :
       \E scored \in {Scored(picked, answers)} :
          /\ queue' = Without(scored, {p \in ToSet(scored) : complete(p)})
          /\ started' = started \cup StartedBy(picked)
          /\ reply' = [r \in Requests |->
                         IF \E q \in DOMAIN scored : scored[q].id = r /\ complete(scored[q])
                         THEN OnDecided(ask[r], Flat((CHOOSE p \in ToSet(scored) : p.id = r).scores))
                         ELSE reply[r]]
    /\ UNCHANGED <<ask, jobs, flash, faults>>

\* A pass the device fails fails everything in the queue (fail_all); whoever
\* was to be told that it had started is not.
step_fails ==
    /\ queue # <<>> /\ select # <<>>
    /\ faults < MaxFaults
    /\ faults' = faults + 1
    /\ queue' = <<>>
    /\ reply' = [r \in Requests |-> IF \E q \in DOMAIN queue : queue[q].id = r THEN Failed ELSE reply[r]]
    /\ UNCHANGED <<ask, jobs, started, flash>>

\* A cancellation reaches the worker: the request leaves the queue, part-way
\* through or not, and no event is sent, so its handler gives up at its
\* timeout.  The decisions handler publishes none itself; the engine honours
\* whatever is on the cancel subject.  Of anything not queued it does nothing.
cancel(r) ==
    /\ \E q \in DOMAIN queue : queue[q].id = r
    /\ queue' = Without(queue, {p \in ToSet(queue) : p.id = r})
    /\ reply' = [reply EXCEPT ![r] = Cancelled]
    /\ UNCHANGED <<ask, jobs, started, flash, faults>>

\* Every request has been answered: clients stop asking.
Done ==
    /\ \A r \in Requests : reply[r].status \notin {"none", "waiting"}
    /\ UNCHANGED vars

Next ==
    \/ \E r \in Requests, a \in Asks : decisions(r, a)
    \/ admit
    \/ step
    \/ step_fails
    \/ \E r \in Requests : cancel(r)
    \/ Done

Spec == Init /\ [][Next]_vars

-----------------------------------------------------------------------------
(* What a question's answer ought to be: the question alone, read by the   *)
(* network without a batch, a layout or a mask, each option scored where   *)
(* the mask tokens of its sequence are.                                    *)

Near(layer, i, j) == is_global(layer) \/ (2 * (i - j) <= local_attention /\ 2 * (j - i) <= local_attention)

AloneLayer(x, layer) ==
    LET n     == IF layer = 0 THEN x ELSE [i \in DOMAIN x |-> Norm(layer, x[i])] \o <<>>
        theta == IF is_global(layer) THEN GLOBAL_THETA ELSE LOCAL_THETA
    IN  [i \in DOMAIN x |->
           LET seen == {j \in DOMAIN x : Near(layer, i, j)}
               y == (x[i] + Sum([j \in seen |-> AttentionTerm(layer, theta, n[i], i, n[j], j)], seen)) % P
           IN  (y + Mlp(layer, Norm(layer + 50, y))) % P] \o <<>>

AloneHead(x, layer) ==
    LET n == [i \in DOMAIN x |-> Norm(70 + layer, x[i])] \o <<>>
    IN  [i \in DOMAIN x |->
           LET y == (x[i] + Sum([j \in DOMAIN x |-> AttentionTerm(70 + layer, 0, n[i], 0, n[j], 0)], DOMAIN x)) % P
           IN  (y + Mlp(80 + layer, Norm(90 + layer, y))) % P] \o <<>>

MaskPositions(tokens) ==
    Without([i \in DOMAIN tokens |-> i], {i \in DOMAIN tokens : tokens[i] # MASK})

AloneScores(tokens, qtype) ==
    LET e == FoldLeft(LAMBDA x, l : AloneLayer(x, l - 1),
                      [i \in DOMAIN tokens |-> Norm(99, Embed(tokens[i]))] \o <<>>,
                      [l \in 1..num_hidden_layers |-> l])
        h == FoldLeft(AloneHead, [i \in DOMAIN e |-> (Norm(98, e[i]) + TypeEmb(qtype)) % P] \o <<>>,
                      [l \in 1..head_layers |-> l])
        at == MaskPositions(tokens)
        logits == [i \in DOMAIN at |-> Scorer(h[at[i]])] \o <<>>
    IN  [logits |-> logits, act |-> act(h[1], logits, Len(logits), Len(logits))]

AloneAnswers(a) ==
    LET built == Built(a)
    IN  IF \E i \in DOMAIN built : built[i].refused THEN <<>>
        ELSE Answers(a, [i \in DOMAIN built |->
                           AloneScores(built[i].tokens, index(a.questions[i].q.qtype))] \o <<>>)

Expected == [a \in Asks |-> AloneAnswers(a)]

-----------------------------------------------------------------------------
(* Properties.                                                             *)

\* Every answer is the one its question gets when it is asked alone, under
\* its own labels and in the order asked, whatever rows of whatever other
\* requests its passes carried and over however many passes its request was
\* spread (DecisionEngine::step, Laya::forward, shape_answer).
AnswersOwn ==
    \A r \in Requests : reply[r].status = "answered" => reply[r].answers = Expected[ask[r]]

\* The mask tokens of a question's sequence are its option markers and
\* nothing else: no text of a request mints one and no truncation loses one
\* (DecisionFormat::scrub and build, Job::decision_rows).  A comment on
\* EncoderRow::markers says otherwise, "the sequence legitimately contains that
\* token inside a user's state" (vapi-engine/src/encoder.rs:49); build scrubs
\* the state too, so it does not.
MarkersExact ==
    \A q \in DOMAIN queue : \A i \in DOMAIN queue[q].rows :
        LET row == queue[q].rows[i] IN
        /\ [m \in DOMAIN row.markers |-> row.markers[m] + 1] = MaskPositions(row.tokens)
        /\ Len(row.markers) = Len(labels(ask[queue[q].id].questions[i].q))

\* However long the state is, a question's sequence fits, keeps its closing
\* separator and keeps every option: each marker is followed by its option's
\* own text up to the cut all of them share (the budget in build).
OptionsKept ==
    \A q \in DOMAIN queue : \A i \in DOMAIN queue[q].rows :
        LET row   == queue[q].rows[i]
            texts == option_texts(ask[queue[q].id].questions[i].q)
            End(m) == IF m = Len(row.markers)
                      THEN Min({p \in DOMAIN row.tokens : p > row.markers[m] + 1 /\ row.tokens[p] = SEP})
                      ELSE row.markers[m + 1] + 1
            Shown(m) == SubSeq(row.tokens, row.markers[m] + 2, End(m) - 1)
            full(m) == encode(<<SPACE>> \o scrub(texts[m]))
        IN  /\ Len(row.tokens) <= config.max_len
            /\ Last(row.tokens) = SEP
            /\ \E cut \in MIN_TOKENS_PER_OPTION..(OPTION_TOKEN_CAP + 1) : \A m \in DOMAIN row.markers :
                  Shown(m) = truncate(full(m), Min({cut - 1, OPTION_TOKEN_CAP}))

\* Rows are scored in arrival order: only the oldest request is part-way
\* through, and of its rows the first ones are scored.  A short question
\* never overtakes a long one, so no supply of short ones can starve it
\* (DecisionEngine::select, ::cancel).  Two comments say otherwise, "the engine
\* that feeds this sorts by length before it fills a batch"
\* (vapi-backend-candle/src/encoder.rs:7) and "length bucketing"
\* (vapi-engine/src/encoder.rs:16); nothing sorts.
InArrivalOrder ==
    \A q \in DOMAIN queue : \A i \in DOMAIN queue[q].rows :
        queue[q].scores[i] # Unanswered => q = 1 /\ \A j \in 1..i : queue[q].scores[j] # Unanswered
=============================================================================
