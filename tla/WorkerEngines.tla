---------------------------- MODULE WorkerEngines ----------------------------
(***************************************************************************)
(* What the three engines of crates/vapi-worker answer, and when they call *)
(* a request completed: engine.rs (generation), decision.rs (decisions) and*)
(* transcribe.rs (transcription), behind the WorkerEngine trait of         *)
(* runner.rs.  How the generation engine computes tokens is Scheduler's    *)
(* subject; here a generation is Tokens tokens long and a step advances any*)
(* set of the sequences.                                                   *)
(*                                                                         *)
(* An engine is a record:                                                  *)
(*   kind       which engine the worker runs                               *)
(*   items      what it holds, in order of arrival: the sequences of the   *)
(*              generation engine, the queue of the other two              *)
(*   delta_seq  rid -> next number of the request's stream                 *)
(*   open       rid -> open_choices, 0 when there is no entry              *)
(* An item is [rid, att, choice, made, forks, gone]: att tells generations *)
(* of the same request apart (an unseeded one differs every time), made    *)
(* counts its tokens (rows scored, for a decision), forks is its           *)
(* pending_forks and gone marks a cancelled sequence not yet drained.      *)
(***************************************************************************)
EXTENDS GatewayIntake, FiniteSets

LOCAL INSTANCE SequencesExt
LOCAL INSTANCE FiniteSetsExt

CONSTANTS
    Rids,               \* requests
    Tokens,             \* tokens of one completion
    MaxConcurrentSeqs,  \* cfg.worker.max_concurrent_seqs
    MaxRows             \* rows one decision pass carries

ASSUME WorkerEnginesAssumption ==
    /\ Tokens \in Nat \ {0}
    /\ MaxConcurrentSeqs \in Nat \ {0}
    /\ MaxRows \in Nat \ {0}

Kinds == {"generation", "decision", "transcription"}

NewEngine(kind) ==
    [kind |-> kind, items |-> <<>>,
     delta_seq |-> [r \in Rids |-> 0], open |-> [r \in Rids |-> 0]]

\* A delta of request r's stream, before it is numbered; v is a tuple of what it
\* carries.
Delta(t, c, v) == [t |-> t, choice |-> c, val |-> v]
Failed == Delta("failed", 0, <<>>)

\* What a step, an admission or a failure hands back (StepOutput): the events
\* of every request in order, and the requests that are answered.
Output(events, completed) == [events |-> events, completed |-> completed]
NoEvents == [r \in Rids |-> <<>>]

\* F(v), with v evaluated once.
Bind(v, F(_)) == CHOOSE y \in {F(x) : x \in {v}} : TRUE

----------------------------------------------------------------------------
is_idle(e) == e.items = <<>>

\* Finished sequences have left running and waiting; the queues of the other
\* engines hold only what is still to be answered.
headroom(e) ==
    LET live == Len(SelectSeq(e.items, LAMBDA i : ~i.gone))
    IN  IF live >= MaxConcurrentSeqs THEN 0 ELSE MaxConcurrentSeqs - live

\* DeltaSeq::next over the events of one step.
sequence(e, events) ==
    [engine |-> [e EXCEPT !.delta_seq = [r \in Rids |-> @[r] + Len(events[r])]],
     msgs |-> [r \in Rids |->
                 [k \in DOMAIN events[r] |->
                    [seq |-> e.delta_seq[r] + k - 1, delta |-> events[r][k]]]]]

forget(e, rids) ==
    [e EXCEPT !.delta_seq = [r \in Rids |-> IF r \in rids THEN 0 ELSE @[r]]]

----------------------------------------------------------------------------
(***************************************************************************)
(* Admission and cancellation.                                             *)
(***************************************************************************)
\* The generation engine does not look at the kind of a job; one without a
\* prompt is refused by the scheduler.  The other two check theirs.
generation_admits(job) == job.prompt # <<>>
decision_admits(job) == job.kind = "decision" /\ job.rows > 0
transcription_admits(job) == job.kind = "transcription" /\ job.audio > 0

admissible(e, job) ==
    CASE e.kind = "generation" -> generation_admits(job)
      [] e.kind = "decision" -> decision_admits(job)
      [] e.kind = "transcription" -> transcription_admits(job)

\* Greedy choices would be identical, so only a request that samples forks.
open_choices(job) == IF is_greedy(job.params) THEN 1 ELSE job.params.n

admit(e, r, job, att) ==
    LET gen == e.kind = "generation"
        item == [rid |-> r, att |-> IF is_deterministic(job.params) THEN 0 ELSE att, choice |-> 0, made |-> 0,
                 forks |-> IF gen THEN open_choices(job) - 1 ELSE 0, gone |-> FALSE]
    IN  [e EXCEPT !.items = Append(@, item),
                  !.open = IF gen THEN [@ EXCEPT ![r] = open_choices(job)] ELSE @,
                  !.delta_seq = IF gen THEN [@ EXCEPT ![r] = 0] ELSE @]

\* A cancelled sequence is finished and drained by the next step; the queues
\* drop the request at once and answer nothing.
cancel(e, r) ==
    IF e.kind = "generation"
    THEN [e EXCEPT !.items = [k \in DOMAIN @ |->
                                 IF @[k].rid = r THEN [@[k] EXCEPT !.gone = TRUE] ELSE @[k]]]
    ELSE [e EXCEPT !.items = SelectSeq(@, LAMBDA i : i.rid # r)]

\* Mutant of fail_all: answers, but completes nothing.
FailAllIncomplete(e) ==
    [engine |-> [e EXCEPT !.items = <<>>],
     out |-> Output([r \in Rids |->
                        [k \in DOMAIN SelectSeq(e.items, LAMBDA i : i.rid = r) |-> Failed]], {})]

\* One Failed for every sequence or queued request.
fail_all(e) ==
    [engine |-> [e EXCEPT !.items = <<>>],
     out |-> Output([r \in Rids |->
                        [k \in DOMAIN SelectSeq(e.items, LAMBDA i : i.rid = r) |-> Failed]],
                    {e.items[k].rid : k \in DOMAIN e.items})]

----------------------------------------------------------------------------
(***************************************************************************)
(* A generation step over the sequences at positions S.  It samples one    *)
(* token each, forks the choices of a request after its first token (or    *)
(* answers the ones it cannot fork), and drains what has finished.  A fork *)
(* that fails does so at its first child, for want of a block: the         *)
(* children that a later failure leaves behind belong to no stream and     *)
(* publish nothing, and what becomes of them is Scheduler's subject.       *)
(***************************************************************************)
Runs(e, S, k) == k \in S /\ ~e.items[k].gone
Sampled(e, S) ==
    [k \in DOMAIN e.items |->
        IF Runs(e, S, k) THEN [e.items[k] EXCEPT !.made = @ + 1, !.forks = 0] ELSE e.items[k]]

\* The positions that fork in this step.
Forking(e, S) == {k \in DOMAIN e.items : Runs(e, S, k) /\ e.items[k].forks > 0}
Forks(e, k) ==
    [c \in 1 .. e.items[k].forks |->
        [e.items[k] EXCEPT !.choice = c, !.made = 1, !.forks = 0]]

finished(i) == i.gone \/ i.made >= Tokens

Concat(q, op(_)) == FlattenSeq([k \in DOMAIN q |-> op(k)])

StartedEvents(e, S, r) ==
    LET started(k) == IF e.items[k].rid = r /\ Runs(e, S, k) /\ e.items[k].made = 0
                      THEN <<Delta("started", 0, <<>>)>> ELSE <<>>
    IN  Concat(e.items, started)

TokenDelta(i) == Delta("token", i.choice, <<i.rid, i.att, i.choice, i.made>>)
TokenEvents(e, S, r) ==
    LET token(k) == IF e.items[k].rid = r /\ Runs(e, S, k)
                    THEN <<TokenDelta(Sampled(e, S)[k])>> ELSE <<>>
    IN  Concat(e.items, token)

\* Mutant of ForkEvents: the choices that cannot run are not closed.
ForkEventsOnlyTokens(e, S, r, forked) ==
    LET fork(k) == IF e.items[k].rid = r /\ k \in Forking(e, S) /\ forked
                   THEN [c \in 1 .. e.items[k].forks |-> TokenDelta(Forks(e, k)[c])] ELSE <<>>
    IN  Concat(e.items, fork)

\* fork_request sends every choice's first token; when it fails, the choices
\* that will never run are closed.
ForkEvents(e, S, r, forked) ==
    LET fork(k) ==
            IF e.items[k].rid = r /\ k \in Forking(e, S)
            THEN [c \in 1 .. e.items[k].forks |->
                     IF forked THEN TokenDelta(Forks(e, k)[c]) ELSE Delta("done", c, <<"error">>)]
            ELSE <<>>
    IN  Concat(e.items, fork)

DoneEvents(items, r) ==
    LET done(k) == IF items[k].rid = r /\ finished(items[k])
                   THEN <<Delta("done", items[k].choice,
                                <<IF items[k].gone THEN "cancelled" ELSE "stop">>)>>
                   ELSE <<>>
    IN  Concat(items, done)

\* Whether the request is completed by draining that many of its sequences.
Completed(open, drained) == drained > 0 /\ drained >= open

generation_step(e, S, forked) ==
    LET fork(k) == IF forked /\ k \in Forking(e, S) THEN Forks(e, k) ELSE <<>>
        unforked(r) == ~forked /\ \E k \in Forking(e, S) : e.items[k].rid = r
        opened(r) == IF unforked(r) THEN 1 ELSE e.open[r]
        result(items, drained) ==
            LET closed(r) == Completed(opened(r), drained[r])
            IN  [engine |-> [e EXCEPT
                    !.items = SelectSeq(items, LAMBDA i : ~finished(i)),
                    !.open = [r \in Rids |-> IF closed(r) THEN 0 ELSE opened(r) - drained[r]]],
                 out |-> Output([r \in Rids |-> StartedEvents(e, S, r) \o TokenEvents(e, S, r)
                                        \o ForkEvents(e, S, r, forked) \o DoneEvents(items, r)],
                        {r \in Rids : closed(r)})]
        drain(items) == Bind([r \in Rids |-> Len(DoneEvents(items, r))], LAMBDA d : result(items, d))
    IN  Bind(Sampled(e, S) \o Concat(e.items, fork), drain)

----------------------------------------------------------------------------
(***************************************************************************)
(* A decision pass: the next MaxRows unanswered rows in arrival order, and *)
(* an answer for every request whose rows are all in.  rows says how many  *)
(* questions a request asks.                                               *)
(***************************************************************************)
\* Rows of the item at position k that this pass carries (select).
Picked(e, rows, k) ==
    LET before == FoldSet(LAMBDA j, sum : sum + rows[e.items[j].rid] - e.items[j].made,
                          0, 1 .. (k - 1))
        left == rows[e.items[k].rid] - e.items[k].made
    IN  IF before >= MaxRows THEN 0
        ELSE IF before + left > MaxRows THEN MaxRows - before ELSE left

decision_step(e, rows) ==
    LET items == [k \in DOMAIN e.items |->
                     [e.items[k] EXCEPT !.made = @ + Picked(e, rows, k)]]
        answered(k) == items[k].made >= rows[items[k].rid]
        started(k) == e.items[k].made = 0 /\ Picked(e, rows, k) > 0
        events(r) ==
            LET start(k) == IF items[k].rid = r /\ started(k)
                            THEN <<Delta("started", 0, <<>>)>> ELSE <<>>
                answer(k) == IF items[k].rid = r /\ answered(k)
                             THEN <<Delta("decided", 0, <<items[k].made>>)>> ELSE <<>>
            IN  Concat(items, start) \o Concat(items, answer)
    IN  [engine |-> [e EXCEPT !.items = SelectSeq(items, LAMBDA i : i.made < rows[i.rid])],
         out |-> Output([r \in Rids |-> events(r)],
                        {items[k].rid : k \in {j \in DOMAIN items : answered(j)}})]

\* One clip a step, from the front.
transcription_step(e) ==
    LET r == Head(e.items).rid
    IN  [engine |-> [e EXCEPT !.items = Tail(@)],
         out |-> Output([NoEvents EXCEPT ![r] = <<Delta("started", 0, <<>>),
                                                  Delta("transcribed", 0, <<"text">>)>>], {r})]
=============================================================================
