---------------------------- MODULE GatewayStream ----------------------------
(***************************************************************************)
(* The gateway's side of one request: open_and_publish, the token stream of*)
(* crates/vapi-gateway/src/stream.rs and the four readers of api.rs        *)
(* (collect, sse_stream, await_decision, await_transcription).             *)
(*                                                                         *)
(* A job is what GatewayIntake prepared.  A request is a record:           *)
(*   phase     new, opened (slot and subscription held), waiting, ended    *)
(*   slot      it holds a place in the gateway's queue                     *)
(*   expected  DeltaSeqCheck::expected                                     *)
(*   started   a first delta has arrived                                   *)
(*   got, fin  choice -> the tokens received, the finish reason            *)
(*   left      choices_left of sse_stream                                  *)
(*   deltas    choice 0's text kept for the response cache                 *)
(*   result    how it ended                                                *)
(***************************************************************************)
EXTENDS GatewayIntake, FiniteSets

Generates(job) == job.kind \in {"chat", "completion"}

NewRequest(job) ==
    [phase |-> "new", slot |-> FALSE, expected |-> 0, started |-> FALSE,
     got |-> [c \in 0 .. (job.params.n - 1) |-> <<>>],
     fin |-> [c \in 0 .. (job.params.n - 1) |-> "none"],
     left |-> job.params.n, deltas |-> <<>>, result |-> "none"]

\* The readers return: the slot and the subscription are dropped.
Ended(q, result) == [q EXCEPT !.phase = "ended", !.slot = FALSE, !.result = result]

Opened(q) == [q EXCEPT !.phase = "opened", !.slot = TRUE]
Published(q) == [q EXCEPT !.phase = "waiting"]

----------------------------------------------------------------------------
\* DeltaSeqCheck::observe.
\* Mutant of Gap: never a gap.
GapIgnored(q, seq) == FALSE

Gap(q, seq) == seq > q.expected

\* A delta for a generation request (collect).
Collected(q, job, d) ==
    CASE d.t = "started" -> [q EXCEPT !.slot = FALSE]
      [] d.t = "token" ->
            [q EXCEPT !.got[d.choice] = Append(@, d.val),
                      !.deltas = IF d.choice = 0 THEN Append(@, d.val) ELSE @]
      [] d.t = "done" ->
            LET q1 == [q EXCEPT !.fin[d.choice] = IF @ = "none" THEN d.val[1] ELSE @,
                                !.deltas = IF d.choice = 0 THEN <<>> ELSE @]
            IN  IF \A c \in DOMAIN q1.fin : q1.fin[c] # "none" THEN Ended(q1, "ok") ELSE q1
      [] d.t = "failed" -> Ended(q, "failed")
      [] OTHER -> Ended(q, "wrong_kind")

\* The same while it is streamed (sse_stream): every Done counts down.
Streamed(q, job, d) ==
    IF d.t = "done"
    THEN LET q1 == [q EXCEPT !.fin[d.choice] = d.val[1], !.left = @ - 1,
                             !.deltas = IF d.choice = 0 THEN <<>> ELSE @]
         IN  IF q1.left = 0 THEN Ended(q1, "ok") ELSE q1
    ELSE Collected(q, job, d)

\* await_decision and await_transcription; a decision must answer every
\* question.
Awaited(q, job, d) ==
    CASE d.t = "started" -> [q EXCEPT !.slot = FALSE]
      [] d.t = "failed" -> Ended(q, "failed")
      [] d.t = "decided" /\ job.kind = "decision" ->
            Ended([q EXCEPT !.got[0] = <<d.val>>], IF d.val = <<job.rows>> THEN "ok" ELSE "failed")
      [] d.t = "transcribed" /\ job.kind = "transcription" ->
            Ended([q EXCEPT !.got[0] = <<d.val>>], "ok")
      [] OTHER -> Ended(q, "wrong_kind")

\* TokenStream::next and the reader's turn of its loop.
Received(q, job, msg) ==
    LET q1 == [q EXCEPT !.expected = msg.seq + 1]
        q2 == [q1 EXCEPT !.started = TRUE]
    IN  CASE Gap(q, msg.seq) -> Ended(q1, "gap")
          [] ~Generates(job) -> Awaited(q2, job, msg.delta)
          [] job.stream -> Streamed(q2, job, msg.delta)
          [] OTHER -> Collected(q2, job, msg.delta)

\* Prepared::remember: an answer that ran to its natural end is cached.
remember(q, job, d) ==
    job.key # NoKey /\ d.t = "done" /\ d.choice = 0 /\ d.val[1] \in {"stop", "length"}

\* CancelOnDrop: a streamed generation that ends any other way than by a
\* terminal event tells the workers.
Cancels(q, job) ==
    Generates(job) /\ job.stream /\ q.phase = "ended" /\ q.result \notin {"ok", "failed"}
=============================================================================
