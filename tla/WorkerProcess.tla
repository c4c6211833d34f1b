---------------------------- MODULE WorkerProcess ----------------------------
(***************************************************************************)
(* One worker process: the task of crates/vapi-worker/src/main.rs and the  *)
(* engine thread of runner.rs, with the two channels between them.         *)
(*                                                                         *)
(* A worker is a record:                                                   *)
(*   up, draining, deadline   the task runs; it drains; the drain timer ran*)
(*   buffer    jobs the client library has fetched, [rid, att] in order    *)
(*   cancels   cancellations received and not yet handled                  *)
(*   inflight  requests whose JetStream message is held, not yet acked     *)
(*   acking    completed requests of the report being handled              *)
(*   commands, reports   the channels                                      *)
(*   room      the headroom atomic                                         *)
(*   thread    the engine thread runs                                      *)
(*   engine    its engine                                                  *)
(*   report    what this iteration of the thread has to report             *)
(*   dirty     this iteration has handled a command                        *)
(*   failures  failures_in_a_row                                           *)
(***************************************************************************)
EXTENDS WorkerEngines

LOCAL INSTANCE SequencesExt
LOCAL INSTANCE FiniteSetsExt

CONSTANT MaxStepFailures    \* cfg.worker.max_step_failures, 0 for no limit

ASSUME WorkerProcessAssumption == MaxStepFailures \in Nat

Report(msgs, completed) == [msgs |-> msgs, completed |-> completed]
NoReport == Report(NoEvents, {})

NewWorker(kind) ==
    [up |-> TRUE, draining |-> FALSE, deadline |-> FALSE,
     buffer |-> <<>>, cancels |-> <<>>, inflight |-> {}, acking |-> {},
     commands |-> <<>>, reports |-> <<>>, room |-> headroom(NewEngine(kind)),
     thread |-> TRUE, engine |-> NewEngine(kind), report |-> NoReport,
     dirty |-> FALSE, failures |-> 0]

\* The process is gone, and with it everything it held.
Stopped(w) == [NewWorker(w.engine.kind) EXCEPT !.up = FALSE, !.thread = FALSE]

Command(c, r, att) == [c |-> c, rid |-> r, att |-> att]

----------------------------------------------------------------------------
(***************************************************************************)
(* The engine thread.                                                      *)
(***************************************************************************)
\* Stamp the events, forget what is completed, and add both to the report.
Reported(w, e, out) ==
    LET add(stamped) == [w EXCEPT
            !.engine = forget(stamped.engine, out.completed),
            !.report = Report([r \in Rids |-> @.msgs[r] \o stamped.msgs[r]],
                              @.completed \cup out.completed)]
    IN  Bind(sequence(e, out.events), add)

\* The next command (handle); job is the job an Admit carries.
Handled(w, job) ==
    LET cmd == Head(w.commands)
        w1 == [w EXCEPT !.commands = Tail(@), !.dirty = TRUE]
        failed == fail_all(w.engine)
    IN  CASE cmd.c = "admit" ->
                IF admissible(w.engine, job)
                THEN [w1 EXCEPT !.engine = admit(@, cmd.rid, job, cmd.att)]
                ELSE Reported(w1, w.engine,
                              Output([NoEvents EXCEPT ![cmd.rid] = <<Failed>>], {cmd.rid}))
          [] cmd.c = "cancel" ->
                [w1 EXCEPT !.engine = forget(cancel(@, cmd.rid), {cmd.rid})]
          [] cmd.c = "fail_all" -> Reported(w1, failed.engine, failed.out)

\* The end of an iteration: the headroom is stored and the report sent.  A
\* report with nothing in it only refreshes gauges.
Sent(w) ==
    [w EXCEPT !.room = headroom(w.engine), !.dirty = FALSE, !.report = NoReport,
              !.reports = IF w.report = NoReport THEN @ ELSE Append(@, w.report)]

ThreadReady(w) == w.thread /\ w.commands = <<>> /\ (w.dirty \/ ~is_idle(w.engine))

\* A step that returned result.
Stepped(w, result) ==
    Bind(result, LAMBDA x : Bind(Reported([w EXCEPT !.failures = 0], x.engine, x.out), Sent))

\* A step that failed: everything in flight is answered, and the thread gives
\* up after too many in a row, the last report sent first.
StepFailed(w) ==
    LET failed == fail_all(w.engine)
        w1 == Reported([w EXCEPT !.failures = @ + 1], failed.engine, failed.out)
        over == MaxStepFailures > 0 /\ w1.failures >= MaxStepFailures
    IN  IF over
        THEN [w1 EXCEPT !.thread = FALSE, !.dirty = FALSE, !.report = NoReport,
                        !.reports = Append(@, w1.report)]
        ELSE Sent(w1)

----------------------------------------------------------------------------
(***************************************************************************)
(* The task.  It handles one arm of its select at a time, so nothing else  *)
(* happens while it is still acking a report's requests.                   *)
(***************************************************************************)
Selecting(w) == w.up /\ w.acking = {}

want_work(w) == ~w.draining /\ w.room > 0

\* A command for a thread that is gone is dropped with its channel.
ToThread(w, cmd) == [w EXCEPT !.commands = IF w.thread THEN Append(@, cmd) ELSE @]

\* The next job: into inflight and to the engine, or the process ends with
\* its thread.
JobTaken(w) ==
    LET msg == Head(w.buffer)
    IN  IF w.thread
        THEN ToThread([w EXCEPT !.buffer = Tail(@), !.inflight = @ \cup {msg.rid}],
                      Command("admit", msg.rid, msg.att))
        ELSE Stopped(w)

\* Mutant of CancelTaken: the message stays in flight.
CancelTakenKept(w) ==
    ToThread([w EXCEPT !.cancels = Tail(@)], Command("cancel", Head(w.cancels), 0))

CancelTaken(w) ==
    LET r == Head(w.cancels)
    IN  ToThread([w EXCEPT !.cancels = Tail(@), !.inflight = @ \ {r}], Command("cancel", r, 0))

\* The drain timer fires once.
DeadlinePassed(w) ==
    ToThread([w EXCEPT !.deadline = TRUE], Command("fail_all", CHOOSE r \in Rids : TRUE, 0))

ReportTaken(w) ==
    [w EXCEPT !.reports = Tail(@), !.acking = Head(w.reports).completed]

Acked(w, r) == [w EXCEPT !.acking = @ \ {r}, !.inflight = @ \ {r}]

\* When the loop ends: drained, or the thread's channel is closed and empty.
Drained(w) == w.draining /\ w.inflight = {}
Abandoned(w) == ~w.thread /\ w.reports = <<>>
=============================================================================
