------------------------------ MODULE Delivery ------------------------------
(***************************************************************************)
(* A request from the gateway to a worker and back: the gateway's readers, *)
(* the JetStream work queue and its redelivery, the worker processes, and  *)
(* the core-NATS subjects that carry deltas and cancellations.             *)
(*                                                                         *)
(* NATS is external and is modelled by what the code asks of it.  The      *)
(* consumer all workers share hands out at most MaxAckPending messages that*)
(* are not acked, takes a message back when its ack deadline passes and    *)
(* delivers it again up to MaxDeliver times; a worker's client library     *)
(* fetches ahead of what the task has asked for.  Core NATS delivers to    *)
(* whoever is subscribed, once, and may lose a message.                    *)
(***************************************************************************)
EXTENDS WorkerProcess, GatewayStream

LOCAL INSTANCE SequencesExt
LOCAL INSTANCE FiniteSetsExt

CONSTANTS
    Workers,
    Instances,      \* deployments: [kind, workers, gateway, asks, faults], faults the ones that
                    \* may each happen once; a request that is never made has route "none"
    MaxDeliver,     \* the consumer's max_deliver
    MaxAckPending,  \* the consumer's max_ack_pending
    MaxQueued       \* gateway.max_queued_requests, 0 for no limit

ASSUME DeliveryAssumption ==
    /\ MaxDeliver \in Nat \ {0} /\ MaxAckPending \in Nat \ {0} /\ MaxQueued \in Nat
    /\ \A i \in Instances : i.kind \in Kinds /\ i.workers \subseteq Workers /\ DOMAIN i.asks = Rids

VARIABLES
    inst,     \* the workers of the deployment, and the jobs the gateway makes of what is asked
    queue,    \* rid -> its message on the work queue
    worker,   \* worker -> the process
    mail,     \* rid -> deltas on their way to the gateway
    request,  \* rid -> the gateway's side
    cache,    \* response-cache key -> the text stored
    faults    \* fault -> whether it may still happen or has happened

vars == <<inst, queue, worker, mail, request, cache, faults>>

Faults == {"crash", "shutdown", "late", "lost", "timeout", "disconnect", "step", "fork", "publish",
           "cache_off"}

\* A message is free to be handed out, held without an ack, acked, or out of
\* deliveries; sent counts deliveries.
Message(state, sent) == [state |-> state, sent |-> sent]
NoEntry == <<"no entry">>

job == inst.jobs

Init ==
    \E i \in Instances :
        /\ inst = [workers |-> i.workers, jobs |-> [r \in Rids |-> Accept(i.gateway, i.asks[r])]]
        /\ worker = [w \in Workers |-> IF w \in i.workers THEN NewWorker(i.kind)
                                      ELSE Stopped(NewWorker(i.kind))]
        /\ request = [r \in Rids |-> IF i.asks[r].route = "none"
                                     THEN Ended(NewRequest(job[r]), "absent") ELSE NewRequest(job[r])]
        /\ cache = [k \in {job[r].key : r \in Rids} |-> NoEntry]
        /\ queue = [r \in Rids |-> Message("none", 0)]
        /\ mail = [r \in Rids |-> <<>>]
        /\ faults = [f \in Faults |-> IF f \in i.faults THEN "armed" ELSE "off"]

Fault(f) == faults[f] = "armed" /\ faults' = [faults EXCEPT ![f] = "used"]

----------------------------------------------------------------------------
(***************************************************************************)
(* The queue and the subjects.                                             *)
(***************************************************************************)
Queued == Cardinality({r \in Rids : request[r].slot})
Pending == Cardinality({r \in Rids : queue[r].state = "pending"})

Ack(q, rids) == [r \in Rids |-> IF r \in rids THEN [q[r] EXCEPT !.state = "acked"] ELSE q[r]]

\* Core NATS hands a cancellation to every worker that is up.
CancelSent(ws, r) ==
    [w \in Workers |-> IF ws[w].up THEN [ws[w] EXCEPT !.cancels = Append(@, r)] ELSE ws[w]]

\* A request's state after a step of its reader, with the cancellation its
\* guard publishes when it ends and the mail nobody is subscribed to any more.
GatewayStep(r, q) ==
    /\ request' = [request EXCEPT ![r] = q]
    /\ worker' = IF Cancels(q, job[r]) THEN CancelSent(worker, r) ELSE worker

----------------------------------------------------------------------------
(***************************************************************************)
(* The gateway.                                                            *)
(***************************************************************************)
Refuse(r) ==
    /\ request[r].phase = "new" /\ job[r].kind = "refused"
    /\ request' = [request EXCEPT ![r] = Ended(@, "invalid")]
    /\ UNCHANGED <<inst, queue, worker, mail, cache, faults>>

\* The cache may be switched off while the gateway runs.
Caching == faults["cache_off"] # "used"
cached(r) == Caching /\ job[r].key # NoKey /\ cache[job[r].key] # NoEntry

\* Answered from the response cache (replay_chat).
CacheHit(r) ==
    /\ request[r].phase = "new" /\ cached(r)
    /\ request' = [request EXCEPT ![r] =
                      Ended([@ EXCEPT !.got[0] = cache[job[r].key], !.fin[0] = "stop"], "cached")]
    /\ UNCHANGED <<inst, queue, worker, mail, cache, faults>>

\* queue_slot, then TokenStream::open.
Open(r) ==
    /\ request[r].phase = "new" /\ job[r].kind # "refused" /\ ~cached(r)
    /\ request' = [request EXCEPT ![r] =
                      IF MaxQueued > 0 /\ Queued >= MaxQueued THEN Ended(@, "refused")
                      ELSE Opened(@)]
    /\ UNCHANGED <<inst, queue, worker, mail, cache, faults>>

\* publish_job; the acknowledgement may get lost, and then the client is
\* told of an error although the job is queued.
Publish(r) ==
    /\ request[r].phase = "opened"
    /\ queue' = [queue EXCEPT ![r] = Message("queued", 0)]
    /\ \/ request' = [request EXCEPT ![r] = Published(@)] /\ UNCHANGED faults
       \/ Fault("publish") /\ request' = [request EXCEPT ![r] = Ended(@, "publish_error")]
    /\ UNCHANGED <<inst, worker, mail, cache>>

Receive(r) ==
    /\ request[r].phase = "waiting" /\ mail[r] # <<>>
    /\ \E q \in {Received(request[r], job[r], Head(mail[r]))} :
       LET msg == Head(mail[r])
       IN  /\ GatewayStep(r, q)
           /\ mail' = [mail EXCEPT ![r] = IF q.phase = "ended" THEN <<>> ELSE Tail(@)]
           /\ cache' = IF /\ Caching /\ ~Gap(request[r], msg.seq) /\ Generates(job[r])
                          /\ remember(request[r], job[r], msg.delta)
                       THEN [cache EXCEPT ![job[r].key] = request[r].deltas] ELSE cache
    /\ UNCHANGED <<inst, queue, faults>>

\* Nothing can come for r any more: its message is settled and no worker
\* has anything of it left.
Silent(r) ==
    /\ mail[r] = <<>> /\ queue[r].state \in {"acked", "dead"}
    /\ \A w \in Workers :
          /\ \A k \in DOMAIN worker[w].engine.items : worker[w].engine.items[k].rid # r
          /\ \A k \in DOMAIN worker[w].reports : worker[w].reports[k].msgs[r] = <<>>
          /\ worker[w].report.msgs[r] = <<>>
          /\ \A k \in DOMAIN worker[w].commands :
                worker[w].commands[k].c # "admit" \/ worker[w].commands[k].rid # r
          /\ \A k \in DOMAIN worker[w].buffer : worker[w].buffer[k].rid # r

\* A timeout of TokenStream::next.
TimesOut(r) ==
    /\ request[r].phase = "waiting" /\ mail[r] = <<>>
    /\ GatewayStep(r, Ended(request[r], "timeout"))
    /\ UNCHANGED <<inst, queue, mail, cache>>

\* Its budget is longer than a healthy worker takes, so it runs out when
\* nothing is coming; earlier, it is a fault.
Timeout(r) == Silent(r) /\ TimesOut(r) /\ UNCHANGED faults
EarlyTimeout(r) == TimesOut(r) /\ Fault("timeout")

\* The dashboard's setting.
CacheOff == Fault("cache_off") /\ UNCHANGED <<inst, queue, worker, mail, request, cache>>

\* The client goes away.  The guard exists once the body has been polled.
Disconnect(r) ==
    /\ request[r].phase \in {"opened", "waiting"}
    /\ Fault("disconnect")
    /\ mail' = [mail EXCEPT ![r] = <<>>]
    /\ \/ request[r].phase = "waiting" /\ GatewayStep(r, Ended(request[r], "disconnected"))
       \/ /\ ~request[r].started
          /\ request' = [request EXCEPT ![r] = Ended(@, "disconnected")]
          /\ UNCHANGED worker
    /\ UNCHANGED <<inst, queue, cache>>

----------------------------------------------------------------------------
(***************************************************************************)
(* The work queue.                                                         *)
(***************************************************************************)
\* The client library of worker w fetches a message.
Fetch(w, r) ==
    /\ worker[w].up /\ queue[r].state = "queued" /\ Pending < MaxAckPending
    /\ queue' = [queue EXCEPT ![r] = Message("pending", @.sent + 1)]
    /\ worker' = [worker EXCEPT ![w].buffer = Append(@, [rid |-> r, att |-> queue[r].sent + 1])]
    /\ UNCHANGED <<inst, mail, request, cache, faults>>

\* A worker that is up, keeps its heartbeats and holds the message in flight
\* keeps it; so does one that has fetched it and is about to take it.
Kept(r) ==
    \E w \in Workers :
        /\ worker[w].up
        /\ \/ r \in worker[w].inflight
           \/ want_work(worker[w]) /\ \E k \in DOMAIN worker[w].buffer : worker[w].buffer[k].rid = r

\* The ack deadline passes: the message is delivered again, or given up.
Expires(r) ==
    /\ queue[r].state = "pending"
    /\ queue' = [queue EXCEPT ![r].state = IF queue[r].sent < MaxDeliver THEN "queued" ELSE "dead"]
    /\ UNCHANGED <<inst, worker, mail, request, cache>>

Expire(r) == ~Kept(r) /\ Expires(r) /\ UNCHANGED faults
LateHeartbeat(r) == Kept(r) /\ Expires(r) /\ Fault("late")

----------------------------------------------------------------------------
(***************************************************************************)
(* The worker's task.                                                      *)
(***************************************************************************)
OnlyWorker(w, new) ==
    /\ \E value \in {new} : worker' = [worker EXCEPT ![w] = value]
    /\ UNCHANGED <<inst, mail, request, cache>>

TakeJob(w) ==
    /\ Selecting(worker[w]) /\ ~Drained(worker[w]) /\ want_work(worker[w])
    /\ worker[w].buffer # <<>>
    /\ OnlyWorker(w, JobTaken(worker[w])) /\ UNCHANGED <<queue, faults>>

\* Acked rather than handed to another worker.
TakeCancel(w) ==
    /\ Selecting(worker[w]) /\ ~Drained(worker[w]) /\ worker[w].cancels # <<>>
    /\ OnlyWorker(w, CancelTaken(worker[w])) /\ UNCHANGED faults
    /\ queue' = Ack(queue, {Head(worker[w].cancels)} \cap worker[w].inflight)

\* Every delta is published to whoever is subscribed; one may be lost.
TakeReport(w) ==
    /\ Selecting(worker[w]) /\ ~Drained(worker[w]) /\ worker[w].reports # <<>>
    /\ worker' = [worker EXCEPT ![w] = ReportTaken(@)]
    /\ LET msgs == Head(worker[w].reports).msgs
           to(r, q) == IF request[r].phase \in {"opened", "waiting"} THEN mail[r] \o q ELSE mail[r]
       IN  \/ mail' = [r \in Rids |-> to(r, msgs[r])] /\ UNCHANGED faults
           \/ /\ Fault("lost")
              /\ \E s \in Rids : \E k \in DOMAIN msgs[s] :
                    mail' = [r \in Rids |-> to(r, IF r = s THEN RemoveAt(msgs[r], k) ELSE msgs[r])]
    /\ UNCHANGED <<inst, queue, request, cache>>

\* Acked only now: the request has been fully served.
AckCompleted(w) ==
    /\ worker[w].up
    /\ \E r \in worker[w].acking :
          /\ OnlyWorker(w, Acked(worker[w], r))
          /\ queue' = Ack(queue, {r} \cap worker[w].inflight)
    /\ UNCHANGED faults

Shutdown(w) ==
    /\ Selecting(worker[w]) /\ ~worker[w].draining /\ Fault("shutdown")
    /\ OnlyWorker(w, [worker[w] EXCEPT !.draining = TRUE]) /\ UNCHANGED queue

DrainDeadline(w) ==
    /\ Selecting(worker[w]) /\ worker[w].draining /\ ~Drained(worker[w]) /\ ~worker[w].deadline
    /\ OnlyWorker(w, DeadlinePassed(worker[w])) /\ UNCHANGED <<queue, faults>>

\* The process ends: drained, or its engine thread is gone.
Exit(w) ==
    /\ Selecting(worker[w]) /\ (Drained(worker[w]) \/ Abandoned(worker[w]))
    /\ OnlyWorker(w, Stopped(worker[w])) /\ UNCHANGED <<queue, faults>>

Crash(w) ==
    /\ worker[w].up /\ Fault("crash")
    /\ OnlyWorker(w, Stopped(worker[w])) /\ UNCHANGED queue

\* The orchestrator starts it again.
Start(w) ==
    /\ ~worker[w].up /\ w \in inst.workers
    /\ OnlyWorker(w, NewWorker(worker[w].engine.kind)) /\ UNCHANGED <<queue, faults>>

----------------------------------------------------------------------------
(***************************************************************************)
(* The engine thread.                                                      *)
(***************************************************************************)
HandleCommand(w) ==
    /\ worker[w].thread /\ worker[w].commands # <<>>
    /\ OnlyWorker(w, Handled(worker[w], job[Head(worker[w].commands).rid]))
    /\ UNCHANGED <<queue, faults>>

\* Commands were handled and left nothing to compute.
NoStep(w) ==
    /\ ThreadReady(worker[w]) /\ is_idle(worker[w].engine)
    /\ OnlyWorker(w, Sent(worker[w])) /\ UNCHANGED <<queue, faults>>

Rows == [r \in Rids |-> job[r].rows]

Step(w) ==
    LET e == worker[w].engine
    IN  /\ ThreadReady(worker[w]) /\ ~is_idle(e)
        /\ \/ /\ e.kind = "generation"
              /\ \E S \in SUBSET DOMAIN e.items :
                    /\ S # {} \/ \E k \in DOMAIN e.items : e.items[k].gone
                    /\ \/ /\ UNCHANGED faults
                          /\ OnlyWorker(w, Stepped(worker[w], generation_step(e, S, TRUE)))
                       \/ /\ Forking(e, S) # {} /\ Fault("fork")
                          /\ OnlyWorker(w, Stepped(worker[w], generation_step(e, S, FALSE)))
           \/ /\ e.kind = "decision" /\ UNCHANGED faults
              /\ OnlyWorker(w, Stepped(worker[w], decision_step(e, Rows)))
           \/ /\ e.kind = "transcription" /\ UNCHANGED faults
              /\ OnlyWorker(w, Stepped(worker[w], transcription_step(e)))
        /\ UNCHANGED queue

\* The backend returns an error; the clip a failed transcription had taken is
\* back at the front of its queue before fail_all answers it.
FailStep(w) ==
    /\ ThreadReady(worker[w]) /\ ~is_idle(worker[w].engine) /\ Fault("step")
    /\ OnlyWorker(w, StepFailed(worker[w])) /\ UNCHANGED queue

----------------------------------------------------------------------------
Gateway(r) == Refuse(r) \/ Open(r) \/ CacheHit(r) \/ Publish(r) \/ Receive(r) \/ Timeout(r) \/ Expire(r)
Task(w) == \/ TakeJob(w) \/ TakeCancel(w) \/ TakeReport(w) \/ AckCompleted(w)
           \/ DrainDeadline(w) \/ Exit(w) \/ Start(w)
Thread(w) == HandleCommand(w) \/ NoStep(w) \/ Step(w)
Environment ==
    \/ \E r \in Rids : EarlyTimeout(r) \/ Disconnect(r) \/ LateHeartbeat(r)
    \/ \E w \in Workers : FailStep(w) \/ Shutdown(w) \/ Crash(w)
    \/ CacheOff

Work ==
    \/ \E r \in Rids : Gateway(r) \/ \E w \in Workers : Fetch(w, r)
    \/ \E w \in Workers : Task(w) \/ Thread(w)

Next == Work \/ Environment

Spec == Init /\ [][Next]_vars

\* While the gateway, a worker or the queue can do something, one of them does:
\* tasks and threads keep running, timers run out, a process that has exited is
\* started again.  Faults, clients and operators are under no obligation.
FairSpec == Spec /\ WF_vars(Work)

----------------------------------------------------------------------------
(***************************************************************************)
(* Properties.                                                             *)
(***************************************************************************)
\* The tokens of one completion: all of one generation for r, in order.
Whole(r, text, c) == \E a \in 0 .. MaxDeliver : text = [k \in 1 .. Tokens |-> <<r, a, c, k>>]

Once(r) == queue[r].sent <= 1

\* Hazards: a delta lost in transit, events of several choices in one stream,
\* a cancellation that resets the numbering, a fork that fails.  A client that
\* is told its request succeeded has every choice, and every choice that ended
\* with "stop" is one generation without a gap, a repetition or another
\* choice's token (stream.rs next, api.rs collect and sse_stream).  For a
\* request the queue delivered once.
AnswersWhole ==
    \A r \in Rids : (request[r].result = "ok" /\ Once(r) /\ Generates(job[r])) =>
        \A c \in DOMAIN request[r].fin :
            /\ request[r].fin[c] \in {"stop", "error"}
            /\ request[r].fin[c] = "stop" => Whole(r, request[r].got[c], c)

\* What envelope.rs says of the numbering: the gateway "reports a gap instead
\* of quietly serving corrupted output".  AnswersWhole for every request, also
\* one the queue delivered again after a worker had begun to answer it.
NeverCorrupted ==
    \A r \in Rids : (request[r].result = "ok" /\ Generates(job[r])) =>
        \A c \in DOMAIN request[r].fin :
            request[r].fin[c] = "stop" => Whole(r, request[r].got[c], c)

\* Everything a worker reads of a job but the question of who waits for it.
Asked(j) == [namespace |-> j.namespace, kind |-> j.kind, prompt |-> j.prompt, params |-> j.params]

\* Hazards: the answer of a request that failed, was cancelled or lost a delta
\* is kept for later requests; the key of the response cache leaves out
\* something that shapes the answer, or whose answer it is.  A request answered
\* from the cache is given a whole completion, made for a request of the same
\* caller for the same prompt under the same parameters, all of them and not
\* only the ones key hashes, whose answer is the same every time
\* (Prepared::remember, response_cache.rs key and cacheable).  For requests the
\* queue delivered once.
CacheOwn ==
    \A r \in Rids : (request[r].result = "cached" /\ \A s \in Rids : Once(s)) =>
        /\ is_deterministic(job[r].params)
        /\ \E s \in Rids : Asked(job[s]) = Asked(job[r]) /\ Whole(s, request[r].got[0], 0)

\* Hazard: an entry of inflight that nothing will complete is heartbeated
\* for ever, so its job is never redelivered and a drain never ends.  Every
\* message a worker holds is on its way to the engine, held by it, or in a
\* report that will ack it (main.rs's inflight against the engine's queues,
\* which cancel, fail_all and a rejection change separately).
InflightAccounted ==
    \A w \in Workers : worker[w].thread => \A r \in worker[w].inflight :
        \/ \E k \in DOMAIN worker[w].commands :
               worker[w].commands[k].c = "admit" /\ worker[w].commands[k].rid = r
        \/ \E k \in DOMAIN worker[w].engine.items : worker[w].engine.items[k].rid = r
        \/ r \in worker[w].report.completed \cup worker[w].acking
        \/ \E k \in DOMAIN worker[w].reports : r \in worker[w].reports[k].completed

\* Hazard: an ack without an answer, or fewer terminal events than the reader
\* counts.  When nothing more can come for a request whose reader still waits,
\* a delta was lost or the queue has given up on its job: no other
\* interleaving of crashes, drains, failing steps and cancellations of others
\* leaves a client to its timeout.  A greedy request for several choices is not
\* among the instances: admit opens one choice for it and the gateway waits for
\* n, so it always runs into the timeout (README, section 6).
NoSilentHang ==
    \A r \in Rids : (request[r].phase = "waiting" /\ Silent(r)) =>
        queue[r].state = "dead" \/ faults["lost"] = "used"

\* Everything ends: a request that was opened is answered, a job that was
\* queued is acked or given up, and a worker told to drain exits.
EverythingEnds ==
    /\ \A r \in Rids : /\ (request[r].phase = "opened") ~> (request[r].phase = "ended")
                       /\ (queue[r].state = "queued") ~> (queue[r].state \in {"acked", "dead"})
    /\ \A w \in Workers : worker[w].draining ~> ~worker[w].up
=============================================================================
