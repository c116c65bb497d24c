------------------------------- MODULE RunProtocol -------------------------------
(***************************************************************************)
(* The way of a run: a gRPC call of Run at the master (cmd/master/master.go), *)
(* a message on the broker's queue "run", the run handler of a worker      *)
(* (cmd/worker/worker.go) with executor.Run (domain/services/executor.go), *)
(* and the statuses that come back on a result queue of the request's own. *)
(*                                                                         *)
(* The clients of the requests in Leaving may go away at any time.  Faults *)
(* of the environment (crashes, shutdowns, files that cannot be written, a *)
(* broker that refuses) are bounded by MaxFaults.                          *)
(***************************************************************************)
EXTENDS Integers, Sequences, FiniteSets

CONSTANTS
    Requests,        \* calls of Run
    Workers,         \* worker processes
    Outcome,         \* what comes of a request's program
    RunQueueAmount,  \* RUN_QUEUE_AMOUNT
    Leaving,         \* bound: the requests whose client may go away
    MaxFaults        \* bound of faults

Outcomes == {"RUN_PASSED", "RUN_FAILED", "COMPILE_FAILED", "TOO_LARGE"}

ASSUME RunAssumption ==
    /\ IsFiniteSet(Requests)
    /\ Outcome \in [Requests -> Outcomes]
    /\ RunQueueAmount \in Nat \ {0}
    /\ Leaving \subseteq Requests
    /\ MaxFaults \in Nat

VARIABLES
    call,         \* the call: "idle", "declared", "published", "told", "consuming",
                  \* "returned"
    gone,         \* requests whose client has gone, so that the stream's context is done
    stream,       \* the statuses sent to the client
    resultQueue,  \* the result queue: "none", "open", "deleted"
    results,      \* the statuses on it
    job,          \* the message on queue "run": "none", "queued", "acked", or with a
                  \* handler: "received", "running", "answered"
    at,           \* the worker whose handler has it, or NoWorker
    worker,       \* "up", "stopping" (its context is cancelled), "down"
    dropped,      \* requests whose answer was not published
    killed,       \* requests of which a stopping worker killed a command (history)
    faults        \* faults so far

vars == <<call, gone, stream, resultQueue, results, job, at, worker, dropped, killed, faults>>
masterVars == <<call, gone, stream>>
resultVars == <<resultQueue, results>>
jobVars == <<job, at>>

CONSTANT NoWorker
ASSUME NoWorkerAssumption == NoWorker \notin Workers

Terminal == {"RUN_PASSED", "RUN_FAILED", "COMPILE_FAILED", "GRADER_ERROR"}
InHandler == {"received", "running", "answered"}

\* A fault of the environment.
Fault == faults < MaxFaults /\ faults' = faults + 1

--------------------------------------------------------------------------------

Init ==
    /\ call = [r \in Requests |-> "idle"]
    /\ gone = {}
    /\ stream = [r \in Requests |-> <<>>]
    /\ resultQueue = [r \in Requests |-> "none"]
    /\ results = [r \in Requests |-> <<>>]
    /\ job = [r \in Requests |-> "none"]
    /\ at = [r \in Requests |-> NoWorker]
    /\ worker = [w \in Workers |-> "up"]
    /\ dropped = {}
    /\ killed = {}
    /\ faults = 0

\* A call of the broker under the stream's context fails when that is done.
CallFails(r) == (r \in gone /\ UNCHANGED faults) \/ Fault

\* Run makes the payload and declares the result queue, or returns an error.
CreateQueue(r) ==
    /\ call[r] = "idle"
    /\ \/ /\ call' = [call EXCEPT ![r] = "declared"]
          /\ resultQueue' = [resultQueue EXCEPT ![r] = "open"]
          /\ UNCHANGED faults
       \/ /\ CallFails(r)
          /\ call' = [call EXCEPT ![r] = "returned"]
          /\ UNCHANGED resultQueue
    /\ UNCHANGED <<gone, stream, results, jobVars, worker, dropped, killed>>

\* Run publishes the message, or returns an error.
PublishJob(r) ==
    /\ call[r] = "declared"
    /\ \/ /\ call' = [call EXCEPT ![r] = "published"]
          /\ job' = [job EXCEPT ![r] = "queued"]
          /\ UNCHANGED faults
       \/ /\ CallFails(r)
          /\ call' = [call EXCEPT ![r] = "returned"]
          /\ UNCHANGED job
    /\ UNCHANGED <<gone, stream, resultVars, at, worker, dropped, killed>>

Send(r, s) == stream' = [stream EXCEPT ![r] = Append(@, s)]

\* Mutant: Run consumes the results at once and sends QUEUED when it comes to it.
SendQueuedLate(r) ==
    /\ \/ /\ call[r] = "published"
          /\ call' = [call EXCEPT ![r] = "consuming"]
          /\ UNCHANGED stream
       \/ /\ call[r] = "consuming"
          /\ \A i \in DOMAIN stream[r] : stream[r][i] # "QUEUED"
          /\ Send(r, "QUEUED")
          /\ UNCHANGED call
    /\ UNCHANGED <<gone, resultVars, jobVars, worker, dropped, killed, faults>>

\* Run sends QUEUED; when the client is gone, it returns.
SendQueued(r) ==
    /\ call[r] = "published"
    /\ IF r \in gone
       THEN call' = [call EXCEPT ![r] = "returned"] /\ UNCHANGED stream
       ELSE call' = [call EXCEPT ![r] = "told"] /\ Send(r, "QUEUED")
    /\ UNCHANGED <<gone, resultVars, jobVars, worker, dropped, killed, faults>>

\* Run becomes the consumer of the result queue, or returns the error of Consume: then
\* the queue has never had a consumer.
Consume(r) ==
    /\ call[r] = "told"
    /\ \/ call' = [call EXCEPT ![r] = "consuming"] /\ UNCHANGED faults
       \/ CallFails(r) /\ call' = [call EXCEPT ![r] = "returned"]
    /\ UNCHANGED <<gone, stream, resultVars, jobVars, worker, dropped, killed>>

\* The result queue is auto-delete: it goes with its last consumer, once it has had one.
DeleteQueue(r) ==
    /\ resultQueue' = [resultQueue EXCEPT ![r] = "deleted"]
    /\ results' = [results EXCEPT ![r] = <<>>]

\* Run passes a result on, and returns after a terminal one.
Receive(r) ==
    /\ call[r] = "consuming"
    /\ results[r] # <<>>
    /\ r \notin gone
    /\ Send(r, Head(results[r]))
    /\ IF Head(results[r]) \in Terminal
       THEN /\ call' = [call EXCEPT ![r] = "returned"]
            /\ DeleteQueue(r)
       ELSE /\ results' = [results EXCEPT ![r] = Tail(@)]
            /\ UNCHANGED <<call, resultQueue>>
    /\ UNCHANGED <<gone, jobVars, worker, dropped, killed, faults>>

\* The client cancels, or its connection breaks.
ClientGone(r) ==
    /\ call[r] # "returned"
    /\ r \in Leaving \ gone
    /\ gone' = gone \cup {r}
    /\ UNCHANGED <<call, stream, resultVars, jobVars, worker, dropped, killed, faults>>

\* Mutant: the result queue is not auto-delete.
StopConsumingKeepingQueue(r) ==
    /\ call[r] = "consuming"
    /\ CallFails(r)
    /\ call' = [call EXCEPT ![r] = "returned"]
    /\ UNCHANGED <<gone, stream, resultVars, jobVars, worker, dropped, killed>>

\* Consuming ends, since the context is done, the stream cannot be sent to, or the
\* broker's connection broke.
StopConsuming(r) ==
    /\ call[r] = "consuming"
    /\ CallFails(r)
    /\ call' = [call EXCEPT ![r] = "returned"]
    /\ DeleteQueue(r)
    /\ UNCHANGED <<gone, stream, jobVars, worker, dropped, killed>>

\* The master dies, and with it its calls and its consumers.
MasterCrash ==
    /\ Fault
    /\ call' = [r \in Requests |-> IF call[r] = "idle" THEN "idle" ELSE "returned"]
    /\ resultQueue' =
        [r \in Requests |-> IF call[r] = "consuming" THEN "deleted" ELSE resultQueue[r]]
    /\ results' = [r \in Requests |-> IF call[r] = "consuming" THEN <<>> ELSE results[r]]
    /\ gone' = gone \cup {r \in Requests : call[r] \notin {"idle", "returned"}}
    /\ UNCHANGED <<stream, jobVars, worker, dropped, killed>>

--------------------------------------------------------------------------------

\* Mutant: the consumer sets no prefetch count.
DeliverUnbounded(r, w) ==
    /\ job[r] = "queued"
    /\ worker[w] = "up"
    /\ job' = [job EXCEPT ![r] = "received"]
    /\ at' = [at EXCEPT ![r] = w]
    /\ UNCHANGED <<masterVars, resultVars, worker, dropped, killed, faults>>

\* The broker delivers at most RUN_QUEUE_AMOUNT unacknowledged messages to a worker.
Deliver(r, w) ==
    /\ job[r] = "queued"
    /\ worker[w] = "up"
    /\ Cardinality({q \in Requests : at[q] = w}) < RunQueueAmount
    /\ job' = [job EXCEPT ![r] = "received"]
    /\ at' = [at EXCEPT ![r] = w]
    /\ UNCHANGED <<masterVars, resultVars, worker, dropped, killed, faults>>

\* A message to a queue that is gone is discarded.
Reply(r, s) ==
    /\ results' = [results EXCEPT ![r] = IF resultQueue[r] = "open" THEN Append(@, s) ELSE @]
    /\ UNCHANGED resultQueue

\* Publishing may fail by itself, or because the worker's context is cancelled.
PublishFails(r) == (worker[at[r]] = "stopping" /\ UNCHANGED faults) \/ Fault

\* Publishing the answer; the error is logged and the handler returns nil all the
\* same.
PublishAnswer(r, s) ==
    /\ job' = [job EXCEPT ![r] = "answered"]
    /\ \/ Reply(r, s) /\ UNCHANGED <<dropped, faults>>
       \/ PublishFails(r) /\ dropped' = dropped \cup {r} /\ UNCHANGED resultVars
    /\ UNCHANGED <<masterVars, at, worker>>

\* Build fails: no such runner, or no files.
BuildFailed(r) ==
    job[r] = "received" /\ PublishAnswer(r, "GRADER_ERROR") /\ UNCHANGED killed

\* Build succeeds and RUNNING is published, which may fail unnoticed.
StartRun(r) ==
    /\ job[r] = "received"
    /\ \/ Reply(r, "RUNNING") /\ UNCHANGED faults
       \/ PublishFails(r) /\ UNCHANGED resultVars
    /\ job' = [job EXCEPT ![r] = "running"]
    /\ UNCHANGED <<masterVars, at, worker, dropped, killed>>

\* The status of a program that was left to run, an oversized result replaced.
StatusOf(r) == IF Outcome[r] = "TOO_LARGE" THEN "GRADER_ERROR" ELSE Outcome[r]

\* Mutant: any error of the program's run counts as its end.
EndRunErrorPasses(r) ==
    /\ job[r] = "running"
    /\ \/ PublishAnswer(r, StatusOf(r))
       \/ worker[at[r]] = "stopping" /\ PublishAnswer(r, "RUN_PASSED")
    /\ UNCHANGED killed

\* executor.Run has an answer.
EndRun(r) ==
    job[r] = "running" /\ PublishAnswer(r, StatusOf(r)) /\ UNCHANGED killed

\* The commands of a worker that is stopping are killed: the status is that of the
\* command that was, and GRADER_ERROR when it did not start.
RunKilled(r) ==
    /\ job[r] = "running"
    /\ worker[at[r]] = "stopping"
    /\ \E s \in {"COMPILE_FAILED", "RUN_FAILED", "GRADER_ERROR"} : PublishAnswer(r, s)
    /\ killed' = killed \cup {r}

\* Files cannot be written, or metadata not be read: Run returns an error.  The same
\* fault may keep the answer from being published.
RunError(r) ==
    /\ job[r] = "running"
    /\ Fault
    /\ job' = [job EXCEPT ![r] = "answered"]
    /\ \/ Reply(r, "GRADER_ERROR") /\ UNCHANGED dropped
       \/ dropped' = dropped \cup {r} /\ UNCHANGED resultVars
    /\ UNCHANGED <<masterVars, at, worker, killed>>

\* Mutant: the message is acknowledged when it is taken.
AckEarly(r) ==
    /\ job[r] \in InHandler
    /\ job' = [job EXCEPT ![r] = "acked"]
    /\ at' = [at EXCEPT ![r] = NoWorker]
    /\ UNCHANGED <<masterVars, resultVars, worker, dropped, killed, faults>>

\* The handler has returned nil.
Ack(r) ==
    /\ job[r] = "answered"
    /\ job' = [job EXCEPT ![r] = "acked"]
    /\ at' = [at EXCEPT ![r] = NoWorker]
    /\ UNCHANGED <<masterVars, resultVars, worker, dropped, killed, faults>>

\* A worker ends: the broker requeues what it had not acknowledged.
Die(w) ==
    /\ worker' = [worker EXCEPT ![w] = "down"]
    /\ job' = [r \in Requests |-> IF at[r] = w THEN "queued" ELSE job[r]]
    /\ at' = [r \in Requests |-> IF at[r] = w THEN NoWorker ELSE at[r]]
    /\ UNCHANGED <<masterVars, resultVars, dropped, killed>>

\* SIGTERM cancels the context of everything.
Shutdown(w) ==
    /\ worker[w] = "up"
    /\ Fault
    /\ worker' = [worker EXCEPT ![w] = "stopping"]
    /\ UNCHANGED <<masterVars, resultVars, jobVars, dropped, killed>>

\* main returns, or Init of a sandbox fails under the cancelled context.
Exit(w) == worker[w] = "stopping" /\ Die(w) /\ UNCHANGED faults

Crash(w) == worker[w] = "up" /\ Fault /\ Die(w)

Restart(w) ==
    /\ worker[w] = "down"
    /\ worker' = [worker EXCEPT ![w] = "up"]
    /\ UNCHANGED <<masterVars, resultVars, jobVars, dropped, killed, faults>>

Call(r) ==
    \/ CreateQueue(r)
    \/ PublishJob(r)
    \/ SendQueued(r)
    \/ Consume(r)
    \/ Receive(r)
    \/ StopConsuming(r)

Handle(r) ==
    \/ BuildFailed(r)
    \/ StartRun(r)
    \/ EndRun(r)
    \/ RunKilled(r)
    \/ RunError(r)
    \/ Ack(r)

Next ==
    \/ \E r \in Requests : Call(r) \/ ClientGone(r) \/ Handle(r) \/ \E w \in Workers : Deliver(r, w)
    \/ \E w \in Workers : Shutdown(w) \/ Exit(w) \/ Crash(w) \/ Restart(w)
    \/ MasterCrash

Spec == Init /\ [][Next]_vars

\* The master's goroutines and the handlers go on when they can, programs end by
\* their limits (WithSafeLimits), the broker delivers what it holds, and workers
\* that ended are started again.  Clients come and go as they like.
Fairness ==
    /\ \A r \in Requests :
        /\ WF_vars(CreateQueue(r))
        /\ WF_vars(PublishJob(r))
        /\ WF_vars(SendQueued(r))
        /\ WF_vars(Consume(r))
        /\ WF_vars(Receive(r))
        /\ WF_vars(r \in gone /\ StopConsuming(r))
        /\ WF_vars(Handle(r))
        /\ SF_vars(\E w \in Workers : Deliver(r, w))
    /\ \A w \in Workers : WF_vars(Exit(w)) /\ WF_vars(Restart(w))

FairSpec == Spec /\ Fairness

--------------------------------------------------------------------------------

Statuses == {"QUEUED", "RUNNING"} \cup Terminal
CallStages == {"idle", "declared", "published", "told", "consuming", "returned"}

\* Every variable keeps to its type, and a worker has no more messages than it asked
\* for, each of them with a handler.
TypeOK ==
    /\ call \in [Requests -> CallStages]
    /\ gone \subseteq Requests
    /\ stream \in [Requests -> Seq(Statuses)]
    /\ resultQueue \in [Requests -> {"none", "open", "deleted"}]
    /\ results \in [Requests -> Seq(Statuses \ {"QUEUED"})]
    /\ job \in [Requests -> {"none", "queued", "acked"} \cup InHandler]
    /\ at \in [Requests -> Workers \cup {NoWorker}]
    /\ worker \in [Workers -> {"up", "stopping", "down"}]
    /\ dropped \subseteq Requests
    /\ killed \subseteq Requests
    /\ faults \in 0 .. MaxFaults
    /\ \A r \in Requests : job[r] \in InHandler <=> at[r] # NoWorker
    /\ \A w \in Workers : Cardinality({r \in Requests : at[r] = w}) <= RunQueueAmount

Client == INSTANCE StatusStream

\* What a client sees is a StatusStream, whatever is delivered twice, answered late
\* or cancelled: QUEUED first, though the message is published before (Run), and
\* nothing after a terminal status.
StreamShape == Client!Spec

Seen(r) == {stream[r][i] : i \in DOMAIN stream[r]}
Waiting(r) == {results[r][i] : i \in DOMAIN results[r]}

\* A client is told its program's own status, or that it could not be run, whatever
\* crashes, is delivered or answered twice.  The exception are the runs of which a worker
\* that is stopping killed a command (worker.go:812): these may be told as failed, in the
\* compilation or in the run, though the program passes; but never as passed.
Truthful ==
    \A r \in Requests : \A s \in Seen(r) \cap Terminal :
        \/ s \in {StatusOf(r), "GRADER_ERROR"}
        \/ r \in killed /\ s \in {"COMPILE_FAILED", "RUN_FAILED"}

\* While a client waits, its answer is on the way: the message is still queued or with
\* a handler, or the terminal status is on the result queue, unless it could not be
\* published.
AnswerOnTheWay ==
    \A r \in Requests :
        call[r] \in {"told", "consuming"} =>
            \/ job[r] \in {"queued"} \cup InHandler
            \/ Waiting(r) \cap Terminal # {}
            \/ r \in dropped

\* A result queue outlives its call only if the client's departure or a fault ended the
\* call before it consumed (master.go:200-220): a call that has passed on a single result
\* leaves no queue behind, however it ends.
QueueDeleted ==
    \A r \in Requests :
        call[r] = "returned" /\ resultQueue[r] = "open" =>
            /\ stream[r] \in {<<>>, <<"QUEUED">>}
            /\ r \in gone \/ faults > 0

\* A call whose client was told QUEUED returns, be it with a terminal status or without, unless
\* its answer could not be published.
CallReturns ==
    \A r \in Requests : call[r] = "told" ~> call[r] = "returned" \/ r \in dropped

\* The comment at worker.go:380-383: "so the caller always gets a response".
CallerAlwaysAnswered ==
    \A r \in Requests : call[r] = "told" ~> call[r] = "returned"
==================================================================================
