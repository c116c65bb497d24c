------------------------------ MODULE ScriptTests ------------------------------
(***************************************************************************)
(* The queues runner_test and compare_test of one worker                   *)
(* (cmd/worker/worker.go), on which authors try out the scripts of a       *)
(* runner or a compare.  Each queue has one handler at a time.  Unlike the *)
(* handlers of run and grade, these return the error of a publication that *)
(* fails, so that the message is delivered again; and runner_test goes on  *)
(* after it has published an error.                                        *)
(*                                                                         *)
(* Faults of the environment are bounded by MaxFaults.  The sandbox of a   *)
(* test is SandboxPool's subject.                                          *)
(***************************************************************************)
EXTENDS IsolateCommands, Sequences, FiniteSets

CONSTANTS
    RunnerTests,   \* messages on the queue runner_test
    CompareTests,  \* messages on the queue compare_test
    Incomplete,    \* compare tests without a run name or a run script
    HasBuild,      \* tests with a build script
    BuildEnds,     \* how isolate ends when it runs the build script of a test
    RunEnds,       \* and its run script
    Huge,          \* tests whose run script prints more than the broker accepts
    MaxFaults      \* bound of faults

Tests == RunnerTests \cup CompareTests
Consumers == {"runner_test", "compare_test"}

ASSUME ScriptTestsAssumption ==
    /\ IsFiniteSet(Tests) /\ RunnerTests \cap CompareTests = {}
    /\ Incomplete \subseteq CompareTests
    /\ HasBuild \subseteq Tests /\ Huge \subseteq Tests
    /\ BuildEnds \in [Tests -> Endings] /\ RunEnds \in [Tests -> Endings]
    /\ MaxFaults \in Nat

VARIABLES
    worker,  \* "up", "stopping" (its context is cancelled), "down"
    queue,   \* per consumer: the messages the broker holds, in order
    pc,      \* per test: "queued", a stage of its handler, "acked"
    failed,  \* per test: what failed in its last delivery (history)
    told,    \* per test: the statuses published in its last delivery
    faults   \* faults so far

vars == <<worker, queue, pc, failed, told, faults>>

Stages == {"received", "files", "buildFile", "build", "script", "run", "metadata",
           "nilMetadata", "finish", "returned"}
Stopped == {"killed", "unstarted"}

ConsumerOf(t) == IF t \in RunnerTests THEN "runner_test" ELSE "compare_test"
TestsOf(c) == IF c = "runner_test" THEN RunnerTests ELSE CompareTests

Orders(S) == {q \in [1 .. Cardinality(S) -> S] : \A i, j \in DOMAIN q : q[i] = q[j] => i = j}

Init ==
    /\ worker = "up"
    /\ \E p \in Orders(RunnerTests), q \in Orders(CompareTests) :
        queue = [c \in Consumers |-> IF c = "runner_test" THEN p ELSE q]
    /\ pc = [t \in Tests |-> "queued"]
    /\ failed = [t \in Tests |-> {}]
    /\ told = [t \in Tests |-> <<>>]
    /\ faults = 0

\* n faults of the environment in this step.
Faults(n) == faults + n <= MaxFaults /\ faults' = faults + n

\* Mutant: a consumer has two messages at a time.
DeliverTwo(c) ==
    /\ worker = "up"
    /\ queue[c] # <<>>
    /\ Cardinality({t \in TestsOf(c) : pc[t] \in Stages}) < 2
    /\ LET t == Head(queue[c]) IN
        /\ pc' = [pc EXCEPT ![t] = "received"]
        /\ failed' = [failed EXCEPT ![t] = {}]
        /\ told' = [told EXCEPT ![t] = <<>>]
    /\ queue' = [queue EXCEPT ![c] = Tail(@)]
    /\ UNCHANGED <<worker, faults>>

\* The broker delivers one message at a time to each consumer.
Deliver(c) ==
    /\ worker = "up"
    /\ queue[c] # <<>>
    /\ \A t \in TestsOf(c) : pc[t] \in {"queued", "acked"}
    /\ LET t == Head(queue[c]) IN
        /\ pc' = [pc EXCEPT ![t] = "received"]
        /\ failed' = [failed EXCEPT ![t] = {}]
        /\ told' = [told EXCEPT ![t] = <<>>]
    /\ queue' = [queue EXCEPT ![c] = Tail(@)]
    /\ UNCHANGED <<worker, faults>>

\* Mutant: a message whose handler returned an error is rejected for good.
HandlerFailsForGood(t) ==
    /\ pc' = [pc EXCEPT ![t] = "queued"]
    /\ UNCHANGED <<worker, queue, told>>

\* The handler returns an error: its message goes back to where it was.
HandlerFails(t) ==
    /\ pc' = [pc EXCEPT ![t] = "queued"]
    /\ queue' = [queue EXCEPT ![ConsumerOf(t)] = <<t>> \o @]
    /\ UNCHANGED <<worker, told>>

Sent(t, status, next) ==
    /\ told' = [told EXCEPT ![t] = Append(@, status)]
    /\ pc' = [pc EXCEPT ![t] = next]
    /\ UNCHANGED <<worker, queue>>

\* Mutant: the error of publish() is dropped, as the handlers of run and grade do.
PublishUnchecked(t, status, refused, n, next) ==
    \/ ~ refused /\ Sent(t, status, next) /\ Faults(n)
    \/ /\ pc' = [pc EXCEPT ![t] = next]
       /\ Faults(IF refused \/ worker = "stopping" THEN n ELSE n + 1)
       /\ UNCHANGED <<worker, queue, told>>

\* publish(), in a step with n faults already: the handler goes on, or returns
\* the error.  It may fail by itself, because the context is cancelled, or because
\* the broker refuses the message.
Publish(t, status, refused, n, next) ==
    \/ ~ refused /\ Sent(t, status, next) /\ Faults(n)
    \/ /\ HandlerFails(t)
       /\ Faults(IF refused \/ worker = "stopping" THEN n ELSE n + 1)

\* Whether a message with the output of the run script is too large.  A script that
\* runs after something failed may print nothing, and that of a compare test may have
\* been stopped without a note of it.
TooLarge(t) ==
    IF t \notin Huge THEN {FALSE}
    ELSE IF failed[t] = {} /\ t \in RunnerTests THEN {TRUE} ELSE BOOLEAN

\* What the broker still has for a consumer, the message that is out first.
Pending(c) ==
    LET out == {t \in TestsOf(c) : pc[t] \in Stages} IN
    IF out = {} THEN queue[c] ELSE <<CHOOSE t \in out : TRUE>> \o queue[c]

\* The process ends: what was delivered goes back.
Die ==
    /\ worker' = "down"
    /\ pc' = [t \in Tests |-> IF pc[t] \in Stages THEN "queued" ELSE pc[t]]
    /\ queue' = [c \in Consumers |-> Pending(c)]
    /\ UNCHANGED <<failed, told>>

\* compare_test answers at once when it has no run name or no run script.
Reject(t) ==
    /\ pc[t] = "received"
    /\ t \in Incomplete
    /\ Publish(t, "GRADER_ERROR", FALSE, 0, "returned")
    /\ failed' = [failed EXCEPT ![t] = {"received"}]

\* Init of the sandbox, which is fatal under a cancelled context, and RUNNING.
Begin(t) ==
    /\ pc[t] = "received"
    /\ t \notin Incomplete
    /\ \/ worker = "up" /\ Publish(t, "RUNNING", FALSE, 0, "files") /\ UNCHANGED failed
       \/ worker = "stopping" /\ Die /\ UNCHANGED faults

NextStage(t, stage) ==
    CASE stage = "files" -> IF t \in HasBuild THEN "buildFile" ELSE "script"
      [] stage = "buildFile" -> "build"
      [] stage = "build" -> "script"
      [] stage = "script" -> "run"
      [] stage = "run" -> IF t \in RunnerTests THEN "metadata" ELSE "finish"
      [] OTHER -> "finish"

StatusOf(stage) ==
    CASE stage = "build" -> "COMPILE_FAILED"
      [] stage = "run" -> "RUNTIME_ERROR"
      [] OTHER -> "GRADER_ERROR"

\* A stage does its work, or the handler takes it for done, in a step with n faults.
Pass(t, stage, n) ==
    /\ pc[t] = stage
    /\ pc' = [pc EXCEPT ![t] = NextStage(t, stage)]
    /\ Faults(n)
    /\ UNCHANGED <<worker, queue, failed, told>>

\* Mutant: an error of Compile is not published.
FailSilent(t, stage, cause, refused, n, next) ==
    /\ failed' = [failed EXCEPT ![t] = @ \cup {stage} \cup cause]
    /\ \/ stage = "build" /\ pc' = [pc EXCEPT ![t] = next] /\ Faults(n) /\ UNCHANGED <<worker, queue, told>>
       \/ /\ stage # "build"
          /\ Publish(t, StatusOf(stage), refused, n, IF t \in RunnerTests THEN next ELSE "returned")

\* Mutant: compare_test goes on after an error, as runner_test does.
FailGoesOn(t, stage, cause, refused, n, next) ==
    /\ failed' = [failed EXCEPT ![t] = @ \cup {stage} \cup cause]
    /\ Publish(t, StatusOf(stage), refused, n, next)

\* A stage fails and its status is published; then runner_test goes on with the
\* next stage, compare_test is done.
Fail(t, stage, cause, refused, n, next) ==
    /\ failed' = [failed EXCEPT ![t] = @ \cup {stage} \cup cause]
    /\ Publish(t, StatusOf(stage), refused, n, IF t \in RunnerTests THEN next ELSE "returned")

\* The payload's files are written (a runner test may miss several of them, with a
\* status for each), or build_script.sh, or run_script.sh.
WriteFiles(t) ==
    \E stage \in {"files", "buildFile", "script"} :
        /\ pc[t] = stage
        /\ \/ Pass(t, stage, 0)
           \/ \E next \in {NextStage(t, stage)} \cup ({stage} \cap {"files"}) :
                Fail(t, stage, {}, FALSE, 1, next)

\* How isolate may end: as the script says, worse when something failed before it,
\* or stopped with the worker.
Ends(t, programmed) ==
    {programmed}
        \cup (IF failed[t] # {} THEN {"failed", "notFound"} ELSE {})
        \cup (IF worker = "stopping" THEN Stopped ELSE {})

\* What does not come to an error passes: for RunCompare that is any exit of isolate but
\* 127, a failure of its own and a kill included.
Command(t, stage, programmed, Err(_)) ==
    /\ pc[t] = stage
    /\ \E e \in Ends(t, programmed) \cup {"internal"} :
        LET n == IF e \in Ends(t, programmed) THEN 0 ELSE 1
            refused == IF stage = "run" /\ e \in {"ok", "failed", "killed"} THEN TooLarge(t) ELSE {FALSE}
        IN \/ Err(e) = "none" /\ Pass(t, stage, n)
           \/ /\ Err(e) # "none"
              /\ \E r \in refused : Fail(t, stage, {e} \cap Stopped, r, n, NextStage(t, stage))

Build(t) == Command(t, "build", BuildEnds[t], CompileErr)

Run(t) ==
    IF t \in RunnerTests
    THEN Command(t, "run", RunEnds[t], RunErr)
    ELSE Command(t, "run", RunEnds[t], RunCompareErr)

\* runner_test reads the metadata file, which a killed isolate may not have written.
Metadata(t) ==
    /\ pc[t] = "metadata"
    /\ \/ Pass(t, "metadata", 0) /\ "unstarted" \notin failed[t]
       \/ Fail(t, "metadata", {}, FALSE, IF failed[t] \cap Stopped = {} THEN 1 ELSE 0, "nilMetadata")

\* It goes on without metadata, and dereferences nil.
Panic(t) == pc[t] = "nilMetadata" /\ Die /\ UNCHANGED faults

Finish(t) ==
    /\ pc[t] = "finish"
    /\ \E r \in TooLarge(t) : Publish(t, "RUN_PASSED", r, 0, "returned")
    /\ UNCHANGED failed

Ack(t) ==
    /\ pc[t] = "returned"
    /\ pc' = [pc EXCEPT ![t] = "acked"]
    /\ UNCHANGED <<worker, queue, failed, told, faults>>

\* SIGTERM cancels the context of everything, and main returns whatever runs.
Shutdown ==
    /\ worker = "up"
    /\ Faults(1)
    /\ worker' = "stopping"
    /\ UNCHANGED <<queue, pc, failed, told>>

Exit == worker = "stopping" /\ Die /\ UNCHANGED faults

Crash == worker = "up" /\ Faults(1) /\ Die

Restart ==
    /\ worker = "down"
    /\ worker' = "up"
    /\ UNCHANGED <<queue, pc, failed, told, faults>>

Handle(t) ==
    \/ Reject(t)
    \/ Begin(t)
    \/ WriteFiles(t)
    \/ Build(t)
    \/ Run(t)
    \/ Metadata(t)
    \/ Panic(t)
    \/ Finish(t)
    \/ Ack(t)

Next ==
    \/ \E c \in Consumers : Deliver(c)
    \/ \E t \in Tests : Handle(t)
    \/ Shutdown
    \/ Exit
    \/ Crash
    \/ Restart

Spec == Init /\ [][Next]_vars

\* A handler that can go on does, scripts end, the broker delivers what it holds to
\* a worker that is up (consumers are started again after an error), and a worker
\* that stops or is down comes back.
Fairness ==
    /\ WF_vars(Restart)
    /\ WF_vars(Exit)
    /\ \A c \in Consumers : WF_vars(Deliver(c))
    /\ \A t \in Tests : WF_vars(Handle(t))

FairSpec == Spec /\ Fairness

--------------------------------------------------------------------------------

Statuses == {"RUNNING", "RUN_PASSED", "GRADER_ERROR", "COMPILE_FAILED", "RUNTIME_ERROR"}

Terminals(t) == {i \in DOMAIN told[t] : told[t][i] # "RUNNING"}

\* Every variable keeps to its type, and each consumer has one handler at most.
TypeOK ==
    /\ worker \in {"up", "stopping", "down"}
    /\ queue \in [Consumers -> Seq(Tests)]
    /\ pc \in [Tests -> Stages \cup {"queued", "acked"}]
    /\ failed \in [Tests -> SUBSET (Stages \cup Stopped)]
    /\ told \in [Tests -> Seq(Statuses)]
    /\ faults \in 0 .. MaxFaults
    /\ \A s, t \in Tests :
        pc[s] \in Stages /\ pc[t] \in Stages /\ ConsumerOf(s) = ConsumerOf(t) => s = t

\* runner_test publishes RUN_PASSED even after a failed build or run.  Whoever takes
\* the first terminal status is not misled: if it is RUN_PASSED, nothing that the handler
\* takes for a failure came before.  What compare_test takes for none, RUN_PASSED only
\* tells with an exit code: any exit of the script but 127, and a kill of it or a failure
\* of isolate itself (isolate.go:354-360).
ErrorFirst ==
    \A t \in Tests : \A i \in Terminals(t) :
        told[t][i] = "RUN_PASSED" /\ (\A j \in Terminals(t) : i <= j) => failed[t] = {}

\* A test leaves its queue only when the delivery that ended has published a terminal
\* status, RUN_PASSED or that of a failure, whatever failed on the way.
AckedTold ==
    \A t \in Tests : pc[t] = "acked" => Terminals(t) # {}

\* A test leaves its consumer only in its turn and when the delivery that ends has
\* published a terminal status, RUN_PASSED or that of a failure: no failed publication,
\* panic or crash loses a message, lets a later one pass it, or has it twice.
AnsweredInOrder ==
    [][\A c \in Consumers :
        \/ Pending(c)' = Pending(c)
        \/ /\ Pending(c) # <<>> /\ Pending(c)' = Tail(Pending(c))
           /\ LET t == Head(Pending(c)) IN pc'[t] = "acked" /\ Terminals(t) # {}]_vars

\* compare_test publishes one terminal status in a delivery, and nothing after it.
OneVerdict ==
    \A t \in CompareTests : Terminals(t) \subseteq {Len(told[t])}

\* A test that prints too much is refused and requeued for ever, and holds up those
\* behind it.
BehindHuge(t) ==
    \E h \in Huge \cap TestsOf(ConsumerOf(t)) :
        LET q == queue[ConsumerOf(t)] IN
        \E j \in DOMAIN q : q[j] = t /\ (pc[h] \in Stages \/ \E i \in 1 .. j : q[i] = h)

\* Every other test is acknowledged in the end: errors of publications, panics and
\* crashes deliver it again, but not for ever.
EveryTestAnswered ==
    \A t \in Tests \ Huge : <>(pc[t] = "acked" \/ BehindHuge(t))
================================================================================
