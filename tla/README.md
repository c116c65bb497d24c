# TLA+ models of go-grader

go-grader runs and grades programs.  A *master* takes gRPC requests and puts them
on queues of a message broker; *workers* take them off, execute the programs in
[isolate](https://github.com/ioi/isolate) sandboxes, and publish the results.  This
directory holds TLA+ models of it, their TLC configurations, and proofs.

    tlc -workers 2 -config SandboxPool.cfg MCSandboxPool     # a run
    tlapm SandboxPoolProofs.tla                              # the proofs

## Inventory

| Component | State | Operations | Interacts with | What makes it correct |
|---|---|---|---|---|
| Sandbox pools (`domain/services/isolate.go`) | two channels of box ids; box directories on disk | `NewRunInstance`, `NewGradeInstance`, `Init`, `CreateFile`, `Cleanup` | every handler; `setupCompares`, which makes a third pool | a box belongs to one goroutine; none is lost; a box has no other program's files |
| Grade executor (`domain/services/executor.go`) | goroutines per group and test case, two levels of errgroup, totals under a mutex | `Grade`, `Result`, `RunTestCase`, `CompareOutput` | grade pool, configuration directory | the verdict is what the cases deserve; every submission ends; nothing is left running |
| Run executor (same file) | - | `Run` | run pool | status and output agree |
| Worker, run and grade consumers (`cmd/worker/worker.go`) | unacknowledged messages | one handler each | broker, task service, executor | one terminal answer per message |
| Worker, runner_test and compare_test consumers | same | one handler each | broker, run pool | a terminal status ends the stream of statuses |
| Worker configuration (`internal/setup`, `executorHolder.go`, `runner.go`, `compare.go`) | the configuration directory, the executor that handlers copy | `setup.Init`, `setup.Cleanup`, `Swap`, `Get` | broadcast consumer, all handlers, run boxes | an execution sees one configuration, completely written |
| Master `Run` (`cmd/master/master.go`) | a result queue per request | gRPC stream | broker | QUEUED, then RUNNING, then one terminal status; the stream ends |
| Master `GenerateTestCases` | up to ten result queues | gRPC call | broker | one output per input, in order |
| Master `Broadcast` | - | publishes one message | broker | the configuration it announces is served |
| Result bounding (`marshalBoundedGradeResult`), limits (`domain/models/limit.go`, `getLimitArgs`), metadata (`domain/models/metadata.go`) | - | pure functions | - | bounds hold, no limit is missing, the status follows from the metadata |
| Sandbox commands (`domain/services/isolate.go`) | - | `Compile`, `Run`, `RunFromDir`, `RunWithDir`, `RunCompare` and the capture of their output | isolate, both executors, script tests | what went wrong is not taken for a good end |
| `configs/env.go` | environment | getters | - | accepts what the worker can live with |
| `configs/db.go`, logging, `internal/file`, `genproto` | - | - | - | not modelled: unused, pure I/O, or generated |

Hard behaviours: many goroutines on a bounded pool, taken twice per test case
(deadlock, starvation); cancellation by errgroup while others are about to start;
a process that ends itself on an error of isolate and leaves boxes and half-written
directories behind; redelivery of what was already answered; answers that cannot be
published; a configuration replaced under programs that read it; shutdown in the
middle of a grade.  `PROJECT.json` lists them line by line under "hazards".

## Modules

| Module | Models | |
|---|---|---|
| `BoxLease` | what the pools promise: leases of boxes | abstract |
| `SandboxPool` | `isolate.go`, and the sandboxes of `setupCompares` | implements `BoxLease` |
| `AnsweredQueue` | what the grade queue and its consumer promise for each submission | abstract |
| `Grading` | the grade handler of `worker.go` and `Grade` in `executor.go` | implements `AnsweredQueue`; the pool is its number of free boxes |
| `StatusStream` | what a client of `Run` sees | abstract |
| `RunProtocol` | `Run` in `master.go`, the run handler of `worker.go`, `Run` in `executor.go`, and the broker between them | implements `StatusStream` |
| `ScriptTests` | the handlers of runner_test and compare_test in `worker.go` | uses `IsolateCommands` |
| `ConfigReload` | start, refetch and set-up of the configuration, the executor's snapshot, and jobs that read the scripts | |
| `GenerateTestCases` | the call of that name in `master.go` | the worker is seen from its answers |
| `IsolateCommands` | what the methods of `IsolateInstance` make of the end of isolate | no state |
| `CaseVerdict` | from the outcomes of a test case to its status, in both executors | no state, uses `IsolateCommands` |
| `Settings` | `WithSafeLimits` and `getLimitArgs` | no state |
| `GradeResults` | captured output, sums of memory, size of a result | no state |
| `MC...` | the constants of a module for TLC | |
| `...Proofs` | the theorems about a module | |

### SandboxPool

`boxIds` are the Go channels (`runBoxIds`, `gradeBoxIds`, and the `runBoxIds` of the
`IsolateService` that `setupCompares` makes for itself); they are sequences with a
capacity, and a receive from an empty one or a send to a full one is not enabled.
`pc` and `box` are a goroutine's place and its `boxID`; `initialised` and `files` are
the directories on disk, the only variables that survive `Die`.  A handler asks
(`Ask`), receives an id (`NewInstance`), runs `isolate --cleanup` whose error is
ignored (`InitCleanup`) and `isolate --init` (`InitBox`), whose error ends the process
(`InitFatal`), writes and runs (`CreateFile`), and in its defer cleans up and sends the id
back (`Cleanup`), where an error again ends the process (`CleanupFatal`).  A compare's
set-up goroutine takes the same steps, or is skipped before (`SkipUnconfigured`) or
after it has its box (`SkipExisting`, which keeps the box).

isolate is outside the repository.  Assumed of it, from how `Init` uses it: `--init`
refuses a box that exists, and `--cleanup` removes a box and all its files.

### Grading

One action per step that other goroutines can see: the handler (`Deliver`,
`TaskNotFound`, `TaskUnavailable`, `BuildFailed`, `StartGrade`, `NoCompare`, `EndGrade`, `Ack`), the
errgroup of groups (`StartGroup`, `EndGroup`) and that of cases (`StartCase`), and a
case, which waits for a box to run in, runs and gives it back (`BeginRun`, `EndRun`), then
does the same to compare (`BeginCompare`, `EndCompare`).  `CtxDone` is the context a case's
commands run under: cancelled by the worker's shutdown, by an error of a case in the
group, or by a group that failed.  Receiving a box and initialising it are one step
here, since `SandboxPool` has them apart and nobody else sees the difference; under
a cancelled context the step is `InitFatal`, the end of the process.  Cases and groups
start in any order, where the code takes them in the order of the task: each order
is that of some task.

To `AnsweredQueue` a submission is queued, being worked on, answered or acknowledged; the
interim answer is RUNNING, and a final one is right if its score has solved groups only and
agrees with its status (`RightVerdicts`); an answer is lost when the broker refused it or the
task is not found (`dropped`).  Everything else, the groups, cases, boxes and faults, is
hidden.  What the refinement adds to the invariants is that it speaks of steps: no goroutine of
an earlier delivery, and no restart, says anything of a submission that is acknowledged.

The pool is one number here, which `BoxesCounted` of `SandboxPoolProofs` justifies: in
`SandboxPool` the free ids and the handlers at work always add up to the pool.

`Solves` abstracts the programs: the cases whose program exits with 0 and whose compare
script leaves no `compare_result.txt`.  Scores are sets of credited groups.

The broker and its client library are outside the repository.  Assumed of them, from
how the handlers use them: at most GRADE_QUEUE_AMOUNT messages are out at a time; a
handler that returns nil acknowledges its message; one that returns an error, or
whose process dies, has it delivered again; a message is published wholly or not at
all, and may be refused when the context is cancelled.

### RunProtocol

A call of `Run` goes from "idle" over "declared" (`CreateQueue`), "published"
(`PublishJob`), "told" (`SendQueued`) and "consuming" (`Consume`) to "returned"; every step may
fail instead, because the stream's context is done (`gone`) or by a fault.  Its message (`job`) waits in the queue
"run", is delivered to a worker (`Deliver`, within the prefetch count), and passes
through the handler: `BuildFailed`, or `StartRun` with RUNNING, then `executor.Run` with its
answer (`EndRun`), killed by a shutdown (`RunKilled`, remembered in the history `killed`) or
with an error (`RunError`), then `Ack`.  Publishing may fail at each of these places; the handler logs that and goes on
(`dropped`).  `Receive` is the handler that the master gives to `Consume`, and `StopConsuming`
every other way in which `Consume` returns.  `Crash`, `Exit` and `MasterCrash` may come at any step.

Assumed of the broker and its library, besides what Grading assumes: an auto-delete queue is
deleted when its consumer goes and not before it has had one, so that the queue of a call that
ended before `Consume` stays, though QUEUED was sent; and a message to a queue that does
not exist is discarded, without an error.  The master's handler is one step, though it sends to
`exit` before it sends to the client: that the last status is still sent is the library's part.
A worker whose connection breaks while it goes on running is not modelled, nor is the waiting
for a box, which is `SandboxPool`'s subject.

Each status that the handlers publish has a value of its own in
`executionStatusToProtoStatus` (`master.go:361`), so statuses keep their names on the stream.

### ScriptTests

The stages of the two handlers are the values of `pc`.  `Publish` is their function `publish()`:
unlike the handlers of run and grade, these return its error, and the message goes back to where
it was (`HandlerFails`).  After a stage that failed, `Fail` publishes its status; then
runner_test goes on with the next stage, where compare_test returns.  `failed` and `told` are
histories of the last delivery; `failed` has what the handler takes for a failure, and
compare_test takes none from a command that had exit code 1, was killed or ended with an error
of isolate itself, which is told as RUN_PASSED with an exit code (`worker.go:773-785`).  How a command ends is programmed per test (`BuildEnds`,
`RunEnds`); after a failure a later command may also fail, and once the worker is stopping it
may be killed or not start. `Metadata` and `Panic` are the two steps of `worker.go:642-654`: the
error is published, and then the nil pointer is used.  `Pending` is what the broker still has
for a consumer, the message that is out first; that a message given back gets its old place is
assumed of the broker, and `AnsweredInOrder` says that then the handlers keep the order.  A test whose output is larger than the
broker accepts (`Huge`) is refused and delivered again for ever; the handlers of run and grade
bound their results, these do not.

### ConfigReload

A script is the version of the configuration it came from.  `Fetch...` are the two calls of the
config service, between which it may change; `Remove...` and `Cleaned` are `setup.Cleanup`,
which removes one thing after the other; `SetupDir` to `WriteList` are `setup.Init` with a
goroutine per item; `Load` builds the services, which list what is on disk, and swaps the
executor.  A job is built from the snapshot (`Build`) and then reads its files one by one
(`Read`), whatever happens to them meanwhile.  The broadcast queue is gone when its consumer
ends (`Unbind`, `FetchFails`) and comes back with `Bind`; a broadcast in between reaches nobody.
`Start` finds the directory of the last process, or an empty one.

Bounds of the abstraction: messages that wait on the broadcast queue count as one, as each has the
whole configuration fetched; a file that was being written when the process ended counts as
missing; each runner has a run script, and there is a compare.

### GenerateTestCases

`Go` is `eg.Go` within the limit, the goroutine's steps are `CreateQueue`, `Publish`, `Receive`
and `Consumed`, and `AppendResult` is what the handler does after it has sent on `exit`.  The
library is outside the repository, and seen at its worst: `Consume` may return before the
handler has appended.  `Less` is the int32 difference of two orders with its wrap-around; where
it is no ordering, `SortFunc` promises nothing and `Sortings` has every permutation.
`overtaken` and `lost` are histories.

### The modules without state

`IsolateCommands` has one operator per method, as each judges exit codes in its own way.
`CaseVerdict` follows one test case through `RunTestCase`, `CompareOutput` and
`GetTestCaseResult`, and through `executor.Run`, over every combination of outcomes.  `Settings`
has the limits as integers, `GradeResults` texts as their lengths and int32 as integers modulo
`2 * Int32`.  `MCScriptTests` extends all of them: in initial states of their own it has a
`sample`, of which its invariants say what the module states of every input.

## Runs

| Run | Shows | Bounds |
|---|---|---|
| `pool_refetch` | conservation, capacity and leases, with crashes, fatal errors and refetches at any time | one run box, two grade boxes, more goroutines than boxes in each pool, one compare |
| `pool_stable` | exclusion, clean boxes, every waiting handler served; no refetch | the same with two compares, so that the set-up pool overlaps both other pools at start-up |
| `pool_refetch_overlap` | **violated**: set-up on refetch cleans a run's box | one goroutine of each kind |
| `pool_unlimited` | **violated**: a program without limits starves the run queue | two run goroutines, one box |
| `grading` | the grade queue as `AnsweredQueue` has it, verdicts, scores, orphans, and that every submission is acknowledged | two submissions in turn (one solves all, one fails a case), a group of two cases and one of one, two boxes, one fault |
| `grading_cancelled` | **violated**: a case's error, and no shutdown, ends the process with a box in use | two groups of two on two boxes, one fault |
| `run_protocol` | the client's stream, its truth, its end, and what is left on the broker | two calls of which one program passes, whose client may leave, and one does not compile; two workers that take one message each, one fault |
| `run_unanswered` | **violated**: an answer that cannot be published leaves the caller waiting | one call, one worker, one fault |
| `script_tests` | errors before RUN_PASSED, tests acknowledged in order and told, every test answered that fits the broker; and the modules without state | a runner test whose build fails, three compare tests (one too loud, one incomplete) in any order, two faults; samples of small numbers |
| `config_reload` | what is served after a reload, what a job reads of each item, that a broadcast is served | a runner and a compare in four versions: plain, built, gone, built; a program, a failing build, none, a program; one job, one fault |
| `generate` | complete and ordered responses, failures that leave the other runs alone, and that the call returns | three cases, two at a time, int32 of three bits, two sets of orders, one fault, a client that may go |
| `generated_error` | **violated**: the text of an error becomes an expected output | one case whose output is too large |

The bounds are enough in this sense: every pool has waiting goroutines, is empty and is full in
some state; a case waits behind another of its own group and of another group; an error meets
siblings in every state, other groups in every state, and a verdict that is already published; a
set-up dies between any two of its steps and its directory meets every later version; two orders
are equal, reversed, and further apart than int32.  `MaxFaults`, `MaxVersion` and
`Leaving`, the calls whose client may go away, are the only bounds on the behaviour itself.  One fault means a crash or a shutdown at any step, hence one
redelivery of a message that was answered or not; that more faults and larger instances change
nothing is what the theorems below say of every safety property.  The samples of `script_tests`
are exhaustive for `CaseVerdict`, whose outcomes are finite; for the others the limits are so
small (`MaxOutput`, `MaxResult`, `Int32`) that sums reach and pass them, and the theorems are
about inputs of every size.

Two cases are left to the theorems alone, as the runs would take too long with them: more than
one submission in flight (`GradeQueueAmount` is 1 in the run `grading`), and a group without
test cases, which gets its full score.

Deadlock is not checked where the work is finite and the system rightly stops when all is done:
`grading`, `run_protocol`, `script_tests`, `config_reload`, `generate`, and the violated runs of
their modules. `EveryGradeAnswered`, `CallReturns`, `EveryTestAnswered`, `RefetchServed` and
`AlwaysResponds` cover real deadlocks.

### What the violated runs say of the code

* `setup.go:136`: the set-up pool numbers its boxes from 0, as the run pool does.  At
  start-up nothing runs yet; on REFETCH_CONFIG the `isolate --cleanup` of `Init`
  (`isolate.go:178`, meant for leftovers of "a previous crashed run") removes the box of a
  run in progress.  What still holds then is proved: no box is lost and the leases
  of the handlers among themselves are kept.
* `worker.go:633`: runner_test runs with nil limits on the run pool, against what the
  comment at `worker.go:303` says of such runs.
* `isolate.go:182`: `Init` under a context that a sibling's error has cancelled is fatal to the
  process, and the clean-up that `isolate.go:196` makes sure of does not run for
  the boxes in use.  `CleanupAlwaysRuns` leaves crashes and shutdowns aside: the run shows a
  worker that was "up" all the time.
* `worker.go:400`: the error of publishing a run's answer is logged, and the message is
  acknowledged. The comment at `worker.go:380` wants that "the caller always gets a response",
  and takes care of results that are too large; for any other refusal `Run` waits until its
  client gives up.
* `master.go:334`: GenerateTestCases takes the output of a run whatever its status.
  `executor.go:212-213` keeps that output whole as it is an expected answer; the worker replaces
  one that is too large by "[result too large to return]", and this becomes the expected answer.

### What else the models show

These contradict no statement of the repository but its tests or a reader's expectation:

* TIME_LIMIT_EXCEEDED, MEMORY_LIMIT_EXCEEDED, RUNTIME_ERROR and SIGNAL_ERROR are not reached by
  a test case: isolate exits with an error whenever it sets a status, and `RunTestCase` then
  returns GRADER_ERROR (`executor.go:429-435`) before it looks at the metadata (445-461).
  `grade_test.go:274` expects TIME_LIMIT_EXCEEDED.
* A compare script that exits with 1 and leaves no `compare_result.txt` passes the case
  (`isolate.go:387-390`), whatever made it exit so, a crash included; `PassesEarned` states the
  exception.  A compare test whose script is killed, or for which isolate itself fails, is
  RUN_PASSED, with the exit code.
* A shutdown kills programs that are running, and on the way down the worker may publish
  RUN_FAILED or COMPILE_FAILED of a program that passes (`killed` in `Truthful`), or a score
  without the groups it killed; never a pass (`Truthful`, `CreditSound`).
* A compare test or runner test that prints more than the broker accepts blocks its queue
  (`BehindHuge` in `EveryTestAnswered`).
* A restart on a kept disk serves the scripts that are there (`setup.go:98-106`), a half-written
  directory and, for a compare, possibly with the new `RunName`; hence `old` in
  `UndisturbedWhole`.  A refetch heals it (`ReloadWhole`).  A compare whose build fails ends
  every worker that fetches it and leaves its directory, which the next start takes to be set
  up.
* A broadcast between the start-up's fetch and `Bind`, or whose refetch fails, is lost (`lost`).
* runner_test and compare_test have no publisher in this repository.  `RunWithEnvVars` has no
  caller.
* `configs/env.go` accepts an amount of 0 and says "greater than 0" (`env.go:80`).
* On a failed case `GetTestCaseResult` truncates Output but not Message.

## Fairness

`SandboxPool`: a goroutine that can go on does (WF); one that waits on a channel is
served in order by the Go runtime, hence SF on `NewInstance`; a program that runs
under limits ends, so its holder reaches `Cleanup`.  A goroutine in `Unlimited` has no
fairness there.  `Serve` is fair as set-up scripts are assumed to end.

`Grading`: WF on the handler and its goroutines (the Go scheduler), on the end of runs
(isolate's limits) and of build and compare scripts, which run without limits and are
assumed to end; SF on taking a box and on `Deliver`, as receivers are served in order and
the broker keeps what is not acknowledged; WF on `Restart`, which the deployment does,
and on `Exit`.  Nothing is assumed about faults.

`RunProtocol`: WF on the master's goroutines and on the handler as a whole, as programs end by
`WithSafeLimits`; SF on `Deliver`, since a worker may stop and start again while another has the
slot; WF on `Restart` and `Exit`.  A call is cancelled only by its client or a fault, and
clients are not assumed to do so: `CallReturns` does not rest on them giving up.

`ScriptTests`: WF on each consumer's delivery, on the handler of each test, whose scripts are
assumed to end, and on `Restart` and `Exit`.  WF of `Deliver` is enough as a consumer's queue is
served in order.

`ConfigReload`: WF on `Start` (the deployment), on `Bind` and `Receive` (the consumer's loop,
which tries again every two seconds) and on `Setup` as a whole: its goroutines go on and build
scripts end.  Broadcasts, saves and jobs are not assumed to happen.

`GenerateTestCases`: WF on the call, its goroutines and the workers; a call of the broker under
a context that is done ends.  `AppendResult` has no fairness: nothing waits for the handler.

## Proofs

`SandboxPoolProofs` proves, for all sizes of the pools (0 included), all sets of
goroutines and of compares, from `SandboxAssumption` alone:

* `TypeCorrect`, `Conservation`, `SendRoom`: `TypeOK`, `BoxConservation` and `SendNeverBlocks` hold,
  refetches included;
* `Exclusion`, `Integrity`: without refetches, `BoxExclusive` and `BoxIntegrity` hold;
* `LeaseRefinement`: `SandboxPool` implements `BoxLease`, refetches included;
* `BoxesCounted`: while the worker serves, the ids in a channel and the handlers with a box of
  it add up to the pool, however many handlers there are.

They rest on the inductive invariant `IndInv`, proved step by step for each action
(`Inductive`).  Conservation alone is not inductive: a receive must not hand out what
somebody holds, and that needs the ids in a channel to be distinct, none of them in a
goroutine's hands, and each goroutine's id to be of its own pool; for the set-up
pool the ids that `SkipExisting` keeps are simply gone.  `SendRoom` is a pigeonhole
argument: the ids in a channel are distinct boxes of its pool other than the one in
hand, so they are fewer than its capacity.  `BoxesCounted` is its converse: the ids in the
channel and the handlers' boxes are one-to-one with two parts of the pool.  `Exclusion` adds that no handler has a box while
set-up runs and that the run and grade pools are disjoint; `Integrity` that a box that does
not exist has no files.

`RunProtocolProofs` proves, for all finite sets of requests, all workers, all outcomes,
prefetch counts and numbers of faults, from `RunAssumption` and `NoWorkerAssumption`:

* `TypeCorrect`: `TypeOK`, with the prefetch bound, which is a matter of cardinalities of the
  sets of messages a worker holds (`PrefetchStep`);
* `StreamRefinement`, `QueuesDeleted`: `RunProtocol` implements `StatusStream`, and
  `QueueDeleted` holds.  The invariant `StreamInv` says where a call is from what it has sent:
  one that consumes has sent QUEUED and nothing terminal, and one that ended with its queue open
  nothing after QUEUED.  `CutInv` has the reason: without a fault only a client that went away
  ends a call early;
* `Truth`: `Truthful` holds.  It is not inductive, as what a client will be told waits on the
  result queue first: `TruthInv` says the same of the queue.  Who was killed stays in `killed`,
  since the wrong status may come long after the worker has ended;
* `AnswersComing`: `AnswerOnTheWay` holds.  `AnswerInv` says it from the publication on, and
  that the result queue is there as long as the call wants it.

`GradingProofs` proves every safety invariant of the run `grading` for all finite sets of
submissions, groups and cases, all pools of at least one box, and any number of faults.  The
invariant has these parts:

* `Coherent`: the cases of a group follow its state, and `credited` and `status` are exactly
  what the groups that are done amount to.  From it follow `CreditIsSound` (a case that passed
  is solved) and, with `Phased` (no goroutine outlives the grade of its handler),
  `NoOrphansLeft`;
* `Blameless`: without faults nothing is cancelled and a case fails only if it is not solved;
  with `Fair` of each reply this gives `NobodyBlamed`;
* `Told`: who was answered has a terminal status, or the answer was dropped
  (`AcknowledgedAnswered`, of `AckedAnswered`, which `QueueSpec` implies and no run repeats);
* `Paid`: verdicts are counted against faults.  A process can die without a new fault, by
  `InitFatal` or `Exit`, but only after something was cancelled, which took one: `Spoiled` keeps
  that fault in hand until the process ends (`VerdictsBounded`);
* `Boxed`: the boxes in use are no more than the pool has, by cardinalities (`TypeCorrect`).

`QueueRefinement` proves that `Grading` implements `AnsweredQueue`, step by step: the goroutines'
steps stutter, since no case or group touches a reply; what `EndGrade` publishes is right by
`Coherent`, over all of a delivery's groups at once; and a process that dies is a `Return` of all
that is out.  `Phased` is what keeps a goroutine from outliving its delivery.

`ScriptTestsProofs` has types, `ErrorsComeFirst`, `AcknowledgedTold`, `CompareVerdict` and
`MessagesInOrder` (the action property `AnsweredInOrder`), for all tests, scripts and faults.  Types need `Sorted`: a consumer's queue has messages of its own
kind only, whatever was put back, or a second handler could start.  `ErrorFirst` is not
inductive: it needs that a handler that goes on has not said RUN_PASSED, and a compare test's
nothing final (`Open`), and that what failed so far is told (`Told`).  Every step of a handler
goes on quietly, says something, or gives the message back (`Kinds`), and the invariant is
proved for these.  For the order, all of these and a crash leave `Pending` as it is, `Ack`
takes its head, and `AckedTold` of the state after gives the terminal status.

`ConfigReloadProofs` has types, `ReloadsWhole` and `JobsReadWhole`, for all runners, compares,
versions and jobs.  The invariant follows each item through the set-up: what is on disk is what
its goroutine has written so far, of the version fetched, or was there at the start (`carried`);
a directory that a goroutine has left is whole; the list names what is there; the snapshot is
what the disk held when it was loaded; and a job outside of `disturbed` reads under a phase in
which nobody writes.

`ServesNoOlder` is an action property that no run has: a process never swaps its executor for
one with an older version of any item (`NeverBack`).  Its invariant `Fresh` compares what is
served with what is fetched so far, as the runners and the compares are fetched in two calls.

`GenerateTestCasesProofs` has types, `FailuresApart` and `ResponseIsComplete`, for all
requests, limits and orders.  `FailuresStayApart` counts: each failed run took a fault of its own
unless the client had gone (`FaultEach`), and what did not fail is kept.  Each case is in exactly one place (waiting, appended or still to
be appended, failed), so that the response has each once, and all of them if nothing failed and
nobody was overtaken (`CompleteLength`, by cardinalities).  The order: if all differences are
representable, `Less` is the order of the integers (`LessMeansLess`), so the comparison is an
ordering and what `SortFunc` leaves is sorted.

`StatelessProofs` is about the modules without state, for inputs of every size: each theorem
states a module's predicate for all inputs, and that the run's property, which has it of the
samples, holds.

* `PassesSound`, `ErrorsSound`, `ExecutorsSame`: all outcomes of a test case, by cases along
  the guards of `RunTestCase`, `CompareOutput` and `ExecutorRun`; the exit code 1 of a compare
  script is the exception that `PassedIsEarned` states;
* `LimitsNeverUnbounded`: limits that are any integers;
* `OutputsExact`: any number of chunks of any size.  By induction over the chunks: the buffer is
  as long as what was written, up to its capacity, and knows exactly whether more came;
* `AveragesSound`: any number of groups and cases.  As long as the total is an int32 no partial
  sum wraps, in any grouping, so that the quotient lies between the extremes;
* `BoundedResults`: results of any number of cases of any size; without the details a result is
  never larger.

The inductions are over the length of a sequence, of recursive functions (`SumOf`, `Sum32`,
`Captured`): well-founded induction on the naturals, stated without an operator as a parameter.

Only model-checked: liveness (`BoxGranted`, `EveryGradeAnswered`, `CallReturns`,
`EveryTestAnswered`, `RefetchServed`, `AlwaysResponds`), which is out of the prover's reach.
Every safety property of a passing run has a theorem, action properties and refinements
included.

## Not modelled

* `genproto/` (about 5,600 of the 8,850 lines of the implementation): generated code without
  decisions of this program.  For this reason no model can cover much more than a third of all
  lines.  The models stand for somewhat more than half of the hand-written ones.
* Conversions between protocol buffers, JSON and the models (`worker.go:822-909`,
  `master.go:361-412`), tracing, logging, and connecting to the services: they move data from
  one shape to another.  A message that cannot be unmarshalled makes its handler return an
  error; what follows is the library's part, and the master publishes none.
* `configs/env.go` and `configs/db.go`: reading the environment, which ends the process if it is
  malformed, and a connection that nothing uses. `SandboxPool` takes the amounts as constants, 0
  included; `Grading` and `RunProtocol` assume at least 1.
* `internal/file` and `internal/logging`: pure I/O.
* The broker's client library (`CSKU-Lab/queue`) and isolate are outside the repository.  What
  the models assume of them is said above; that `Consume` waits for a handler that has sent on
  `exit` is assumed in `RunProtocol` only, and cannot be decided here.
* Averages of wall time are floats.  `NetworkAllow` is not a limit.  Texts (output, messages,
  command lines) are abstracted to what decides.
* `runResults` is read after `Wait` without its mutex: the models have the race as a late
  `AppendResult` between any two steps, not as a torn read.
