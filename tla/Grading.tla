-------------------------------- MODULE Grading --------------------------------
(***************************************************************************)
(* The grade queue of one worker, from the delivery of a submission to its *)
(* acknowledgement: the handler in cmd/worker/worker.go and the goroutines *)
(* of executor.Grade (domain/services/executor.go), one per test-case      *)
(* group and one per test case, which draw their sandboxes from the grade  *)
(* pool.  SandboxPool shows what the pool promises; here it is the number  *)
(* of boxes that are free.                                                 *)
(*                                                                         *)
(* Faults of the environment (a crash, a shutdown, a file that cannot be   *)
(* written, a broker that refuses a message) are bounded by MaxFaults.     *)
(***************************************************************************)
EXTENDS Integers, Sequences, FiniteSets

CONSTANTS
    Submissions,       \* messages on the grade queue
    Groups,            \* the test-case groups of the task
    Cases,             \* its test cases
    GroupOf,           \* the group of a case; a group may have none
    Solves,            \* per submission, the cases whose program exits with 0 and
                       \* whose compare script leaves no compare_result.txt
    GradeQueueAmount,  \* GRADE_QUEUE_AMOUNT
    GroupConcurrency,  \* gradeGroupConcurrency, 4
    MaxFaults          \* bound of faults

ASSUME GradingAssumption ==
    /\ IsFiniteSet(Submissions) /\ IsFiniteSet(Cases) /\ IsFiniteSet(Groups)
    /\ GroupOf \in [Cases -> Groups]
    /\ Solves \in [Submissions -> SUBSET Cases]
    /\ GradeQueueAmount \in Nat \ {0}
    /\ GroupConcurrency \in Nat \ {0}
    /\ MaxFaults \in Nat

VARIABLES
    worker,   \* the process: "up", "stopping" (its context is cancelled), "down"
    msg,      \* per submission: "queued", "delivered", "acked" at the broker
    handler,  \* of a delivered submission: "none", "received", "grading", "replied"
    grp,      \* per submission and group: "pending", "running", "done", "failed"
    tc,       \* per submission and case: where its goroutine is
    credited, \* per submission: the groups whose score is in totalScore
    status,   \* per submission: the status under which groups add up
    replies,  \* per submission: the messages on its reply queue
    dropped,  \* submissions acknowledged though their answer was not published
    faults    \* faults so far

vars == <<worker, msg, handler, grp, tc, credited, status, replies, dropped, faults>>
grading == <<grp, tc, credited, status>>

\* The grade pool has two boxes per unit of GRADE_QUEUE_AMOUNT.
GradePoolSize == 2 * GradeQueueAmount

CaseStates == {"pending", "waitRun", "run", "waitCompare", "compare", "passed", "failed", "error"}
HasBox == {"run", "compare"}
Ended == {"passed", "failed", "error"}
Active == CaseStates \ (Ended \cup {"pending"})

CasesOf(g) == {t \in Cases : GroupOf[t] = g}

Free == GradePoolSize - Cardinality({c \in Submissions \X Cases : tc[c[1]][c[2]] \in HasBox})

\* The context of a case: the worker's, cancelled by the first error in its group
\* or by the first group that failed.
CtxDone(s, t) ==
    \/ worker = "stopping"
    \/ \E u \in CasesOf(GroupOf[t]) : tc[s][u] = "error"
    \/ \E g \in Groups : grp[s][g] = "failed"

NoReply == [status |-> "RUNNING", credited |-> {}]
GraderError == [status |-> "GRADER_ERROR", credited |-> {}]

\* A fault of the environment.
Fault == faults < MaxFaults /\ faults' = faults + 1

\* Publishing may fail by itself, or because the worker's context is cancelled.
PublishFails == Fault \/ (worker = "stopping" /\ UNCHANGED faults)

--------------------------------------------------------------------------------

\* The state of a submission's goroutines when there are none.
NoGroups == [g \in Groups |-> "pending"]
NoCases == [t \in Cases |-> "pending"]

Init ==
    /\ worker = "up"
    /\ msg = [s \in Submissions |-> "queued"]
    /\ handler = [s \in Submissions |-> "none"]
    /\ grp = [s \in Submissions |-> NoGroups]
    /\ tc = [s \in Submissions |-> NoCases]
    /\ credited = [s \in Submissions |-> {}]
    /\ status = [s \in Submissions |-> "RUN_PASSED"]
    /\ replies = [s \in Submissions |-> <<>>]
    /\ dropped = {}
    /\ faults = 0

\* The broker delivers at most GRADE_QUEUE_AMOUNT unacknowledged messages.
Deliver(s) ==
    /\ worker = "up"
    /\ msg[s] = "queued"
    /\ Cardinality({r \in Submissions : msg[r] = "delivered"}) < GradeQueueAmount
    /\ msg' = [msg EXCEPT ![s] = "delivered"]
    /\ handler' = [handler EXCEPT ![s] = "received"]
    /\ UNCHANGED <<worker, grading, replies, dropped, faults>>

\* GetTask: a task that does not exist ends the handler without an answer.
TaskNotFound(s) ==
    /\ handler[s] = "received"
    /\ handler' = [handler EXCEPT ![s] = "replied"]
    /\ dropped' = dropped \cup {s}
    /\ UNCHANGED <<worker, msg, grading, replies, faults>>

\* Any other error of GetTask is the handler's error: the message is requeued.
TaskUnavailable(s) ==
    /\ handler[s] = "received"
    /\ Fault
    /\ handler' = [handler EXCEPT ![s] = "none"]
    /\ msg' = [msg EXCEPT ![s] = "queued"]
    /\ UNCHANGED <<worker, grading, replies, dropped>>

\* Publishing an answer; the error is logged and the message acknowledged all
\* the same.
PublishAnswer(s, answer) ==
    \/ /\ replies' = [replies EXCEPT ![s] = Append(@, answer)]
       /\ UNCHANGED <<dropped, faults>>
    \/ /\ PublishFails
       /\ dropped' = dropped \cup {s}
       /\ UNCHANGED replies

\* Build fails: no such runner, no such compare script, or no files.
BuildFailed(s) ==
    /\ handler[s] = "received"
    /\ PublishAnswer(s, GraderError)
    /\ handler' = [handler EXCEPT ![s] = "replied"]
    /\ UNCHANGED <<worker, msg, grading>>

\* Build succeeds and RUNNING is published, which may fail unnoticed.
StartGrade(s) ==
    /\ handler[s] = "received"
    /\ \/ /\ replies' = [replies EXCEPT ![s] = Append(@, NoReply)]
          /\ UNCHANGED faults
       \/ PublishFails /\ UNCHANGED replies
    /\ handler' = [handler EXCEPT ![s] = "grading"]
    /\ UNCHANGED <<worker, msg, grading, dropped>>

\* Mutant: the answer is published and grading goes on.
NoCompareContinues(s) ==
    /\ handler[s] = "grading"
    /\ grp[s] = NoGroups
    /\ Len(replies[s]) < 3
    /\ PublishAnswer(s, GraderError)
    /\ UNCHANGED <<worker, msg, handler, grading>>

\* Grade without a compare script answers at once.
NoCompare(s) ==
    /\ handler[s] = "grading"
    /\ grp[s] = NoGroups
    /\ PublishAnswer(s, GraderError)
    /\ handler' = [handler EXCEPT ![s] = "replied"]
    /\ UNCHANGED <<worker, msg, grading>>

\* eg.Go of Grade: blocks while GroupConcurrency groups run, and does not ask
\* whether a group has failed.
StartGroup(s, g) ==
    /\ handler[s] = "grading"
    /\ grp[s][g] = "pending"
    /\ Cardinality({h \in Groups : grp[s][h] = "running"}) < GroupConcurrency
    /\ grp' = [grp EXCEPT ![s][g] = "running"]
    /\ UNCHANGED <<worker, msg, handler, tc, credited, status, replies, dropped, faults>>

\* eg.Go of Result: blocks while the group has as many goroutines as the pool
\* has boxes.  The goroutine asks for a box to run the program in.
StartCase(s, t) ==
    /\ grp[s][GroupOf[t]] = "running"
    /\ tc[s][t] = "pending"
    /\ Cardinality({u \in CasesOf(GroupOf[t]) : tc[s][u] \in Active}) < GradePoolSize
    /\ tc' = [tc EXCEPT ![s][t] = "waitRun"]
    /\ UNCHANGED <<worker, msg, handler, grp, credited, status, replies, dropped, faults>>

Move(s, t, to) ==
    /\ tc' = [tc EXCEPT ![s][t] = to]
    /\ UNCHANGED <<worker, msg, handler, grp, credited, status, replies, dropped>>

\* RunTestCase gets a box and initialises it.
BeginRun(s, t) ==
    /\ tc[s][t] = "waitRun"
    /\ Free > 0
    /\ ~ CtxDone(s, t)
    /\ Move(s, t, "run")
    /\ UNCHANGED faults

\* Mutant: the comparison starts before RunTestCase has returned its box.
EndRunKeepingBox(s, t) ==
    /\ tc[s][t] = "run"
    /\ Free > 0
    /\ Move(s, t, "compare")
    /\ UNCHANGED faults

\* The program is compiled and run, and the box is cleaned up.  A program that
\* fails, or is killed because the context is done, or whose files cannot be
\* written, fails the case; metadata that cannot be read are an error.
EndRun(s, t) ==
    /\ tc[s][t] = "run"
    /\ \/ Move(s, t, "waitCompare") /\ UNCHANGED faults
       \/ Move(s, t, "failed") /\ (t \notin Solves[s] \/ CtxDone(s, t)) /\ UNCHANGED faults
       \/ Move(s, t, "failed") /\ Fault
       \/ Move(s, t, "error") /\ Fault

\* Mutant: CompareOutput makes an instance without taking a box from the pool.
BeginCompareUnasked(s, t) ==
    /\ tc[s][t] = "waitCompare"
    /\ ~ CtxDone(s, t)
    /\ Move(s, t, "compare")
    /\ UNCHANGED faults

\* CompareOutput gets a box of its own.
BeginCompare(s, t) ==
    /\ tc[s][t] = "waitCompare"
    /\ Free > 0
    /\ ~ CtxDone(s, t)
    /\ Move(s, t, "compare")
    /\ UNCHANGED faults

\* Mutant: an error of the comparison counts as an empty compare result.
EndCompareSwallowed(s, t) ==
    /\ tc[s][t] = "compare"
    /\ \/ Move(s, t, "passed") /\ t \in Solves[s] /\ UNCHANGED faults
       \/ Move(s, t, "failed") /\ t \notin Solves[s] /\ UNCHANGED faults
       \/ Move(s, t, "passed") /\ Fault

\* The compare script decides, and the box is cleaned up; being killed or unable
\* to run is an error, a script that is missing fails the case.
EndCompare(s, t) ==
    /\ tc[s][t] = "compare"
    /\ \/ Move(s, t, "passed") /\ t \in Solves[s] /\ UNCHANGED faults
       \/ Move(s, t, "failed") /\ t \notin Solves[s] /\ UNCHANGED faults
       \/ Move(s, t, "error") /\ CtxDone(s, t) /\ UNCHANGED faults
       \/ Move(s, t, "error") /\ Fault
       \/ Move(s, t, "failed") /\ Fault

\* Mutant: the groups share the flag isSomeTestCaseFailed.
EndGroupSharedFlag(s, g) ==
    /\ grp[s][g] = "running"
    /\ \A t \in CasesOf(g) : tc[s][t] \in Ended
    /\ grp' = [grp EXCEPT ![s][g] =
                 IF \E t \in CasesOf(g) : tc[s][t] = "error" THEN "failed" ELSE "done"]
    /\ IF \A t \in Cases : tc[s][t] \notin {"failed", "error"}
       THEN credited' = [credited EXCEPT ![s] = @ \cup {g}] /\ UNCHANGED status
       ELSE status' = [status EXCEPT ![s] = "RUN_FAILED"] /\ UNCHANGED credited
    /\ UNCHANGED <<worker, msg, handler, tc, replies, dropped, faults>>

\* Result returns and Grade adds it up: an error fails the group, a failed case
\* costs the group its score.
EndGroup(s, g) ==
    /\ grp[s][g] = "running"
    /\ \A t \in CasesOf(g) : tc[s][t] \in Ended
    /\ \/ /\ \E t \in CasesOf(g) : tc[s][t] = "error"
          /\ grp' = [grp EXCEPT ![s][g] = "failed"]
          /\ UNCHANGED <<credited, status>>
       \/ /\ \A t \in CasesOf(g) : tc[s][t] = "passed"
          /\ grp' = [grp EXCEPT ![s][g] = "done"]
          /\ credited' = [credited EXCEPT ![s] = @ \cup {g}]
          /\ UNCHANGED status
       \/ /\ \E t \in CasesOf(g) : tc[s][t] = "failed"
          /\ \A t \in CasesOf(g) : tc[s][t] # "error"
          /\ grp' = [grp EXCEPT ![s][g] = "done"]
          /\ status' = [status EXCEPT ![s] = "RUN_FAILED"]
          /\ UNCHANGED credited
    /\ UNCHANGED <<worker, msg, handler, tc, replies, dropped, faults>>

Verdict(s) ==
    IF \E g \in Groups : grp[s][g] = "failed"
    THEN GraderError
    ELSE [status |-> status[s], credited |-> credited[s]]

\* Mutant: an error of Grade is logged but not published.
EndGradeErrorUnpublished(s) ==
    /\ handler[s] = "grading"
    /\ \A g \in Groups : grp[s][g] \in {"done", "failed"}
    /\ IF Verdict(s) = GraderError
       THEN UNCHANGED <<replies, dropped, faults>>
       ELSE PublishAnswer(s, Verdict(s))
    /\ handler' = [handler EXCEPT ![s] = "replied"]
    /\ UNCHANGED <<worker, msg, grading>>

\* Mutant: the first error is answered without waiting for the other groups.
EndGradeFirstError(s) ==
    /\ handler[s] = "grading"
    /\ \/ \A g \in Groups : grp[s][g] = "done"
       \/ \E g \in Groups : grp[s][g] = "failed"
    /\ PublishAnswer(s, Verdict(s))
    /\ handler' = [handler EXCEPT ![s] = "replied"]
    /\ UNCHANGED <<worker, msg, grading>>

\* Wait of Grade returns, its result or error is published.
EndGrade(s) ==
    /\ handler[s] = "grading"
    /\ \A g \in Groups : grp[s][g] \in {"done", "failed"}
    /\ PublishAnswer(s, Verdict(s))
    /\ handler' = [handler EXCEPT ![s] = "replied"]
    /\ UNCHANGED <<worker, msg, grading>>

\* The handler has returned nil.
Ack(s) ==
    /\ handler[s] = "replied"
    /\ handler' = [handler EXCEPT ![s] = "none"]
    /\ msg' = [msg EXCEPT ![s] = "acked"]
    /\ grp' = [grp EXCEPT ![s] = NoGroups]
    /\ tc' = [tc EXCEPT ![s] = NoCases]
    /\ credited' = [credited EXCEPT ![s] = {}]
    /\ status' = [status EXCEPT ![s] = "RUN_PASSED"]
    /\ UNCHANGED <<worker, replies, dropped, faults>>

\* The process ends: the broker requeues what it had not acknowledged.
Die ==
    /\ worker' = "down"
    /\ msg' = [s \in Submissions |-> IF msg[s] = "delivered" THEN "queued" ELSE msg[s]]
    /\ handler' = [s \in Submissions |-> "none"]
    /\ grp' = [s \in Submissions |-> NoGroups]
    /\ tc' = [s \in Submissions |-> NoCases]
    /\ credited' = [s \in Submissions |-> {}]
    /\ status' = [s \in Submissions |-> "RUN_PASSED"]
    /\ UNCHANGED <<replies, dropped>>

\* Init of a sandbox under a context that is done: its isolate commands do not
\* start, and logFatalf ends the process.
InitFatal(s, t) ==
    /\ tc[s][t] \in {"waitRun", "waitCompare"}
    /\ Free > 0
    /\ CtxDone(s, t)
    /\ Die
    /\ UNCHANGED faults

\* SIGTERM cancels the context of everything.
Shutdown ==
    /\ worker = "up"
    /\ faults < MaxFaults
    /\ faults' = faults + 1
    /\ worker' = "stopping"
    /\ UNCHANGED <<msg, handler, grading, replies, dropped>>

\* main returns, whatever its handlers do.
Exit == worker = "stopping" /\ Die /\ UNCHANGED faults

Crash ==
    /\ worker = "up"
    /\ faults < MaxFaults
    /\ faults' = faults + 1
    /\ Die

Restart ==
    /\ worker = "down"
    /\ worker' = "up"
    /\ UNCHANGED <<msg, handler, grading, replies, dropped, faults>>

Handle(s) ==
    \/ TaskNotFound(s)
    \/ TaskUnavailable(s)
    \/ BuildFailed(s)
    \/ StartGrade(s)
    \/ NoCompare(s)
    \/ EndGrade(s)
    \/ Ack(s)

Group(s, g) == StartGroup(s, g) \/ EndGroup(s, g)

Case(s, t) ==
    \/ StartCase(s, t)
    \/ BeginRun(s, t)
    \/ EndRun(s, t)
    \/ BeginCompare(s, t)
    \/ EndCompare(s, t)
    \/ InitFatal(s, t)

Next ==
    \/ \E s \in Submissions :
        \/ Deliver(s)
        \/ Handle(s)
        \/ \E g \in Groups : Group(s, g)
        \/ \E t \in Cases : Case(s, t)
    \/ Shutdown
    \/ Exit
    \/ Crash
    \/ Restart

Spec == Init /\ [][Next]_vars

\* Goroutines that can go on do, programs end (their limits see to it, and build
\* and compare scripts end by themselves), those that wait for a box are served in
\* order, the broker delivers what it holds, and a dead worker is restarted.
Fairness ==
    /\ WF_vars(Restart)
    /\ WF_vars(Exit)
    /\ \A s \in Submissions :
        /\ SF_vars(Deliver(s))
        /\ WF_vars(Handle(s))
        /\ \A g \in Groups : WF_vars(Group(s, g))
        /\ \A t \in Cases :
            /\ WF_vars(StartCase(s, t))
            /\ WF_vars(EndRun(s, t))
            /\ WF_vars(EndCompare(s, t))
            /\ SF_vars(BeginRun(s, t) \/ BeginCompare(s, t) \/ InitFatal(s, t))

FairSpec == Spec /\ Fairness

--------------------------------------------------------------------------------

Reply == [status : {"RUNNING", "RUN_PASSED", "RUN_FAILED", "GRADER_ERROR"},
          credited : SUBSET Groups]

Published(s) == {replies[s][i] : i \in DOMAIN replies[s]}
Terminal(s) == {i \in DOMAIN replies[s] : replies[s][i].status # "RUNNING"}
Solved(s) == {g \in Groups : CasesOf(g) \subseteq Solves[s]}

\* Every variable keeps to its type, and no more boxes are in use than there are.
TypeOK ==
    /\ worker \in {"up", "stopping", "down"}
    /\ msg \in [Submissions -> {"queued", "delivered", "acked"}]
    /\ handler \in [Submissions -> {"none", "received", "grading", "replied"}]
    /\ grp \in [Submissions -> [Groups -> {"pending", "running", "done", "failed"}]]
    /\ tc \in [Submissions -> [Cases -> CaseStates]]
    /\ credited \in [Submissions -> SUBSET Groups]
    /\ status \in [Submissions -> {"RUN_PASSED", "RUN_FAILED"}]
    /\ replies \in [Submissions -> Seq(Reply)]
    /\ dropped \subseteq Submissions
    /\ faults \in 0 .. MaxFaults
    /\ Free \in 0 .. GradePoolSize

\* A submission leaves the queue only with a terminal status on its reply queue,
\* whatever error ended Build, Grade or the process, unless the task was not found
\* or the broker refused the answer (worker.go: each return of the handler).
AckedAnswered ==
    \A s \in Submissions : msg[s] = "acked" => Terminal(s) # {} \/ s \in dropped

\* Whatever crashes, errors, cancellations and redeliveries came before: score is
\* given only for groups all of whose cases the submission solves, and RUN_PASSED
\* only with the score of every group.
CreditSound ==
    \A s \in Submissions : \A r \in Published(s) :
        /\ r.credited \subseteq Solved(s)
        /\ r.status = "RUN_PASSED" => r.credited = Groups

\* As long as the environment makes no fault, a submission is failed only for a
\* case it does not solve, and gets the score of every group it solves, in
\* whatever order its goroutines get boxes and return their results.
NoBlame ==
    faults = 0 =>
        \A s \in Submissions : \A r \in Published(s) :
            r.status = "RUN_FAILED" => r.credited = Solved(s) /\ Solved(s) # Groups

\* A submission gets one terminal status, and after it no other message, unless a
\* fault made the broker deliver it again: one more for each fault.
OneVerdict ==
    \A s \in Submissions :
        /\ Cardinality(Terminal(s)) <= 1 + faults
        /\ faults = 0 => Terminal(s) \subseteq {Len(replies[s])}

\* The verdicts that are right for a submission.
RightVerdicts(s) ==
    {r \in Reply :
        /\ r.status # "RUNNING" /\ r.credited \subseteq Solved(s)
        /\ r.status = "RUN_PASSED" => r.credited = Groups
        /\ r.status = "RUN_FAILED" => r.credited # Groups}

Queue == INSTANCE AnsweredQueue WITH
    Messages <- Submissions,
    Prefetch <- GradeQueueAmount,
    Interim <- {NoReply},
    Final <- [s \in Submissions |-> RightVerdicts(s)],
    place <- [s \in Submissions |->
                IF msg[s] # "delivered" THEN msg[s]
                ELSE IF handler[s] = "replied" THEN "answered" ELSE "working"],
    answers <- replies,
    lost <- dropped

\* The grade queue implements AnsweredQueue: each delivery comes to one verdict at most, which
\* is right for the submission, is lost only where dropped says so, and precedes the
\* acknowledgement; and an acknowledged submission is told nothing more, by any goroutine or
\* after any crash.
QueueSpec == Queue!Spec

\* The terminal status is published only when no goroutine of the submission is
\* left that holds a box or waits for one, in its group or another (errgroup.Wait
\* of Result and Grade).
NoOrphans ==
    \A s \in Submissions :
        handler[s] # "grading" => \A t \in Cases : tc[s][t] \notin Active

\* Every submission is acknowledged in the end: test cases take two boxes in turn
\* but never wait for one while they have another, and crashes end.
EveryGradeAnswered == \A s \in Submissions : <>(msg[s] = "acked")

\* The comment in Cleanup: "ensure cleanup always runs even if parent context is
\* canceled".  A process that was not told to stop and meets no fault ends only when no box is
\* in use: a test case's error, which cancels the context of its siblings, ends none of them
\* before its clean-up.  Crash is a fault, and Shutdown and Exit do not start from "up".
CleanupAlwaysRuns ==
    [][worker = "up" /\ worker' = "down" /\ faults' = faults => Free = GradePoolSize]_vars
================================================================================
