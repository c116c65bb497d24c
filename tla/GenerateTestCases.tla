--------------------------- MODULE GenerateTestCases ---------------------------
(***************************************************************************)
(* One call of GenerateTestCases at the master (cmd/master/master.go): a   *)
(* run for every test case, at most Limit of them at a time, each with a   *)
(* result queue of its own, and the outputs sorted into one response.      *)
(*                                                                         *)
(* The workers are those of RunProtocol, seen from the result queues.  The *)
(* broker's library is seen at its worst: when a handler has sent on exit, *)
(* Consume may return before the handler does.                             *)
(***************************************************************************)
EXTENDS Integers, Sequences, FiniteSets

CONSTANTS
    N,          \* test cases of the request
    Limit,      \* of the errgroup
    Orders,     \* sequences of orders that the request may give them
    HalfRange,  \* int32 goes from -HalfRange to HalfRange - 1
    Answer,     \* what the run of a test case answers
    MaxFaults   \* bound of faults

Cases == 1 .. N

\* The whole output of a program that passed, what is said of one that failed or was
\* stopped, and "[result too large to return]".
Answers == {"whole", "message", "tooLarge"}

ASSUME GenerateAssumption ==
    /\ N \in Nat /\ Limit \in Nat \ {0} /\ HalfRange \in Nat \ {0} /\ MaxFaults \in Nat
    /\ Orders # {} /\ Orders \subseteq [Cases -> - HalfRange .. HalfRange - 1]
    /\ Answer \in [Cases -> Answers]

VARIABLES
    order,      \* of the request
    started,    \* test cases for which eg.Go has returned
    at,         \* where the goroutine of a test case is
    failed,     \* those that returned an error
    appending,  \* test cases whose handler has sent on exit and not appended yet
    overtaken,  \* those whose Consume returned before that (history)
    runResults, \* what the handlers appended
    stage,      \* of the call: "running", "sorted", "responded", "error"
    response,
    gone,       \* whether the client has gone, so that the context is done
    job,        \* the message on queue "run": "none", "queued", "taken", "answered"
    results,    \* what is on the result queue of a test case
    lost,       \* test cases with an answer that was not published
    faults

call == <<order, started, stage, response>>
handlers == <<appending, overtaken, runResults>>
worker == <<job, results, lost>>
vars == <<call, at, failed, handlers, gone, worker, faults>>

Fault == faults < MaxFaults /\ faults' = faults + 1

Init ==
    /\ order \in Orders
    /\ started = 0 /\ at = [c \in Cases |-> "waiting"] /\ failed = {}
    /\ appending = {} /\ overtaken = {} /\ runResults = <<>>
    /\ stage = "running" /\ response = <<>> /\ gone = FALSE
    /\ job = [c \in Cases |-> "none"] /\ results = [c \in Cases |-> <<>>] /\ lost = {}
    /\ faults = 0

--------------------------------------------------------------------------------

Busy == {c \in Cases : at[c] \notin {"waiting", "returned"}}

\* Mutant: no SetLimit.
GoUnlimited ==
    /\ started < N
    /\ started' = started + 1
    /\ at' = [at EXCEPT ![started + 1] = "begun"]
    /\ UNCHANGED <<order, stage, response, failed, handlers, gone, worker, faults>>

\* eg.Go waits until there are less than Limit goroutines.
Go ==
    /\ started < N
    /\ Cardinality(Busy) < Limit
    /\ started' = started + 1
    /\ at' = [at EXCEPT ![started + 1] = "begun"]
    /\ UNCHANGED <<order, stage, response, failed, handlers, gone, worker, faults>>

\* Mutant: the goroutines share the context of their group, as with errgroup.WithContext,
\* so that all of them fail with the first.
FailsTogether(c) ==
    /\ at[c] \in {"begun", "declared", "consuming"}
    /\ ((gone \/ failed # {}) /\ UNCHANGED faults) \/ Fault
    /\ at' = [at EXCEPT ![c] = "returned"]
    /\ failed' = failed \cup {c}
    /\ results' = [results EXCEPT ![c] = <<>>]
    /\ UNCHANGED <<call, handlers, gone, job, lost>>

\* A call of the broker fails: the goroutine returns the error, the others go on.
Fails(c) ==
    /\ at[c] \in {"begun", "declared", "consuming"}
    /\ (gone /\ UNCHANGED faults) \/ Fault
    /\ at' = [at EXCEPT ![c] = "returned"]
    /\ failed' = failed \cup {c}
    /\ results' = [results EXCEPT ![c] = <<>>]
    /\ UNCHANGED <<call, handlers, gone, job, lost>>

\* The goroutine makes its payload and declares its result queue.
CreateQueue(c) ==
    /\ at[c] = "begun"
    /\ at' = [at EXCEPT ![c] = "declared"]
    /\ UNCHANGED <<call, failed, handlers, gone, worker, faults>>

Publish(c) ==
    /\ at[c] = "declared"
    /\ at' = [at EXCEPT ![c] = "consuming"]
    /\ job' = [job EXCEPT ![c] = "queued"]
    /\ UNCHANGED <<call, failed, handlers, gone, results, lost, faults>>

\* Mutant: the handler does not send on exit.
ReceiveNoExit(c) ==
    /\ at[c] = "consuming" /\ results[c] # <<>>
    /\ results' = [results EXCEPT ![c] = Tail(@)]
    /\ UNCHANGED <<call, at, failed, handlers, gone, job, lost, faults>>

\* The handler of the result queue: RUNNING is let pass, anything else ends Consume.
Receive(c) ==
    /\ at[c] = "consuming" /\ results[c] # <<>>
    /\ IF Head(results[c]) = "RUNNING"
       THEN /\ results' = [results EXCEPT ![c] = Tail(@)]
            /\ UNCHANGED <<at, appending>>
       ELSE /\ at' = [at EXCEPT ![c] = "exited"]
            /\ appending' = appending \cup {c}
            /\ UNCHANGED results
    /\ UNCHANGED <<call, failed, overtaken, runResults, gone, job, lost, faults>>

\* It appends the output, whatever the status.
AppendResult(c) ==
    /\ c \in appending
    /\ appending' = appending \ {c}
    /\ runResults' = Append(runResults, [id |-> c, output |-> Head(results[c])])
    /\ UNCHANGED <<call, at, failed, overtaken, gone, worker, faults>>

\* Consume returns nil.
Consumed(c) ==
    /\ at[c] = "exited"
    /\ at' = [at EXCEPT ![c] = "returned"]
    /\ overtaken' = overtaken \cup (appending \cap {c})
    /\ UNCHANGED <<call, failed, appending, runResults, gone, worker, faults>>

--------------------------------------------------------------------------------

\* int(a.Order - b.Order) is negative: the difference of two int32 wraps around.
Less(a, b) ==
    (order[a.id] - order[b.id] + HalfRange) % (2 * HalfRange) < HalfRange

\* What SortFunc promises of, needs Less to be a strict weak ordering.
Ordering(S) ==
    \A a, b, c \in S :
        /\ ~ (Less(a, b) /\ Less(b, a))
        /\ Less(a, c) => Less(a, b) \/ Less(b, c)

\* The sequences that slices.SortFunc may leave.
Sortings(s) ==
    LET perms == {p \in [DOMAIN s -> DOMAIN s] : \A i, j \in DOMAIN s : p[i] = p[j] => i = j}
        all == {[i \in DOMAIN s |-> s[p[i]]] : p \in perms}
    IN IF Ordering({s[i] : i \in DOMAIN s})
       THEN {t \in all : \A i, j \in DOMAIN s : i < j => ~ Less(t[j], t[i])}
       ELSE all

AllReturned == started = N /\ \A c \in Cases : at[c] = "returned"

\* Mutant: the results are not sorted.
WaitUnsorted ==
    /\ stage = "running" /\ AllReturned
    /\ stage' = IF failed # {} THEN "error" ELSE "sorted"
    /\ UNCHANGED <<order, started, response, at, failed, handlers, gone, worker, faults>>

\* eg.Wait returns; with an error, the call does.
Wait ==
    /\ stage = "running" /\ AllReturned
    /\ stage' = IF failed # {} THEN "error" ELSE "sorted"
    /\ runResults' \in IF failed # {} THEN {runResults} ELSE Sortings(runResults)
    /\ UNCHANGED <<order, started, response, at, failed, appending, overtaken, gone, worker, faults>>

\* runResults is read again, without its mutex.
Respond ==
    /\ stage = "sorted"
    /\ stage' = "responded"
    /\ response' = runResults
    /\ UNCHANGED <<order, started, at, failed, handlers, gone, worker, faults>>

--------------------------------------------------------------------------------
(* Outside of the master.                                                  *)

ClientGone ==
    /\ stage = "running" /\ ~ gone
    /\ gone' = TRUE
    /\ UNCHANGED <<call, at, failed, handlers, worker, faults>>

\* The result queue goes with its consumer.
Reply(c, s) ==
    results' = [results EXCEPT ![c] = IF at[c] = "returned" THEN @ ELSE Append(@, s)]

Take(c) ==
    /\ job[c] = "queued"
    /\ job' = [job EXCEPT ![c] = "taken"]
    /\ Reply(c, "RUNNING")
    /\ UNCHANGED <<call, at, failed, handlers, gone, lost, faults>>

\* A worker that is stopping answers GRADER_ERROR, or not at all.
AnswerJob(c) ==
    /\ job[c] = "taken"
    /\ job' = [job EXCEPT ![c] = "answered"]
    /\ \/ Reply(c, Answer[c]) /\ UNCHANGED <<lost, faults>>
       \/ Fault /\ Reply(c, "message") /\ UNCHANGED lost
       \/ Fault /\ lost' = lost \cup {c} /\ UNCHANGED results
    /\ UNCHANGED <<call, at, failed, handlers, gone>>

\* A worker that ends leaves its message to another, answered or not.
Redeliver(c) ==
    /\ job[c] \in {"taken", "answered"}
    /\ Fault
    /\ job' = [job EXCEPT ![c] = "queued"]
    /\ UNCHANGED <<call, at, failed, handlers, gone, results, lost>>

--------------------------------------------------------------------------------

Goroutine(c) == CreateQueue(c) \/ Publish(c) \/ Receive(c) \/ Consumed(c)

Work(c) == Take(c) \/ AnswerJob(c)

Next ==
    \/ Go \/ Wait \/ Respond \/ ClientGone
    \/ \E c \in Cases : Goroutine(c) \/ AppendResult(c) \/ Fails(c) \/ Work(c) \/ Redeliver(c)

Spec == Init /\ [][Next]_vars

\* The goroutines go on, calls under a done context end, and the workers work.
Fairness ==
    /\ WF_vars(Go) /\ WF_vars(Wait) /\ WF_vars(Respond)
    /\ \A c \in Cases :
        /\ WF_vars(Goroutine(c))
        /\ WF_vars(gone /\ Fails(c))
        /\ WF_vars(Work(c))

FairSpec == Spec /\ Fairness

--------------------------------------------------------------------------------

Entries == [id : Cases, output : Answers]

\* Every variable keeps to its type, and there are at most Limit goroutines.
TypeOK ==
    /\ order \in Orders
    /\ started \in 0 .. N
    /\ at \in [Cases -> {"waiting", "begun", "declared", "consuming", "exited", "returned"}]
    /\ failed \subseteq Cases /\ appending \subseteq Cases /\ overtaken \subseteq Cases
    /\ runResults \in Seq(Entries) /\ response \in Seq(Entries)
    /\ stage \in {"running", "sorted", "responded", "error"}
    /\ gone \in BOOLEAN
    /\ job \in [Cases -> {"none", "queued", "taken", "answered"}]
    /\ results \in [Cases -> Seq(Answers \cup {"RUNNING"})]
    /\ lost \subseteq Cases
    /\ faults \in 0 .. MaxFaults
    /\ Cardinality(Busy) <= Limit

\* Any two orders differ by less than the range of int32.
Representable ==
    \A c, d \in Cases : order[c] - order[d] < HalfRange

\* The test cases that are generated are those of the request, none of them twice
\* even if a run was delivered twice; and unless a handler was overtaken by its own
\* Consume (the exit of master.go:335 is sent before the append), all of them, in
\* order as far as orders differ by less than the range of int32 (master.go:354).
ResponseComplete ==
    stage = "responded" =>
        /\ \A i, j \in DOMAIN response : response[i].id = response[j].id => i = j
        /\ overtaken = {} =>
            /\ Len(response) = N
            /\ Representable =>
                \A i, j \in DOMAIN response :
                    i < j => order[response[i].id] <= order[response[j].id]

\* The runs of a request fail each on its own, since the errgroup has no context of its
\* own that the first error would cancel (master.go:275): as long as the client is there,
\* every failed run had a fault of the broker to itself.  The others go on to their answer
\* though the request is lost by then, and an error never stands in for an answer that was
\* received: what did not fail is among the results, or about to be appended.
FailuresStayApart ==
    /\ ~ gone => Cardinality(failed) <= faults
    /\ stage \in {"running", "error"} =>
        \A c \in Cases \ failed :
            at[c] = "returned" =>
                c \in appending \/ \E i \in DOMAIN runResults : runResults[i].id = c

\* The call returns, however many test cases it has, unless the answer of one of them
\* was not published.
AlwaysResponds == <>(stage \in {"responded", "error"} \/ lost # {})

\* "generate-test-cases uses this output as the expected answer, so it must stay
\* whole" (executor.go:212-213).
ExpectedWhole ==
    \A i \in DOMAIN response : response[i].output = "whole"
================================================================================
