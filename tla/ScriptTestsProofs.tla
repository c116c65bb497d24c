--------------------------- MODULE ScriptTestsProofs ---------------------------
(***************************************************************************)
(* Proofs about ScriptTests, for any messages, scripts and faults: nobody  *)
(* is told that a test passed before he is told what failed, and no test   *)
(* leaves its queue untold or out of its turn.                             *)
(*                                                                         *)
(* A handler takes three kinds of steps that touch its test: it goes on    *)
(* Quietly, it Says something, or its message goes Back.                   *)
(***************************************************************************)
EXTENDS ScriptTests, FiniteSetTheorems, TLAPS

Onward == Stages \ {"returned"}

BadStatuses == {"GRADER_ERROR", "COMPILE_FAILED", "RUNTIME_ERROR"}

(***************************************************************************)
(* The inductive invariant.                                                *)
(***************************************************************************)

\* Consumers get the messages of their own queue.
Sorted == \A c \in Consumers : queue[c] \in Seq(TestsOf(c))

\* A handler that goes on has not said that its test passed, and that of a compare
\* test has said nothing final.
Open(t) ==
    pc[t] \in Onward =>
        /\ \A i \in DOMAIN told[t] : told[t][i] # "RUN_PASSED"
        /\ t \in CompareTests => Terminals(t) = {}

\* What failed in a delivery that goes on or has returned is told, and a delivery that
\* has returned has told something final.
Told(t) ==
    /\ pc[t] \in Stages /\ failed[t] # {} => Terminals(t) # {}
    /\ pc[t] \in {"returned", "acked"} => Terminals(t) # {}

\* The first terminal status is RUN_PASSED only if nothing failed; that of a compare
\* test is the only one, and the last one.
Honest(t) ==
    /\ \A i \in Terminals(t) :
        told[t][i] = "RUN_PASSED" /\ (\A j \in Terminals(t) : i <= j) => failed[t] = {}
    /\ t \in CompareTests => Terminals(t) \subseteq {Len(told[t])}

IInv == TypeOK /\ Sorted /\ \A t \in Tests : Open(t) /\ Told(t) /\ Honest(t)

(***************************************************************************)
(* What the handlers do, by kinds.                                         *)
(***************************************************************************)

Quiet(t) ==
    /\ pc[t] \in Onward
    /\ \E next \in Onward : pc' = [pc EXCEPT ![t] = next]
    /\ UNCHANGED <<worker, queue, failed, told>>

Finished(t) ==
    /\ pc[t] = "returned"
    /\ pc' = [pc EXCEPT ![t] = "acked"]
    /\ UNCHANGED <<worker, queue, failed, told>>

Says(t, status, next) ==
    /\ pc[t] \in Onward
    /\ told' = [told EXCEPT ![t] = Append(@, status)]
    /\ pc' = [pc EXCEPT ![t] = next]
    /\ UNCHANGED <<worker, queue>>

SaysBad(t) ==
    /\ \E status \in BadStatuses, next \in Stages :
        Says(t, status, next) /\ (next # "returned" => t \in RunnerTests)
    /\ \E more \in SUBSET (Stages \cup Stopped) : failed' = [failed EXCEPT ![t] = more] /\ more # {}

Back(t) ==
    /\ pc[t] \in Onward
    /\ HandlerFails(t)
    /\ \E more \in SUBSET (Stages \cup Stopped) : failed' = [failed EXCEPT ![t] = more]

Kinds(t) ==
    \/ Quiet(t)
    \/ Finished(t)
    \/ Says(t, "RUNNING", "files") /\ UNCHANGED failed
    \/ Says(t, "RUN_PASSED", "returned") /\ UNCHANGED failed
    \/ SaysBad(t)
    \/ Back(t)
    \/ Die

\* Faults keep to their bound.
LEMMA FaultsType ==
    ASSUME TypeOK, NEW n \in Nat, Faults(n)
    PROVE  faults' \in 0 .. MaxFaults
BY ScriptTestsAssumption DEF TypeOK, Faults

\* A publication says its status, or the message goes back.
LEMMA PublishKinds ==
    ASSUME TypeOK, NEW t \in Tests, NEW status, NEW refused, NEW n \in {0, 1}, NEW next,
           Publish(t, status, refused, n, next), pc[t] \in Onward
    PROVE  (Says(t, status, next) \/ HandlerFails(t)) /\ faults' \in 0 .. MaxFaults
<1>1. CASE ~ refused /\ Sent(t, status, next) /\ Faults(n)
  BY <1>1, FaultsType DEF Sent, Says
<1>2. CASE HandlerFails(t) /\ Faults(IF refused \/ worker = "stopping" THEN n ELSE n + 1)
  BY <1>2, FaultsType
<1> QED  BY <1>1, <1>2 DEF Publish

\* A failure is told, or the message goes back.
LEMMA FailKinds ==
    ASSUME TypeOK, NEW t \in Tests, NEW stage \in Onward, NEW cause \in SUBSET Stopped,
           NEW refused, NEW n \in {0, 1}, NEW next \in Onward,
           Fail(t, stage, cause, refused, n, next), pc[t] = stage
    PROVE  (SaysBad(t) \/ Back(t)) /\ faults' \in 0 .. MaxFaults
<1> DEFINE more == failed[t] \cup {stage} \cup cause
<1> DEFINE after == IF t \in RunnerTests THEN next ELSE "returned"
<1>1. failed' = [failed EXCEPT ![t] = more] /\ more \in SUBSET (Stages \cup Stopped) /\ more # {}
  BY DEF Fail, TypeOK, Onward
<1>2. StatusOf(stage) \in BadStatuses /\ after \in Stages /\ (after # "returned" => t \in RunnerTests)
  BY DEF StatusOf, BadStatuses, Onward, Stages
<1>3. Publish(t, StatusOf(stage), refused, n, after)
  BY DEF Fail
<1> HIDE DEF more, after
<1>4. (Says(t, StatusOf(stage), after) \/ HandlerFails(t)) /\ faults' \in 0 .. MaxFaults
  BY <1>3, PublishKinds
<1> QED  BY <1>1, <1>2, <1>4 DEF SaysBad, Back

\* The next stage, of all but the last, is one in which the handler goes on.
LEMMA NextOnward ==
    ASSUME NEW t \in Tests, NEW stage
    PROVE  NextStage(t, stage) \in Onward
BY DEF NextStage, Onward, Stages

\* A command passes, or its failure is told.
LEMMA CommandKinds ==
    ASSUME TypeOK, NEW t \in Tests, Build(t) \/ Run(t)
    PROVE  Kinds(t) /\ faults' \in 0 .. MaxFaults
<1>1. ASSUME NEW stage \in Onward, pc[t] = stage, NEW n \in {0, 1}, Pass(t, stage, n)
      PROVE  Quiet(t) /\ faults' \in 0 .. MaxFaults
  <2>1. Faults(n)
    BY <1>1 DEF Pass
  <2>2. faults' \in 0 .. MaxFaults
    BY <2>1, FaultsType
  <2> QED  BY <1>1, <2>2, NextOnward DEF Pass, Quiet
<1>2. ASSUME NEW stage \in Onward, pc[t] = stage,
             NEW e, NEW n \in {0, 1}, NEW r, Fail(t, stage, {e} \cap Stopped, r, n, NextStage(t, stage))
      PROVE  (SaysBad(t) \/ Back(t)) /\ faults' \in 0 .. MaxFaults
  BY <1>2, FailKinds, NextOnward
<1>3. CASE Build(t)
  <2>1. pc[t] = "build" /\ "build" \in Onward
    BY <1>3 DEF Build, Command, Onward, Stages
  <2>2. \/ \E n \in {0, 1} : Pass(t, "build", n)
        \/ \E e, r : \E n \in {0, 1} : Fail(t, "build", {e} \cap Stopped, r, n, NextStage(t, "build"))
    BY <1>3 DEF Build, Command
  <2> QED  BY <1>1, <1>2, <2>1, <2>2 DEF Kinds
<1>4. CASE Run(t)
  <2>1. pc[t] = "run" /\ "run" \in Onward
    BY <1>4 DEF Run, Command, Onward, Stages
  <2>2. \/ \E n \in {0, 1} : Pass(t, "run", n)
        \/ \E e, r : \E n \in {0, 1} : Fail(t, "run", {e} \cap Stopped, r, n, NextStage(t, "run"))
    BY <1>4 DEF Run, Command
  <2> QED  BY <1>1, <1>2, <2>1, <2>2 DEF Kinds
<1> QED  BY <1>3, <1>4

\* Every step of a handler is of one of the kinds.
LEMMA HandleKinds ==
    ASSUME TypeOK, NEW t \in Tests, Handle(t)
    PROVE  Kinds(t) /\ faults' \in 0 .. MaxFaults
<1>1. CASE Reject(t)
  <2>2. pc[t] \in Onward /\ Publish(t, "GRADER_ERROR", FALSE, 0, "returned")
    BY <1>1 DEF Reject, Onward, Stages
  <2>3. (Says(t, "GRADER_ERROR", "returned") \/ HandlerFails(t)) /\ faults' \in 0 .. MaxFaults
    BY <2>2, PublishKinds
  <2>4. failed' = [failed EXCEPT ![t] = {"received"}] /\ {"received"} \in SUBSET (Stages \cup Stopped)
    BY <1>1 DEF Reject, Stages
  <2>5. "GRADER_ERROR" \in BadStatuses /\ "returned" \in Stages
    BY DEF BadStatuses, Stages
  <2> QED  BY <2>2, <2>3, <2>4, <2>5 DEF Kinds, SaysBad, Back
<1>2. CASE Begin(t)
  <2>1. CASE worker = "up" /\ Publish(t, "RUNNING", FALSE, 0, "files") /\ UNCHANGED failed
    <3>1. pc[t] \in Onward
      BY <1>2 DEF Begin, Onward, Stages
    <3>2. (Says(t, "RUNNING", "files") \/ HandlerFails(t)) /\ faults' \in 0 .. MaxFaults
      BY <2>1, <3>1, PublishKinds
    <3>3. failed[t] \in SUBSET (Stages \cup Stopped) /\ failed' = [failed EXCEPT ![t] = failed[t]]
      BY <2>1 DEF TypeOK
    <3> QED  BY <2>1, <3>1, <3>2, <3>3 DEF Kinds, Back
  <2>2. CASE Die /\ UNCHANGED faults
    BY <2>2 DEF Kinds, TypeOK
  <2> QED  BY <1>2, <2>1, <2>2 DEF Begin
<1>3. CASE WriteFiles(t)
  <2>1. PICK stage \in {"files", "buildFile", "script"} :
          /\ pc[t] = stage
          /\ \/ Pass(t, stage, 0)
             \/ \E next \in {NextStage(t, stage)} \cup ({stage} \cap {"files"}) :
                  Fail(t, stage, {}, FALSE, 1, next)
    BY <1>3 DEF WriteFiles
  <2>2. stage \in Onward /\ NextStage(t, stage) \in Onward
    BY NextOnward DEF Onward, Stages
  <2>3. CASE Pass(t, stage, 0)
    <3>1. faults' \in 0 .. MaxFaults
      BY <2>3, FaultsType DEF Pass
    <3> QED  BY <2>1, <2>2, <2>3, <3>1 DEF Pass, Quiet, Kinds
  <2>4. CASE \E next \in Onward : Fail(t, stage, {}, FALSE, 1, next)
    BY <2>1, <2>2, <2>4, FailKinds DEF Kinds
  <2> QED  BY <2>1, <2>2, <2>3, <2>4
<1>4. CASE Build(t) \/ Run(t)
  BY <1>4, CommandKinds
<1>5. CASE Metadata(t)
  <2>1. pc[t] = "metadata" /\ "metadata" \in Onward /\ "nilMetadata" \in Onward
    BY <1>5 DEF Metadata, Onward, Stages
  <2>2. CASE Pass(t, "metadata", 0)
    <3>1. faults' \in 0 .. MaxFaults
      BY <2>2, FaultsType DEF Pass
    <3> QED  BY <2>1, <2>2, <3>1, NextOnward DEF Pass, Quiet, Kinds
  <2>3. CASE \E n \in {0, 1} : Fail(t, "metadata", {}, FALSE, n, "nilMetadata")
    BY <2>1, <2>3, FailKinds DEF Kinds
  <2> QED  BY <1>5, <2>2, <2>3 DEF Metadata
<1>6. CASE Panic(t)
  BY <1>6 DEF Panic, Kinds, TypeOK
<1>7. CASE Finish(t)
  <2>1. pc[t] \in Onward /\ UNCHANGED failed
    BY <1>7 DEF Finish, Onward, Stages
  <2>2. (Says(t, "RUN_PASSED", "returned") \/ HandlerFails(t)) /\ faults' \in 0 .. MaxFaults
    BY <1>7, <2>1, PublishKinds DEF Finish
  <2>3. failed[t] \in SUBSET (Stages \cup Stopped) /\ failed' = [failed EXCEPT ![t] = failed[t]]
    BY <2>1 DEF TypeOK
  <2> QED  BY <2>1, <2>2, <2>3 DEF Kinds, Back
<1>8. CASE Ack(t)
  BY <1>8 DEF Ack, Kinds, Finished, TypeOK
<1> QED  BY <1>1, <1>2, <1>3, <1>4, <1>5, <1>6, <1>7, <1>8 DEF Handle

(***************************************************************************)
(* Types, and one handler per consumer.                                    *)
(***************************************************************************)

\* The queues of the two consumers, and what they hold.
LEMMA Queues ==
    /\ \A c \in Consumers : TestsOf(c) \subseteq Tests /\ \A t \in TestsOf(c) : ConsumerOf(t) = c
    /\ \A t \in Tests : ConsumerOf(t) \in Consumers /\ t \in TestsOf(ConsumerOf(t))
BY ScriptTestsAssumption DEF Consumers, TestsOf, ConsumerOf, Tests

\* A test put back to the front of its queue.
LEMMA PutBack ==
    ASSUME NEW S, NEW q \in Seq(S), NEW t \in S
    PROVE  <<t>> \o q \in Seq(S)
OBVIOUS

\* Queues sorted by consumer are queues of tests.
LEMMA SortedQueues ==
    ASSUME NEW qs, DOMAIN qs = Consumers, qs = [c \in Consumers |-> qs[c]],
           \A c \in Consumers : qs[c] \in Seq(TestsOf(c))
    PROVE  qs \in [Consumers -> Seq(Tests)]
<1>1. \A c \in Consumers : Seq(TestsOf(c)) \subseteq Seq(Tests)
  <2> SUFFICES ASSUME NEW c \in Consumers, NEW q \in Seq(TestsOf(c))
               PROVE  q \in Seq(Tests)
    OBVIOUS
  <2>1. TestsOf(c) \subseteq Tests
    BY Queues
  <2> HIDE DEF Tests
  <2> QED  BY <2>1
<1> QED  BY <1>1

\* The messages that a handler that fails and a process that ends put back.
LEMMA BackSorted ==
    ASSUME TypeOK, Sorted, NEW t \in Tests, HandlerFails(t)
    PROVE  Sorted' /\ queue' \in [Consumers -> Seq(Tests)]
<1>1. queue' = [c \in Consumers |-> IF c = ConsumerOf(t) THEN <<t>> \o queue[c] ELSE queue[c]]
  BY Queues DEF HandlerFails, TypeOK
<1>2. ASSUME NEW c \in Consumers
      PROVE  queue'[c] \in Seq(TestsOf(c))
  <2>1. queue[c] \in Seq(TestsOf(c))
    BY DEF Sorted
  <2>2. CASE c = ConsumerOf(t)
    <3>1. t \in TestsOf(c)
      BY <2>2, Queues
    <3>2. <<t>> \o queue[c] \in Seq(TestsOf(c))
      BY <2>1, <3>1, PutBack
    <3> QED  BY <1>1, <2>2, <3>2
  <2>3. CASE c # ConsumerOf(t)
    BY <1>1, <2>1, <2>3
  <2> QED  BY <2>2, <2>3
<1>3. queue' \in [Consumers -> Seq(Tests)]
  BY <1>1, <1>2, SortedQueues
<1> QED  BY <1>2, <1>3 DEF Sorted

\* The end of the process puts what was delivered back where it belongs.
LEMMA DieSorted ==
    ASSUME TypeOK, Sorted, Die
    PROVE  Sorted' /\ queue' \in [Consumers -> Seq(Tests)]
<1> DEFINE out(c) == {t \in TestsOf(c) : pc[t] \in Stages}
<1>1. queue' = [c \in Consumers |-> IF out(c) = {} THEN queue[c] ELSE <<CHOOSE t \in out(c) : TRUE>> \o queue[c]]
  BY DEF Die, Pending
<1>2. ASSUME NEW c \in Consumers
      PROVE  queue'[c] \in Seq(TestsOf(c))
  <2>1. queue[c] \in Seq(TestsOf(c))
    BY DEF Sorted
  <2>2. CASE out(c) = {}
    BY <1>1, <2>1, <2>2
  <2>3. CASE out(c) # {}
    <3> DEFINE t == CHOOSE t \in out(c) : TRUE
    <3>1. t \in TestsOf(c)
      BY <2>3
    <3> HIDE DEF t
    <3>2. <<t>> \o queue[c] \in Seq(TestsOf(c))
      BY <2>1, <3>1, PutBack
    <3> QED  BY <1>1, <2>3, <3>2 DEF t
  <2> QED  BY <2>2, <2>3
<1>3. queue' \in [Consumers -> Seq(Tests)]
  <2>1. DOMAIN queue' = Consumers /\ queue' = [c \in Consumers |-> queue'[c]]
    BY <1>1
  <2> QED  BY <1>2, <2>1, SortedQueues
<1> QED  BY <1>2, <1>3 DEF Sorted

\* What is said is a sequence of statuses.
LEMMA SaysTypes ==
    ASSUME TypeOK, NEW t \in Tests, NEW status \in Statuses, NEW next, Says(t, status, next)
    PROVE  told' \in [Tests -> Seq(Statuses)]
<1>1. told[t] \in Seq(Statuses)
  BY DEF TypeOK
<1>2. Append(told[t], status) \in Seq(Statuses)
  <2> HIDE DEF Statuses
  <2> QED  BY <1>1
<1> QED  BY <1>2 DEF Says, TypeOK

\* No second handler starts when one goes on.
OneHandler ==
    \A s, t \in Tests :
        pc[s] \in Stages /\ pc[t] \in Stages /\ ConsumerOf(s) = ConsumerOf(t) => s = t

\* A step that starts no handler leaves at most one per consumer.
LEMMA SameHandlers ==
    ASSUME TypeOK, \A t \in Tests : pc'[t] \in Stages => pc[t] \in Stages
    PROVE  OneHandler'
BY DEF OneHandler, TypeOK, ConsumerOf

\* The kinds of steps keep the types and the order of the queues.
LEMMA KindsTypes ==
    ASSUME TypeOK, Sorted, NEW t \in Tests, Kinds(t), faults' \in 0 .. MaxFaults
    PROVE  TypeOK' /\ Sorted'
<1>1. CASE Quiet(t) \/ Finished(t)
  <2>1. pc' \in [Tests -> Stages \cup {"queued", "acked"}] /\ UNCHANGED <<worker, queue, failed, told>>
    BY <1>1 DEF Quiet, Finished, TypeOK, Onward
  <2>2. OneHandler'
    BY <1>1, SameHandlers DEF Quiet, Finished, TypeOK, Onward, Stages
  <2> QED  BY <2>1, <2>2 DEF TypeOK, OneHandler, Sorted
<1>2. ASSUME NEW status \in Statuses, NEW next \in Stages, Says(t, status, next),
             NEW more \in SUBSET (Stages \cup Stopped), failed' = [failed EXCEPT ![t] = more]
      PROVE  TypeOK' /\ Sorted'
  <2>1. pc' \in [Tests -> Stages \cup {"queued", "acked"}] /\ UNCHANGED <<worker, queue>>
    BY <1>2 DEF Says, TypeOK
  <2>2. OneHandler'
    BY <1>2, SameHandlers DEF Says, TypeOK, Onward
  <2>3. failed' \in [Tests -> SUBSET (Stages \cup Stopped)] /\ told' \in [Tests -> Seq(Statuses)]
    BY <1>2, SaysTypes DEF TypeOK
  <2> QED  BY <2>1, <2>2, <2>3 DEF TypeOK, OneHandler, Sorted
<1>3. CASE (Says(t, "RUNNING", "files") \/ Says(t, "RUN_PASSED", "returned")) /\ UNCHANGED failed
  <2>1. failed[t] \in SUBSET (Stages \cup Stopped) /\ failed' = [failed EXCEPT ![t] = failed[t]]
    BY <1>3 DEF TypeOK
  <2>2. "RUNNING" \in Statuses /\ "RUN_PASSED" \in Statuses /\ "files" \in Stages /\ "returned" \in Stages
    BY DEF Statuses, Stages
  <2> QED  BY <1>2, <1>3, <2>1, <2>2
<1>4. CASE SaysBad(t)
  <2>1. BadStatuses \subseteq Statuses
    BY DEF BadStatuses, Statuses
  <2> QED  BY <1>2, <1>4, <2>1 DEF SaysBad
<1>5. CASE Back(t)
  <2>1. /\ pc' \in [Tests -> Stages \cup {"queued", "acked"}] /\ UNCHANGED <<worker, told>>
        /\ failed' \in [Tests -> SUBSET (Stages \cup Stopped)]
    BY <1>5 DEF Back, HandlerFails, TypeOK
  <2>2. OneHandler'
    BY <1>5, SameHandlers DEF Back, HandlerFails, TypeOK, Onward, Stages
  <2>3. Sorted' /\ queue' \in [Consumers -> Seq(Tests)]
    BY <1>5, BackSorted DEF Back
  <2> QED  BY <2>1, <2>2, <2>3 DEF TypeOK, OneHandler
<1>6. CASE Die
  <2>1. /\ worker' = "down" /\ pc' \in [Tests -> Stages \cup {"queued", "acked"}] /\ UNCHANGED <<failed, told>>
        /\ \A s \in Tests : pc'[s] \notin Stages
    BY <1>6 DEF Die, TypeOK, Stages
  <2>2. Sorted' /\ queue' \in [Consumers -> Seq(Tests)]
    BY <1>6, DieSorted
  <2> QED  BY <2>1, <2>2 DEF TypeOK
<1> QED  BY <1>1, <1>3, <1>4, <1>5, <1>6 DEF Kinds

\* A delivery starts the one handler of its consumer.
LEMMA DeliverTypes ==
    ASSUME TypeOK, Sorted, NEW c \in Consumers, Deliver(c)
    PROVE  /\ TypeOK' /\ Sorted'
           /\ \E t \in Tests : /\ pc' = [pc EXCEPT ![t] = "received"]
                              /\ failed' = [failed EXCEPT ![t] = {}] /\ told' = [told EXCEPT ![t] = <<>>]
<1> DEFINE t == Head(queue[c])
<1>1. queue[c] \in Seq(TestsOf(c)) /\ queue[c] # <<>>
  BY DEF Deliver, Sorted
<1>2. t \in TestsOf(c) /\ Tail(queue[c]) \in Seq(TestsOf(c))
  BY <1>1
<1>3. t \in Tests /\ ConsumerOf(t) = c
  BY <1>2, Queues
<1>4. /\ pc' = [pc EXCEPT ![t] = "received"] /\ failed' = [failed EXCEPT ![t] = {}]
      /\ told' = [told EXCEPT ![t] = <<>>] /\ queue' = [queue EXCEPT ![c] = Tail(queue[c])]
      /\ UNCHANGED <<worker, faults>> /\ \A s \in TestsOf(c) : pc[s] \in {"queued", "acked"}
  BY DEF Deliver
<1> HIDE DEF t
<1>5. \A d \in Consumers : queue'[d] \in Seq(TestsOf(d))
  <2>1. \A d \in Consumers : queue'[d] = IF d = c THEN Tail(queue[c]) ELSE queue[d]
    BY <1>4 DEF TypeOK
  <2> QED  BY <1>2, <2>1 DEF Sorted
<1>6. queue' \in [Consumers -> Seq(Tests)]
  BY <1>4, <1>5, SortedQueues DEF TypeOK
<1>7. \A s \in Tests : pc'[s] \in Stages => s = t \/ (pc[s] \in Stages /\ ConsumerOf(s) # c)
  BY <1>4, Queues DEF TypeOK, Stages
<1>8. OneHandler'
  <2> SUFFICES ASSUME NEW s \in Tests, NEW u \in Tests, pc'[s] \in Stages, pc'[u] \in Stages,
                      ConsumerOf(s) = ConsumerOf(u)
               PROVE  s = u
    BY DEF OneHandler, ConsumerOf
  <2> QED  BY <1>3, <1>7 DEF TypeOK
<1>9. pc' \in [Tests -> Stages \cup {"queued", "acked"}]
  BY <1>4 DEF TypeOK, Stages
<1>10. told' \in [Tests -> Seq(Statuses)] /\ failed' \in [Tests -> SUBSET (Stages \cup Stopped)]
  <2>1. <<>> \in Seq(Statuses)
    OBVIOUS
  <2>2. told \in [Tests -> Seq(Statuses)] /\ failed \in [Tests -> SUBSET (Stages \cup Stopped)]
    BY DEF TypeOK
  <2> QED  BY <1>4, <2>1, <2>2
<1> QED  BY <1>3, <1>4, <1>5, <1>6, <1>8, <1>9, <1>10 DEF TypeOK, OneHandler, Sorted

(***************************************************************************)
(* What is told.                                                           *)
(***************************************************************************)

Good(t) == Open(t) /\ Told(t) /\ Honest(t)

\* A test that the step does not touch, or whose handler only ends.
LEMMA SameGood ==
    ASSUME NEW t \in Tests, Good(t), told'[t] = told[t], failed'[t] = failed[t],
           \/ pc'[t] = pc[t]
           \/ pc[t] \in Onward /\ pc'[t] \in Onward \cup {"queued"}
           \/ pc'[t] = "queued"
           \/ pc[t] = "returned" /\ pc'[t] = "acked"
    PROVE  Good(t)'
BY DEF Good, Open, Told, Honest, Terminals, Onward, Stages

\* What is told after one more status.
LEMMA TerminalsSaid ==
    ASSUME TypeOK, NEW t \in Tests, NEW status \in Statuses, NEW next, Says(t, status, next)
    PROVE  /\ Len(told[t]) \in Nat /\ DOMAIN told[t] = 1 .. Len(told[t])
           /\ Len(told'[t]) = Len(told[t]) + 1 /\ DOMAIN told'[t] = 1 .. Len(told[t]) + 1
           /\ \A i \in 1 .. Len(told[t]) : told'[t][i] = told[t][i]
           /\ told'[t][Len(told[t]) + 1] = status
           /\ Terminals(t)' = Terminals(t) \cup (IF status = "RUNNING" THEN {} ELSE {Len(told[t]) + 1})
           /\ Terminals(t) \subseteq 1 .. Len(told[t])
<1>1. told[t] \in Seq(Statuses) /\ told'[t] = Append(told[t], status)
  BY DEF Says, TypeOK
<1>2. /\ Len(told[t]) \in Nat /\ DOMAIN told[t] = 1 .. Len(told[t])
      /\ Len(told'[t]) = Len(told[t]) + 1 /\ DOMAIN told'[t] = 1 .. Len(told[t]) + 1
      /\ \A i \in 1 .. Len(told[t]) : told'[t][i] = told[t][i]
      /\ told'[t][Len(told[t]) + 1] = status
  <2> HIDE DEF Statuses
  <2> QED  BY <1>1
<1>3. /\ Terminals(t) = {i \in 1 .. Len(told[t]) : told[t][i] # "RUNNING"}
      /\ Terminals(t)' = {i \in 1 .. Len(told[t]) + 1 : told'[t][i] # "RUNNING"}
  BY <1>2 DEF Terminals
<1> QED  BY <1>2, <1>3

\* A handler that goes on and says something keeps its promises.
LEMMA SaysGood ==
    ASSUME TypeOK, NEW t \in Tests, Good(t), Kinds(t), ~ Quiet(t), ~ Finished(t), ~ Back(t), ~ Die
    PROVE  Good(t)'
<1> DEFINE n == Len(told[t])
<1>1. pc[t] \in Onward
  BY DEF Kinds, Says, SaysBad
<1>2. /\ \A i \in DOMAIN told[t] : told[t][i] # "RUN_PASSED"
      /\ t \in CompareTests => Terminals(t) = {}
      /\ failed[t] # {} => Terminals(t) # {}
  BY <1>1 DEF Good, Open, Told, Onward
<1>3. CASE Says(t, "RUNNING", "files") /\ UNCHANGED failed
  <2>1. "RUNNING" \in Statuses
    BY DEF Statuses
  <2>2. Terminals(t)' = Terminals(t) /\ \A i \in DOMAIN told'[t] : told'[t][i] # "RUN_PASSED"
    <3>1. /\ DOMAIN told[t] = 1 .. n /\ n \in Nat /\ DOMAIN told'[t] = 1 .. n + 1
          /\ \A i \in 1 .. n : told'[t][i] = told[t][i]
          /\ told'[t][n + 1] = "RUNNING" /\ Terminals(t)' = Terminals(t) \cup {}
      BY <1>3, <2>1, TerminalsSaid
    <3>2. \A i \in 1 .. n + 1 : i \in 1 .. n \/ i = n + 1
      BY <3>1
    <3> QED  BY <1>2, <3>1, <3>2
  <2>3. pc'[t] = "files" /\ failed'[t] = failed[t]
    BY <1>3 DEF Says, TypeOK
  <2>4. \A i \in Terminals(t)' : told'[t][i] # "RUN_PASSED"
    BY <2>2 DEF Terminals
  <2> QED  BY <1>2, <2>2, <2>3, <2>4 DEF Good, Open, Told, Honest, Onward, Stages
<1>4. CASE Says(t, "RUN_PASSED", "returned") /\ UNCHANGED failed
  <2>1. "RUN_PASSED" \in Statuses
    BY DEF Statuses
  <2>2. /\ Terminals(t)' = Terminals(t) \cup {n + 1} /\ Terminals(t) \subseteq 1 .. n /\ n \in Nat
        /\ Len(told'[t]) = n + 1 /\ DOMAIN told[t] = 1 .. n
        /\ \A i \in 1 .. n : told'[t][i] = told[t][i]
    BY <1>4, <2>1, TerminalsSaid
  <2>3. pc'[t] = "returned" /\ failed'[t] = failed[t]
    BY <1>4 DEF Says, TypeOK
  <2>4. Open(t)' /\ Told(t)'
    BY <2>2, <2>3 DEF Open, Told, Onward
  <2>5. ASSUME NEW i \in Terminals(t)', told'[t][i] = "RUN_PASSED", \A j \in Terminals(t)' : i <= j
        PROVE  failed'[t] = {}
    <3>1. i = n + 1
      BY <1>2, <2>2, <2>5
    <3>2. Terminals(t) = {}
      BY <2>2, <2>5, <3>1
    <3> QED  BY <1>2, <2>3, <3>2
  <2>6. t \in CompareTests => Terminals(t)' \subseteq {Len(told'[t])}
    BY <1>2, <2>2
  <2> QED  BY <2>4, <2>5, <2>6 DEF Good, Honest
<1>5. CASE SaysBad(t)
  <2>1. PICK status \in BadStatuses, next \in Stages :
          Says(t, status, next) /\ (next # "returned" => t \in RunnerTests)
    BY <1>5 DEF SaysBad
  <2>2. status \in Statuses /\ status # "RUNNING" /\ status # "RUN_PASSED"
    BY DEF Statuses, BadStatuses
  <2>3. /\ Terminals(t)' = Terminals(t) \cup {n + 1} /\ Terminals(t) \subseteq 1 .. n /\ n \in Nat
        /\ Len(told'[t]) = n + 1 /\ DOMAIN told[t] = 1 .. n /\ DOMAIN told'[t] = 1 .. n + 1
        /\ \A i \in 1 .. n : told'[t][i] = told[t][i]
        /\ told'[t][n + 1] = status
    BY <2>1, <2>2, TerminalsSaid
  <2>4. pc'[t] = next /\ (t \in CompareTests => next = "returned")
    BY <2>1, ScriptTestsAssumption DEF Says, TypeOK
  <2>5. \A i \in DOMAIN told'[t] : told'[t][i] # "RUN_PASSED"
    BY <1>2, <2>2, <2>3
  <2>6. Open(t)' /\ Told(t)'
    BY <2>3, <2>4, <2>5 DEF Open, Told, Onward
  <2>7. Honest(t)'
    BY <1>2, <2>3, <2>5 DEF Honest, Terminals
  <2> QED  BY <2>6, <2>7 DEF Good
<1> QED  BY <1>3, <1>4, <1>5 DEF Kinds

\* Every step of a handler keeps what has been promised about every test.
LEMMA KindsGood ==
    ASSUME TypeOK, NEW t \in Tests, Kinds(t), NEW u \in Tests, Good(u)
    PROVE  Good(u)'
<1>1. CASE Die
  <2>1. told' = told /\ failed' = failed /\ (pc'[u] = pc[u] \/ pc'[u] = "queued")
    BY <1>1 DEF Die
  <2> QED  BY <2>1, SameGood
<1>2. CASE u # t /\ ~ Die
  <2>1. told'[u] = told[u] /\ failed'[u] = failed[u] /\ pc'[u] = pc[u]
    BY <1>2 DEF Kinds, Quiet, Finished, Says, SaysBad, Back, HandlerFails, TypeOK
  <2> QED  BY <2>1, SameGood
<1>3. CASE u = t /\ (Quiet(t) \/ Finished(t))
  <2>1. told' = told /\ failed' = failed
    BY <1>3 DEF Quiet, Finished
  <2>2. \/ pc[t] \in Onward /\ pc'[t] \in Onward
        \/ pc[t] = "returned" /\ pc'[t] = "acked"
    BY <1>3 DEF Quiet, Finished, TypeOK
  <2> QED  BY <1>3, <2>1, <2>2, SameGood
<1>4. CASE u = t /\ Back(t)
  <2>1. told'[t] = told[t] /\ pc'[t] = "queued" /\ pc[t] \in Onward
    BY <1>4 DEF Back, HandlerFails, TypeOK
  <2>2. \A i \in DOMAIN told[t] : told[t][i] # "RUN_PASSED"
    BY <1>4, <2>1 DEF Good, Open
  <2>3. Terminals(t)' = Terminals(t) /\ \A i \in Terminals(t) : told'[t][i] # "RUN_PASSED"
    BY <2>1, <2>2 DEF Terminals
  <2>4. Open(t)' /\ Told(t)'
    BY <2>1 DEF Open, Told, Onward, Stages
  <2>5. Honest(t)'
    BY <1>4, <2>1, <2>3 DEF Good, Honest
  <2> QED  BY <1>4, <2>4, <2>5 DEF Good
<1> QED  BY <1>1, <1>2, <1>3, <1>4, SaysGood

(***************************************************************************)
(* Theorems.                                                               *)
(***************************************************************************)

\* The queues at the start hold the tests of their consumers.
LEMMA OrdersSorted ==
    ASSUME NEW S \in SUBSET Tests
    PROVE  Orders(S) \subseteq Seq(S)
<1>1. Cardinality(S) \in Nat
  BY ScriptTestsAssumption, FS_Subset, FS_CardinalityType
<1>2. [1 .. Cardinality(S) -> S] \subseteq Seq(S)
  BY <1>1
<1> QED  BY <1>2 DEF Orders

\* The inductive invariant holds at the start.
LEMMA InitInvariant == Init => IInv
<1> SUFFICES ASSUME Init PROVE IInv
  OBVIOUS
<1>1. PICK p \in Orders(RunnerTests), q \in Orders(CompareTests) :
        queue = [c \in Consumers |-> IF c = "runner_test" THEN p ELSE q]
  BY DEF Init
<1>2. p \in Seq(RunnerTests) /\ q \in Seq(CompareTests)
  BY OrdersSorted DEF Tests
<1>3. \A c \in Consumers : queue[c] \in Seq(TestsOf(c))
  BY <1>1, <1>2 DEF TestsOf
<1>4. queue \in [Consumers -> Seq(Tests)]
  BY <1>1, <1>3, SortedQueues
<1>5. /\ pc \in [Tests -> Stages \cup {"queued", "acked"}] /\ \A t \in Tests : pc[t] \notin Stages
      /\ failed \in [Tests -> SUBSET (Stages \cup Stopped)]
      /\ worker = "up" /\ faults \in 0 .. MaxFaults
  BY ScriptTestsAssumption DEF Init, Stages
<1>6. told \in [Tests -> Seq(Statuses)]
  <2>1. <<>> \in Seq(Statuses)
    OBVIOUS
  <2> QED  BY <2>1 DEF Init
<1>7. TypeOK /\ Sorted
  BY <1>3, <1>4, <1>5, <1>6 DEF TypeOK, Sorted
<1>8. \A t \in Tests : Open(t) /\ Told(t) /\ Honest(t)
  BY DEF Init, Open, Told, Honest, Terminals, Onward, Stages
<1> QED  BY <1>7, <1>8 DEF IInv

\* And every step keeps it.
LEMMA StepInvariant == IInv /\ [Next]_vars => IInv'
<1> SUFFICES ASSUME IInv, [Next]_vars PROVE IInv'
  OBVIOUS
<1>1. TypeOK /\ Sorted /\ \A t \in Tests : Good(t)
  BY DEF IInv, Good
<1>2. ASSUME NEW t \in Tests, Kinds(t), faults' \in 0 .. MaxFaults
      PROVE  IInv'
  BY <1>1, <1>2, KindsTypes, KindsGood DEF IInv, Good
<1>3. ASSUME NEW c \in Consumers, Deliver(c)
      PROVE  IInv'
  <2>1. TypeOK' /\ Sorted'
    BY <1>1, <1>3, DeliverTypes
  <2>2. PICK t \in Tests : /\ pc' = [pc EXCEPT ![t] = "received"]
                          /\ failed' = [failed EXCEPT ![t] = {}] /\ told' = [told EXCEPT ![t] = <<>>]
    BY <1>1, <1>3, DeliverTypes
  <2>3. ASSUME NEW u \in Tests \ {t}
        PROVE  Good(u)'
    <3>1. told'[u] = told[u] /\ failed'[u] = failed[u] /\ pc'[u] = pc[u]
      BY <1>1, <2>2 DEF TypeOK
    <3> QED  BY <1>1, <3>1, SameGood
  <2>4. Good(t)'
    <3>1. told'[t] = <<>> /\ failed'[t] = {} /\ pc'[t] = "received"
      BY <1>1, <2>2 DEF TypeOK
    <3>2. DOMAIN told'[t] = {} /\ Terminals(t)' = {}
      BY <3>1 DEF Terminals
    <3> QED  BY <3>1, <3>2 DEF Good, Open, Told, Honest
  <2> QED  BY <2>1, <2>3, <2>4 DEF IInv, Good
<1>4. CASE UNCHANGED <<pc, told, failed, queue>> /\ worker' \in {"up", "stopping", "down"} /\ faults' \in 0 .. MaxFaults
  <2>1. TypeOK' /\ Sorted'
    BY <1>1, <1>4 DEF TypeOK, Sorted, ConsumerOf
  <2>2. \A t \in Tests : Good(t)'
    BY <1>1, <1>4, SameGood
  <2> QED  BY <2>1, <2>2 DEF IInv, Good
<1>5. ASSUME Die, faults' \in 0 .. MaxFaults
      PROVE  IInv'
  <2>1. CASE Tests = {}
    <3>1. TypeOK' /\ Sorted'
      <4>1. Sorted' /\ queue' \in [Consumers -> Seq(Tests)]
        BY <1>1, <1>5, DieSorted
      <4>2. /\ worker' = "down" /\ pc' \in [Tests -> Stages \cup {"queued", "acked"}] /\ UNCHANGED <<failed, told>>
        BY <1>5, <2>1 DEF Die
      <4> QED  BY <1>1, <1>5, <2>1, <4>1, <4>2 DEF TypeOK
    <3> QED  BY <2>1, <3>1 DEF IInv
  <2>2. CASE \E t \in Tests : TRUE
    BY <1>2, <1>5, <2>2 DEF Kinds
  <2> QED  BY <2>1, <2>2
<1>6. CASE Shutdown
  <2>1. faults' \in 0 .. MaxFaults
    BY <1>1, <1>6, FaultsType DEF Shutdown
  <2> QED  BY <1>4, <1>6, <2>1 DEF Shutdown
<1>7. CASE Exit \/ Crash
  <2>1. faults' \in 0 .. MaxFaults
    BY <1>1, <1>7, FaultsType DEF Exit, Crash, TypeOK
  <2> QED  BY <1>5, <1>7, <2>1 DEF Exit, Crash
<1>8. CASE Restart \/ UNCHANGED vars
  BY <1>1, <1>4, <1>8 DEF Restart, vars, TypeOK
<1>9. ASSUME NEW t \in Tests, Handle(t)
      PROVE  IInv'
  BY <1>1, <1>2, <1>9, HandleKinds
<1> QED  BY <1>3, <1>6, <1>7, <1>8, <1>9 DEF Next

\* The inductive invariant holds of every behaviour.
LEMMA Invariant == Spec => []IInv
BY InitInvariant, StepInvariant, PTL DEF Spec

\* Every variable keeps to its type, and each consumer has one handler at most.
THEOREM TypeCorrect == Spec => []TypeOK
<1>1. IInv => TypeOK
  BY DEF IInv
<1> QED  BY <1>1, Invariant, PTL

\* The first terminal status of a delivery is RUN_PASSED only if nothing failed in it.
THEOREM ErrorsComeFirst == Spec => []ErrorFirst
<1>1. IInv => ErrorFirst
  BY DEF IInv, Honest, ErrorFirst
<1> QED  BY <1>1, Invariant, PTL

\* A test is acknowledged only after a terminal status was published.
THEOREM AcknowledgedTold == Spec => []AckedTold
<1>1. IInv => AckedTold
  BY DEF IInv, Told, AckedTold
<1> QED  BY <1>1, Invariant, PTL

\* compare_test publishes one terminal status in a delivery, and nothing after it.
THEOREM CompareVerdict == Spec => []OneVerdict
<1>1. IInv => OneVerdict
  BY ScriptTestsAssumption DEF IInv, Honest, OneVerdict, Tests
<1> QED  BY <1>1, Invariant, PTL

(***************************************************************************)
(* The order of the queues.                                                *)
(***************************************************************************)

\* The messages of a consumer that are out.
OutOf(c) == {t \in TestsOf(c) : pc[t] \in Stages}

\* Only the message that is out comes before the queue, now and after a step.
LEMMA PendingOut ==
    ASSUME NEW c \in Consumers
    PROVE  /\ OutOf(c) = {} => Pending(c) = queue[c]
           /\ \A t : OutOf(c) = {t} => Pending(c) = <<t>> \o queue[c]
           /\ OutOf(c)' = {} => Pending(c)' = queue'[c]
           /\ \A t : OutOf(c)' = {t} => Pending(c)' = <<t>> \o queue'[c]
<1>1. Pending(c) = IF OutOf(c) = {} THEN queue[c] ELSE <<CHOOSE s \in OutOf(c) : TRUE>> \o queue[c]
  BY DEF Pending, OutOf
<1>2. Pending(c)' = IF OutOf(c)' = {} THEN queue'[c] ELSE <<CHOOSE s \in OutOf(c)' : TRUE>> \o queue'[c]
  BY DEF Pending, OutOf
<1>3. \A S, t : S = {t} => (CHOOSE s \in S : TRUE) = t /\ S # {}
  OBVIOUS
<1> HIDE DEF OutOf, Pending
<1> QED  BY <1>1, <1>2, <1>3

\* A handler's message is all that its consumer has out.
LEMMA OneOut ==
    ASSUME TypeOK, NEW t \in Tests, pc[t] \in Stages
    PROVE  OutOf(ConsumerOf(t)) = {t}
<1>1. t \in TestsOf(ConsumerOf(t)) /\ \A s \in TestsOf(ConsumerOf(t)) : s \in Tests /\ ConsumerOf(s) = ConsumerOf(t)
  BY Queues
<1> QED  BY <1>1 DEF TypeOK, OutOf

\* A consumer none of whose tests starts or ends, and whose queue is left alone.
LEMMA SamePending ==
    ASSUME NEW c \in Consumers, queue'[c] = queue[c],
           \A t \in TestsOf(c) : pc'[t] \in Stages <=> pc[t] \in Stages
    PROVE  Pending(c)' = Pending(c)
<1>1. OutOf(c)' = OutOf(c)
  BY DEF OutOf, TestsOf, Stages
<1>2. Pending(c) = IF OutOf(c) = {} THEN queue[c] ELSE <<CHOOSE t \in OutOf(c) : TRUE>> \o queue[c]
  BY DEF Pending, OutOf
<1>3. Pending(c)' = IF OutOf(c)' = {} THEN queue'[c] ELSE <<CHOOSE t \in OutOf(c)' : TRUE>> \o queue'[c]
  BY DEF Pending, OutOf
<1> HIDE DEF OutOf, Pending
<1> QED  BY <1>1, <1>2, <1>3

\* Consumer c has its first message acknowledged, and told.
Pops(c) ==
    /\ Pending(c) # <<>> /\ Pending(c)' = Tail(Pending(c))
    /\ LET t == Head(Pending(c)) IN pc'[t] = "acked" /\ Terminals(t) # {}

\* A handler's step leaves the order alone, or acknowledges its message in its turn.
LEMMA KindsOrder ==
    ASSUME TypeOK, TypeOK', Sorted, \A t \in Tests : Good(t), NEW t \in Tests, Kinds(t),
           NEW c \in Consumers
    PROVE  Pending(c)' = Pending(c) \/ Pops(c)
<1>1. TestsOf(c) \subseteq Tests /\ \A s \in TestsOf(c) : ConsumerOf(s) = c
  BY Queues
<1>2. ASSUME queue' = queue, NEW next \in Stages, pc' = [pc EXCEPT ![t] = next], pc[t] \in Onward
      PROVE  Pending(c)' = Pending(c)
  <2>1. \A s \in TestsOf(c) : pc'[s] \in Stages <=> pc[s] \in Stages
    BY <1>1, <1>2 DEF TypeOK, Onward
  <2> QED  BY <1>2, <2>1, SamePending
<1>3. CASE c # ConsumerOf(t) /\ ~ Die
  <2>1. queue'[c] = queue[c]
    BY <1>3 DEF Kinds, Quiet, Finished, Says, SaysBad, Back, HandlerFails, TypeOK
  <2>2. \A s \in TestsOf(c) : pc'[s] = pc[s]
    BY <1>1, <1>3 DEF Kinds, Quiet, Finished, Says, SaysBad, Back, HandlerFails, TypeOK
  <2> QED  BY <2>1, <2>2, SamePending
<1>4. CASE Die
  <2>1. OutOf(c)' = {}
    BY <1>1, <1>4 DEF Die, OutOf, Stages, TestsOf
  <2>2. queue'[c] = Pending(c)
    BY <1>4 DEF Die
  <2>3. Pending(c)' = queue'[c]
    BY <2>1, PendingOut
  <2> QED  BY <2>2, <2>3
<1>5. CASE c = ConsumerOf(t) /\ pc[t] \in Stages /\ pc'[t] \notin Stages /\ ~ Die
  <2>1. OutOf(c) = {t}
    BY <1>5, OneOut
  <2>2. Pending(c) = <<t>> \o queue[c]
    BY <2>1, PendingOut
  <2>3. \A s \in TestsOf(c) : s # t => pc'[s] = pc[s]
    BY <1>1, <1>5 DEF Kinds, Quiet, Finished, Says, SaysBad, Back, HandlerFails, TypeOK
  <2>4. OutOf(c)' = {}
    BY <1>5, <2>1, <2>3 DEF OutOf, TestsOf, Stages
  <2>5. Pending(c)' = queue'[c]
    BY <2>4, PendingOut
  <2>6. CASE Back(t)
    BY <1>5, <2>2, <2>5, <2>6 DEF Back, HandlerFails, TypeOK
  <2>7. CASE Finished(t)
    <3>1. queue[c] \in Seq(TestsOf(c)) /\ t \in TestsOf(c)
      BY <2>1 DEF Sorted, OutOf
    <3>2. Pending(c) # <<>> /\ Head(Pending(c)) = t /\ Tail(Pending(c)) = queue[c]
      BY <2>2, <3>1
    <3>3. pc'[t] = "acked" /\ queue' = queue /\ Terminals(t) # {}
      BY <2>7 DEF Finished, TypeOK, Good, Told
    <3> QED  BY <2>5, <3>2, <3>3 DEF Pops
  <2> QED  BY <1>5, <2>6, <2>7 DEF Kinds, Quiet, Says, SaysBad, Onward, TypeOK, Stages
<1>6. CASE c = ConsumerOf(t) /\ ~ (pc[t] \in Stages /\ pc'[t] \notin Stages) /\ ~ Die
  <2>1. queue' = queue /\ pc[t] \in Onward /\ \E next \in Stages : pc' = [pc EXCEPT ![t] = next]
    BY <1>6 DEF Kinds, Quiet, Finished, Says, SaysBad, Back, HandlerFails, Onward, TypeOK, Stages
  <2> QED  BY <1>2, <2>1
<1> QED  BY <1>3, <1>4, <1>5, <1>6

\* A delivery leaves the order alone.
LEMMA DeliverOrder ==
    ASSUME TypeOK, Sorted, NEW d \in Consumers, Deliver(d), NEW c \in Consumers
    PROVE  Pending(c)' = Pending(c)
<1> DEFINE t == Head(queue[d])
<1>1. queue[d] \in Seq(TestsOf(d)) /\ queue[d] # <<>>
  BY DEF Deliver, Sorted
<1>2. t \in TestsOf(d) /\ t \in Tests /\ queue[d] = <<t>> \o Tail(queue[d])
  BY <1>1, Queues
<1>3. /\ pc' = [pc EXCEPT ![t] = "received"] /\ queue' = [queue EXCEPT ![d] = Tail(queue[d])]
      /\ \A s \in TestsOf(d) : pc[s] \in {"queued", "acked"}
  BY DEF Deliver
<1> HIDE DEF t
<1>4. CASE c = d
  <2>1. OutOf(c) = {} /\ OutOf(c)' = {t}
    <3>1. TestsOf(c) \subseteq Tests
      BY Queues
    <3> QED  BY <1>2, <1>3, <1>4, <3>1 DEF OutOf, TypeOK, Stages, TestsOf
  <2>2. Pending(c) = queue[c]
    BY <2>1, PendingOut
  <2>3. Pending(c)' = <<t>> \o queue'[c]
    <3>1. PICK u : u = t
      OBVIOUS
    <3>2. Pending(c)' = <<u>> \o queue'[c]
      BY <2>1, <3>1, PendingOut
    <3> QED  BY <3>1, <3>2
  <2> QED  BY <1>2, <1>3, <1>4, <2>2, <2>3 DEF TypeOK
<1>5. CASE c # d
  <2>1. queue'[c] = queue[c]
    BY <1>3, <1>5 DEF TypeOK
  <2>2. \A s \in TestsOf(c) : pc'[s] = pc[s]
    BY <1>2, <1>3, <1>5, Queues DEF TypeOK
  <2> QED  BY <2>1, <2>2, SamePending
<1> QED  BY <1>4, <1>5

\* Every step leaves the order alone, or acknowledges the first message.
LEMMA StepOrder ==
    ASSUME IInv, IInv', [Next]_vars, NEW c \in Consumers
    PROVE  Pending(c)' = Pending(c) \/ Pops(c)
<1>1. TypeOK /\ TypeOK' /\ Sorted /\ \A t \in Tests : Good(t)
  BY DEF IInv, Good
<1>2. ASSUME NEW t \in Tests, Handle(t)
      PROVE  Pending(c)' = Pending(c) \/ Pops(c)
  BY <1>1, <1>2, HandleKinds, KindsOrder
<1>3. ASSUME NEW d \in Consumers, Deliver(d)
      PROVE  Pending(c)' = Pending(c)
  BY <1>1, <1>3, DeliverOrder
<1>4. CASE UNCHANGED <<pc, queue>>
  BY <1>4, SamePending
<1>5. CASE Exit \/ Crash
  <2>1. OutOf(c)' = {}
    BY <1>1, <1>5, Queues DEF Exit, Crash, Die, OutOf, Stages, TestsOf
  <2>2. queue'[c] = Pending(c)
    BY <1>5 DEF Exit, Crash, Die
  <2>3. Pending(c)' = queue'[c]
    BY <2>1, PendingOut
  <2> QED  BY <2>2, <2>3
<1>6. CASE Shutdown \/ Restart \/ UNCHANGED vars
  BY <1>4, <1>6 DEF Shutdown, Restart, vars
<1> QED  BY <1>2, <1>3, <1>5, <1>6 DEF Next

\* A test leaves its consumer only in its turn and told: no failed publication, panic or
\* crash loses a message, lets a later one pass it, or has it twice.
THEOREM MessagesInOrder == Spec => AnsweredInOrder
<1>1. IInv /\ IInv' /\ [Next]_vars => \A c \in Consumers : Pending(c)' = Pending(c) \/ Pops(c)
  BY StepOrder
<1>2. ASSUME IInv, IInv', [Next]_vars
      PROVE  [\A c \in Consumers :
                \/ Pending(c)' = Pending(c)
                \/ /\ Pending(c) # <<>> /\ Pending(c)' = Tail(Pending(c))
                   /\ LET t == Head(Pending(c)) IN pc'[t] = "acked" /\ Terminals(t) # {}]_vars
  BY <1>1, <1>2 DEF Pops
<1> QED  BY <1>2, Invariant, PTL DEF Spec, AnsweredInOrder
================================================================================
