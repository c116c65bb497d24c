---------------------------- MODULE RunProtocolProofs ----------------------------
(***************************************************************************)
(* Proofs about RunProtocol, for any requests, workers and outcomes, and   *)
(* any number of faults.                                                   *)
(***************************************************************************)
EXTENDS RunProtocol, FiniteSetTheorems, TLAPS

(***************************************************************************)
(* Sequences.                                                              *)
(***************************************************************************)

ElemsOf(q) == {q[i] : i \in DOMAIN q}

\* Append adds one element, at the end.
LEMMA AppendLemma ==
    ASSUME NEW S, NEW q \in Seq(S), NEW e \in S
    PROVE  /\ Append(q, e) \in Seq(S)
           /\ Append(q, e) # <<>>
           /\ Append(q, e)[Len(Append(q, e))] = e
           /\ ElemsOf(Append(q, e)) = ElemsOf(q) \cup {e}
<1> DEFINE ap == Append(q, e)
<1>1. /\ Len(q) \in Nat /\ ap \in Seq(S) /\ Len(ap) = Len(q) + 1
      /\ DOMAIN q = 1 .. Len(q) /\ DOMAIN ap = 1 .. Len(q) + 1
      /\ \A i \in 1 .. Len(q) : ap[i] = q[i]
      /\ ap[Len(q) + 1] = e
  OBVIOUS
<1> HIDE DEF ap
<1>2. ap # <<>>
  BY <1>1
<1>3. ASSUME NEW x \in ElemsOf(ap)
      PROVE  x \in ElemsOf(q) \cup {e}
  BY <1>1, <1>3 DEF ElemsOf
<1>4. ASSUME NEW x \in ElemsOf(q) \cup {e}
      PROVE  x \in ElemsOf(ap)
  <2>1. CASE x \in ElemsOf(q)
    BY <1>1, <2>1 DEF ElemsOf
  <2>2. CASE x = e
    BY <1>1, <2>2 DEF ElemsOf
  <2> QED  BY <1>4, <2>1, <2>2
<1> QED  BY <1>1, <1>2, <1>3, <1>4 DEF ap

\* The elements of a sequence are its head and those of its tail.
LEMMA TailLemma ==
    ASSUME NEW S, NEW q \in Seq(S), q # <<>>
    PROVE  /\ Head(q) \in S
           /\ Tail(q) \in Seq(S)
           /\ ElemsOf(q) = ElemsOf(Tail(q)) \cup {Head(q)}
<1>1. /\ Len(q) \in Nat /\ Len(q) > 0 /\ DOMAIN q = 1 .. Len(q)
      /\ Head(q) = q[1] /\ Head(q) \in S
      /\ Tail(q) \in Seq(S) /\ DOMAIN Tail(q) = 1 .. Len(q) - 1
      /\ \A i \in 1 .. Len(q) - 1 : Tail(q)[i] = q[i + 1]
  OBVIOUS
<1>2. ASSUME NEW x \in ElemsOf(q)
      PROVE  x \in ElemsOf(Tail(q)) \cup {Head(q)}
  <2>1. PICK i \in 1 .. Len(q) : x = q[i]
    BY <1>1, <1>2 DEF ElemsOf
  <2>2. CASE i = 1
    BY <1>1, <2>1, <2>2
  <2>3. CASE i # 1
    <3>1. i - 1 \in 1 .. Len(q) - 1 /\ Tail(q)[i - 1] = x
      BY <1>1, <2>1, <2>3
    <3> QED  BY <1>1, <3>1 DEF ElemsOf
  <2> QED  BY <2>2, <2>3
<1>3. ASSUME NEW x \in ElemsOf(Tail(q)) \cup {Head(q)}
      PROVE  x \in ElemsOf(q)
  <2>1. CASE x = Head(q)
    BY <1>1, <2>1 DEF ElemsOf
  <2>2. CASE x \in ElemsOf(Tail(q))
    <3>1. PICK i \in 1 .. Len(q) - 1 : x = Tail(q)[i]
      BY <1>1, <2>2 DEF ElemsOf
    <3>2. i + 1 \in 1 .. Len(q) /\ q[i + 1] = x
      BY <1>1, <3>1
    <3> QED  BY <1>1, <3>2 DEF ElemsOf
  <2> QED  BY <1>3, <2>1, <2>2
<1> QED  BY <1>1, <1>2, <1>3

(***************************************************************************)
(* Types.                                                                  *)
(***************************************************************************)

Types ==
    /\ call \in [Requests -> CallStages]
    /\ gone \subseteq Requests
    /\ stream \in [Requests -> Seq(Statuses)]
    /\ resultQueue \in [Requests -> {"none", "open", "deleted"}]
    /\ results \in [Requests -> Seq(Statuses \ {"QUEUED"})]
    /\ job \in [Requests -> {"none", "queued", "acked"} \cup InHandler]
    /\ at \in [Requests -> Workers \cup {NoWorker}]
    /\ worker \in [Workers -> {"up", "stopping", "down"}]
    /\ dropped \subseteq Requests
    /\ killed \subseteq Requests
    /\ faults \in 0 .. MaxFaults
    /\ \A r \in Requests : job[r] \in InHandler <=> at[r] # NoWorker
    /\ \A r \in Requests : call[r] \in {"idle", "declared"} => job[r] = "none"

\* The count of faults stays within its bound.
LEMMA FaultTypes ==
    ASSUME Types, Fault \/ UNCHANGED faults
    PROVE  faults' \in 0 .. MaxFaults
BY RunAssumption DEF Types, Fault

\* A status that is sent or replied is one.
LEMMA SendTypes ==
    ASSUME Types, NEW r \in Requests, NEW s \in Statuses, Send(r, s)
    PROVE  stream' \in [Requests -> Seq(Statuses)]
<1>1. Append(stream[r], s) \in Seq(Statuses)
  BY AppendLemma DEF Types
<1> QED  BY <1>1 DEF Types, Send

\* Likewise for replies, which are never QUEUED.
LEMMA ReplyTypes ==
    ASSUME Types, NEW r \in Requests, NEW s \in Statuses \ {"QUEUED"}, Reply(r, s)
    PROVE  /\ results' \in [Requests -> Seq(Statuses \ {"QUEUED"})]
           /\ resultQueue' = resultQueue
<1>1. results[r] \in Seq(Statuses \ {"QUEUED"})
  BY DEF Types
<1>2. Append(results[r], s) \in Seq(Statuses \ {"QUEUED"})
  BY <1>1, AppendLemma
<1> QED  BY <1>1, <1>2 DEF Types, Reply

\* Types are kept when an answer is published.
LEMMA AnswerTypes ==
    ASSUME Types, NEW r \in Requests, NEW s \in Terminal, job[r] \in InHandler,
           PublishAnswer(r, s), killed' \subseteq Requests
    PROVE  Types'
<1>1. s \in Statuses \ {"QUEUED"}
  BY DEF Statuses, Terminal
<1>2. results' \in [Requests -> Seq(Statuses \ {"QUEUED"})] /\ resultQueue' = resultQueue
  <2>1. CASE Reply(r, s)
    BY <1>1, <2>1, ReplyTypes
  <2>2. CASE UNCHANGED resultVars
    BY <2>2 DEF Types, resultVars
  <2> QED  BY <2>1, <2>2 DEF PublishAnswer
<1>3. faults' \in 0 .. MaxFaults /\ dropped' \subseteq Requests
  BY RunAssumption DEF Types, PublishAnswer, PublishFails, Fault
<1> QED  BY <1>2, <1>3 DEF Types, PublishAnswer, masterVars, InHandler

\* Types are kept by the steps of a call.
LEMMA CallTypes ==
    ASSUME Types, NEW r \in Requests, Call(r) \/ ClientGone(r)
    PROVE  Types'
<1> USE DEF jobVars, resultVars, masterVars, CallStages
<1> DEFINE Replies == Statuses \ {"QUEUED"}
<1>e. <<>> \in Seq(Replies)
  OBVIOUS
<1>1. CASE CreateQueue(r)
  <2>1. faults' \in 0 .. MaxFaults
    BY <1>1, FaultTypes DEF CreateQueue, CallFails
  <2> QED  BY <1>1, <2>1 DEF Types, CreateQueue
<1>2. CASE PublishJob(r)
  <2>1. faults' \in 0 .. MaxFaults
    BY <1>2, FaultTypes DEF PublishJob, CallFails
  <2>2. at[r] = NoWorker
    BY <1>2 DEF Types, PublishJob, InHandler
  <2> QED  BY <1>2, <2>1, <2>2 DEF Types, PublishJob, InHandler
<1>3. CASE SendQueued(r)
  <2>1. CASE r \in gone
    BY <1>3, <2>1 DEF SendQueued, Types
  <2>2. CASE r \notin gone
    <3>1. stream' \in [Requests -> Seq(Statuses)]
      BY <1>3, <2>2, SendTypes DEF SendQueued, Statuses
    <3> QED  BY <1>3, <2>2, <3>1 DEF Types, SendQueued
  <2> QED  BY <2>1, <2>2
<1>4. CASE Receive(r)
  <2>0. results \in [Requests -> Seq(Replies)]
    BY DEF Types
  <2>1. Head(results[r]) \in Replies /\ Tail(results[r]) \in Seq(Replies)
    BY <1>4, <2>0, TailLemma DEF Receive
  <2>2. stream' \in [Requests -> Seq(Statuses)]
    BY <1>4, <2>1, SendTypes DEF Receive
  <2> HIDE DEF Replies
  <2>3. /\ results' \in [Requests -> Seq(Replies)]
        /\ call' \in [Requests -> CallStages]
        /\ resultQueue' \in [Requests -> {"none", "open", "deleted"}]
        /\ \A q \in Requests : call'[q] = call[q] \/ call'[q] = "returned"
    <3>1. CASE Head(results[r]) \in Terminal
      BY <1>e, <1>4, <2>0, <3>1 DEF Types, Receive, DeleteQueue
    <3>2. CASE Head(results[r]) \notin Terminal
      BY <1>4, <2>0, <2>1, <3>2 DEF Types, Receive
    <3> QED  BY <3>1, <3>2
  <2> USE DEF Replies
  <2> QED  BY <1>4, <2>2, <2>3 DEF Types, Receive
<1>5. CASE StopConsuming(r)
  <2>1. faults' \in 0 .. MaxFaults
    BY <1>5, FaultTypes DEF StopConsuming, CallFails
  <2> QED  BY <1>e, <1>5, <2>1 DEF Types, StopConsuming, DeleteQueue
<1>6. CASE ClientGone(r)
  BY <1>6 DEF Types, ClientGone
<1>7. CASE Consume(r)
  <2>1. faults' \in 0 .. MaxFaults
    BY <1>7, FaultTypes DEF Consume, CallFails
  <2> QED  BY <1>7, <2>1 DEF Types, Consume
<1> QED  BY <1>1, <1>2, <1>3, <1>4, <1>5, <1>6, <1>7 DEF Call

\* Types are kept by the steps of a handler.
LEMMA HandleTypes ==
    ASSUME Types, NEW r \in Requests, Handle(r)
    PROVE  Types'
<1> USE RunAssumption DEF jobVars, resultVars, masterVars, InHandler
<1>1. StatusOf(r) \in Terminal
  BY DEF StatusOf, Terminal, Outcomes
<1>2. CASE BuildFailed(r)
  BY <1>2, AnswerTypes DEF BuildFailed, Terminal, Types
<1>3. CASE StartRun(r)
  <2>1. results' \in [Requests -> Seq(Statuses \ {"QUEUED"})] /\ resultQueue' = resultQueue
    <3>1. CASE Reply(r, "RUNNING")
      BY <3>1, ReplyTypes DEF Statuses, Terminal
    <3>2. CASE UNCHANGED resultVars
      BY <3>2 DEF Types
    <3> QED  BY <1>3, <3>1, <3>2 DEF StartRun
  <2>2. faults' \in 0 .. MaxFaults
    BY <1>3 DEF Types, StartRun, PublishFails, Fault
  <2> QED  BY <1>3, <2>1, <2>2 DEF Types, StartRun
<1>4. CASE EndRun(r)
  BY <1>1, <1>4, AnswerTypes DEF EndRun, Types
<1>5. CASE RunKilled(r)
  <2>1. killed' \subseteq Requests
    BY <1>5 DEF RunKilled, Types
  <2> QED  BY <1>5, <2>1, AnswerTypes DEF RunKilled, Terminal
<1>6. CASE RunError(r)
  <2>1. results' \in [Requests -> Seq(Statuses \ {"QUEUED"})] /\ resultQueue' = resultQueue
    <3>1. CASE Reply(r, "GRADER_ERROR")
      BY <3>1, ReplyTypes DEF Statuses, Terminal
    <3>2. CASE UNCHANGED resultVars
      BY <3>2 DEF Types
    <3> QED  BY <1>6, <3>1, <3>2 DEF RunError
  <2>2. faults' \in 0 .. MaxFaults
    BY <1>6 DEF Types, RunError, Fault
  <2> QED  BY <1>6, <2>1, <2>2 DEF Types, RunError
<1>7. CASE Ack(r)
  BY <1>7 DEF Types, Ack
<1> QED  BY <1>2, <1>3, <1>4, <1>5, <1>6, <1>7 DEF Handle

\* Types are kept by the other steps, of workers and of the master as a whole.
LEMMA ProcessTypes ==
    ASSUME Types,
           \/ \E r \in Requests, w \in Workers : Deliver(r, w)
           \/ \E w \in Workers : Shutdown(w) \/ Exit(w) \/ Crash(w) \/ Restart(w)
           \/ MasterCrash
    PROVE  Types'
<1> USE RunAssumption, NoWorkerAssumption
    DEF jobVars, resultVars, masterVars, InHandler, CallStages
<1>1. ASSUME NEW r \in Requests, NEW w \in Workers, Deliver(r, w)
      PROVE  Types'
  BY <1>1 DEF Types, Deliver
<1>2. ASSUME NEW w \in Workers, Shutdown(w)
      PROVE  Types'
  BY <1>2 DEF Types, Shutdown, Fault
<1>3. ASSUME NEW w \in Workers, Exit(w) \/ Crash(w)
      PROVE  Types'
  <2>1. Die(w) /\ faults' \in 0 .. MaxFaults
    BY <1>3 DEF Types, Exit, Crash, Fault
  <2> QED  BY <2>1 DEF Types, Die
<1>4. ASSUME NEW w \in Workers, Restart(w)
      PROVE  Types'
  BY <1>4 DEF Types, Restart
<1>5. CASE MasterCrash
  <2>1. <<>> \in Seq(Statuses \ {"QUEUED"})
    OBVIOUS
  <2> QED  BY <1>5, <2>1 DEF Types, MasterCrash, Fault
<1> QED  BY <1>1, <1>2, <1>3, <1>4, <1>5

\* Types are an invariant.
LEMMA TypesInvariant == Spec => []Types
<1>1. Init => Types
  BY RunAssumption, NoWorkerAssumption DEF Init, Types, InHandler, CallStages
<1>2. Types /\ [Next]_vars => Types'
  <2> SUFFICES ASSUME Types, [Next]_vars
               PROVE  Types'
    OBVIOUS
  <2>1. CASE UNCHANGED vars
    BY <2>1 DEF Types, vars
  <2>2. CASE Next
    BY <2>2, CallTypes, HandleTypes, ProcessTypes DEF Next
  <2> QED  BY <2>1, <2>2
<1> QED  BY <1>1, <1>2, PTL DEF Spec

(***************************************************************************)
(* The prefetch bound.                                                     *)
(***************************************************************************)

Held(w) == {r \in Requests : at[r] = w}

Prefetch == \A w \in Workers : Cardinality(Held(w)) <= RunQueueAmount

\* What a worker holds is finite.
LEMMA HeldFinite ==
    ASSUME NEW w \in Workers
    PROVE  IsFiniteSet(Held(w)) /\ Cardinality(Held(w)) \in Nat
BY RunAssumption, FS_Subset, FS_CardinalityType DEF Held

\* A worker that holds no more than it did keeps the bound.
LEMMA HeldShrinks ==
    ASSUME Prefetch, \A w \in Workers : Held(w)' \subseteq Held(w)
    PROVE  Prefetch'
<1> SUFFICES ASSUME NEW w \in Workers
             PROVE  Cardinality(Held(w)') <= RunQueueAmount
  BY DEF Prefetch
<1>1. Cardinality(Held(w)') <= Cardinality(Held(w)) /\ Cardinality(Held(w)') \in Nat
  BY HeldFinite, FS_Subset, FS_CardinalityType
<1> QED  BY <1>1, HeldFinite, RunAssumption DEF Prefetch

\* Every step keeps the prefetch bound: Deliver fills a slot that is free, and nothing
\* else gives a worker a message.
LEMMA PrefetchStep ==
    ASSUME Types, Prefetch, [Next]_vars
    PROVE  Prefetch'
<1> USE NoWorkerAssumption DEF jobVars
<1>1. CASE \E r \in Requests, w \in Workers : Deliver(r, w)
  <2>1. PICK r \in Requests, w \in Workers : Deliver(r, w)
    BY <1>1
  <2>2. Held(w)' = Held(w) \cup {r}
    BY <2>1 DEF Held, Deliver, Types
  <2>3. Cardinality(Held(w)') <= RunQueueAmount
    <3>1. Cardinality(Held(w)) < RunQueueAmount
      BY <2>1 DEF Deliver, Held
    <3>2. \/ Cardinality(Held(w) \cup {r}) = Cardinality(Held(w))
          \/ Cardinality(Held(w) \cup {r}) = Cardinality(Held(w)) + 1
      BY HeldFinite, FS_AddElement
    <3>3. Cardinality(Held(w)) \in Nat
      BY HeldFinite
    <3> QED  BY <2>2, <3>1, <3>2, <3>3, RunAssumption
  <2>4. ASSUME NEW v \in Workers, v # w
        PROVE  Cardinality(Held(v)') <= RunQueueAmount
    <3>1. Held(v)' \subseteq Held(v)
      BY <2>1, <2>4 DEF Held, Deliver, Types
    <3>2. Cardinality(Held(v)') <= Cardinality(Held(v)) /\ Cardinality(Held(v)') \in Nat
      BY <3>1, HeldFinite, FS_Subset, FS_CardinalityType
    <3> QED  BY <3>2, HeldFinite, RunAssumption DEF Prefetch
  <2> QED  BY <2>3, <2>4 DEF Prefetch
<1>2. CASE \E r \in Requests : Ack(r)
  <2>1. \A w \in Workers : Held(w)' \subseteq Held(w)
    BY <1>2 DEF Held, Ack, Types
  <2> QED  BY <2>1, HeldShrinks
<1>3. CASE \E w \in Workers : Exit(w) \/ Crash(w)
  <2>1. \A w \in Workers : Held(w)' \subseteq Held(w)
    BY <1>3 DEF Held, Exit, Crash, Die, Types
  <2> QED  BY <2>1, HeldShrinks
<1>4. CASE UNCHANGED at
  BY <1>4 DEF Prefetch, Held
<1>5. \/ \E r \in Requests, w \in Workers : Deliver(r, w)
      \/ \E r \in Requests : Ack(r)
      \/ \E w \in Workers : Exit(w) \/ Crash(w)
      \/ UNCHANGED at
  BY DEF Next, vars, Call, CreateQueue, PublishJob, SendQueued, Consume, Receive, StopConsuming,
         ClientGone, Handle, BuildFailed, StartRun, EndRun, RunKilled, RunError,
         PublishAnswer, Shutdown, Restart, MasterCrash
<1> QED  BY <1>1, <1>2, <1>3, <1>4, <1>5

\* TypeOK, for any requests and workers: in particular no worker has more messages
\* than RUN_QUEUE_AMOUNT, whatever dies and is delivered again.
THEOREM TypeCorrect == Spec => []TypeOK
<1>1. Init => Prefetch
  <2> SUFFICES ASSUME Init, NEW w \in Workers
               PROVE  Cardinality(Held(w)) <= RunQueueAmount
    BY DEF Prefetch
  <2>1. Held(w) = {}
    BY NoWorkerAssumption DEF Init, Held
  <2> QED  BY <2>1, FS_EmptySet, RunAssumption
<1>2. Types /\ Prefetch => TypeOK
  BY DEF Types, Prefetch, Held, TypeOK
<1> QED  BY <1>1, <1>2, PrefetchStep, TypesInvariant, PTL DEF Spec

(***************************************************************************)
(* The stream.                                                             *)
(***************************************************************************)

\* What has been sent says where the call is; the converse is what a refinement needs.
StreamInv ==
    \A r \in Requests :
        /\ call[r] \in {"idle", "declared", "published"} => stream[r] = <<>>
        /\ call[r] = "told" => stream[r] = <<"QUEUED">>
        /\ call[r] = "consuming" =>
            stream[r] # <<>> /\ stream[r][Len(stream[r])] \notin Terminal
        /\ call[r] = "returned" /\ resultQueue[r] = "open" =>
            stream[r] \in {<<>>, <<"QUEUED">>}

\* Only two steps send: QUEUED when nothing was sent, and a result while the call
\* consumes.
LEMMA StreamStep ==
    ASSUME Types, StreamInv, [Next]_vars
    PROVE  StreamInv' /\ [Client!Next]_stream
<1> USE DEF jobVars, resultVars, masterVars, StreamInv
<1>1. CASE \E r \in Requests : SendQueued(r)
  <2>1. PICK r \in Requests : SendQueued(r)
    BY <1>1
  <2>2. stream[r] = <<>> /\ stream \in [Requests -> Seq(Statuses)] /\ "QUEUED" \in Statuses
    BY <2>1 DEF SendQueued, Types, Statuses
  <2>3. CASE r \in gone
    BY <2>1, <2>2, <2>3 DEF SendQueued, Types
  <2>4. CASE r \notin gone
    <3>1. Send(r, "QUEUED")
      BY <2>1, <2>4 DEF SendQueued
    <3>2. Append(<<>>, "QUEUED") = <<"QUEUED">>
      OBVIOUS
    <3>3. stream' = [stream EXCEPT ![r] = <<"QUEUED">>]
      BY <2>2, <3>1, <3>2 DEF Send
    <3>4. StreamInv'
      BY <2>1, <2>2, <2>4, <3>3 DEF SendQueued, Types
    <3>5. Client!Queued(r)
      BY <2>2, <3>1 DEF Client!Queued, Client!Send, Send
    <3> QED  BY <3>4, <3>5 DEF Client!Next
  <2> QED  BY <2>3, <2>4
<1>2. CASE \E r \in Requests : Receive(r)
  <2>1. PICK r \in Requests : Receive(r)
    BY <1>2
  <2> DEFINE s == Head(results[r])
  <2>2. s \in Statuses \ {"QUEUED"}
    BY <2>1, TailLemma DEF Receive, Types
  <2>3. /\ stream[r] # <<>> /\ stream[r][Len(stream[r])] \notin Terminal
        /\ stream \in [Requests -> Seq(Statuses)]
        /\ Send(r, s)
    BY <2>1 DEF Receive, Types
  <2>4. stream'[r] # <<>> /\ stream'[r][Len(stream'[r])] = s
    BY <2>2, <2>3, AppendLemma DEF Send
  <2>5. StreamInv'
    <3>1. CASE s \in Terminal
      BY <2>1, <2>3, <2>4, <3>1 DEF Receive, Send, DeleteQueue, Types
    <3>2. CASE s \notin Terminal
      BY <2>1, <2>3, <2>4, <3>2 DEF Receive, Send, Types
    <3> QED  BY <3>1, <3>2
  <2> HIDE DEF s
  <2>6. Client!Running(r) \/ Client!End(r)
    BY <2>2, <2>3 DEF Client!Running, Client!End, Client!Ended, Client!Send, Send, Statuses
  <2> QED  BY <2>5, <2>6 DEF Client!Next
<1>3. CASE \E r \in Requests :
               CreateQueue(r) \/ PublishJob(r) \/ Consume(r) \/ StopConsuming(r)
  <2>1. PICK r \in Requests :
            CreateQueue(r) \/ PublishJob(r) \/ Consume(r) \/ StopConsuming(r)
    BY <1>3
  <2>2. UNCHANGED stream
    BY <2>1 DEF CreateQueue, PublishJob, Consume, StopConsuming
  <2>3. CASE CreateQueue(r)
    BY <2>2, <2>3 DEF CreateQueue, Types
  <2>4. CASE PublishJob(r)
    BY <2>2, <2>4 DEF PublishJob, Types
  <2>5. CASE StopConsuming(r)
    BY <2>2, <2>5 DEF StopConsuming, DeleteQueue, Types
  <2>6. CASE Consume(r)
    <3>1. <<"QUEUED">> # <<>> /\ <<"QUEUED">>[Len(<<"QUEUED">>)] = "QUEUED"
      OBVIOUS
    <3>2. "QUEUED" \notin Terminal
      BY DEF Terminal
    <3>3. \/ call' = [call EXCEPT ![r] = "consuming"]
          \/ call' = [call EXCEPT ![r] = "returned"]
      BY <2>6 DEF Consume
    <3>4. call[r] = "told" /\ stream[r] = <<"QUEUED">> /\ UNCHANGED resultQueue
      BY <2>6 DEF Consume
    <3> DEFINE first == <<"QUEUED">>
    <3> HIDE DEF first
    <3>5. first # <<>> /\ first[Len(first)] \notin Terminal /\ stream[r] = first
      BY <3>1, <3>2, <3>4 DEF first
    <3>6. stream'[r] \in {<<>>, <<"QUEUED">>}
      BY <2>2, <3>4
    <3>7. \A q \in Requests : q # r => call'[q] = call[q]
      BY <3>3 DEF Types
    <3>8. StreamInv'
      BY <2>2, <3>3, <3>4, <3>5, <3>6, <3>7 DEF Types
    <3> QED  BY <2>2, <3>8
  <2> QED  BY <2>1, <2>2, <2>3, <2>4, <2>5, <2>6
<1>4. CASE MasterCrash
  <2>1. UNCHANGED stream
    BY <1>4 DEF MasterCrash
  <2>2. ASSUME NEW r \in Requests
        PROVE  /\ call'[r] \in {"idle", "returned"} /\ (call'[r] = "idle" => call[r] = "idle")
               /\ resultQueue'[r] = "open" => resultQueue[r] = "open" /\ call[r] # "consuming"
    BY <1>4 DEF MasterCrash, Types
  <2>3. ASSUME NEW r \in Requests, call[r] # "consuming", resultQueue[r] = "open"
        PROVE  stream[r] \in {<<>>, <<"QUEUED">>}
    <3>1. call[r] \in CallStages
      BY DEF Types
    <3> QED  BY <2>3, <3>1 DEF CallStages
  <2>4. StreamInv'
    BY <2>1, <2>2, <2>3
  <2> QED  BY <2>1, <2>4
<1>5. CASE UNCHANGED <<call, stream, resultQueue>>
  BY <1>5
<1>6. \/ \E r \in Requests :
            \/ SendQueued(r) \/ Consume(r) \/ Receive(r)
            \/ CreateQueue(r) \/ PublishJob(r) \/ StopConsuming(r)
      \/ MasterCrash
      \/ UNCHANGED <<call, stream, resultQueue>>
  BY DEF Next, vars, Call, ClientGone, Handle, BuildFailed, StartRun, EndRun, RunKilled,
         RunError, Ack, PublishAnswer, Reply, Deliver, Shutdown, Exit, Crash, Die, Restart
<1> QED  BY <1>1, <1>2, <1>3, <1>4, <1>5, <1>6

\* The invariant of the stream.
LEMMA StreamInvariant == Spec => []StreamInv
<1>1. Init => StreamInv
  BY DEF Init, StreamInv
<1> QED  BY <1>1, StreamStep, TypesInvariant, PTL DEF Spec

\* What a client sees is a StatusStream: QUEUED first, though the message is published
\* before QUEUED is sent, and nothing after a terminal status, though the program may
\* be run and answered twice.
THEOREM StreamRefinement == Spec => StreamShape
<1>1. Init => Client!Init
  BY DEF Init, Client!Init
<1> QED  BY <1>1, StreamStep, TypesInvariant, StreamInvariant, PTL
         DEF Spec, StreamShape, Client!Spec

\* Faults, departures and kills are never taken back.
LEMMA FaultsStay ==
    ASSUME Types, [Next]_vars
    PROVE  /\ faults \in Nat /\ (faults' = faults \/ faults' = faults + 1)
           /\ gone \subseteq gone' /\ killed \subseteq killed'
<1>1. faults' = faults \/ faults' = faults + 1
  <2>1. ASSUME NEW q \in Requests, NEW s, PublishAnswer(q, s)
        PROVE  faults' = faults \/ faults' = faults + 1
    BY <2>1 DEF PublishAnswer, PublishFails, Fault
  <2>2. ASSUME NEW q \in Requests, Handle(q)
        PROVE  faults' = faults \/ faults' = faults + 1
    BY <2>1, <2>2 DEF Handle, BuildFailed, StartRun, EndRun, RunKilled, RunError, Ack,
       PublishFails, Fault
  <2>3. ASSUME NEW q \in Requests, Call(q) \/ ClientGone(q)
        PROVE  faults' = faults \/ faults' = faults + 1
    BY <2>3 DEF Call, CreateQueue, PublishJob, SendQueued, Consume, Receive, StopConsuming,
       CallFails, Fault, ClientGone
  <2> QED  BY <2>2, <2>3 DEF Next, vars, Deliver, Shutdown, Exit, Crash, Restart,
           MasterCrash, Fault
<1>2. faults \in Nat
  BY RunAssumption DEF Types
<1>3. gone \subseteq gone' /\ killed \subseteq killed'
  BY DEF Next, vars, masterVars, Call, CreateQueue, PublishJob, SendQueued, Consume, Receive,
     StopConsuming, ClientGone, Handle, BuildFailed, StartRun, EndRun, RunKilled, RunError,
     Ack, PublishAnswer, Deliver, Shutdown, Exit, Crash, Die, Restart, MasterCrash
<1> QED  BY <1>1, <1>2, <1>3

\* A call that returned and left its queue was cut off: its client went, or there was a
\* fault.
CutInv ==
    \A r \in Requests :
        call[r] = "returned" /\ resultQueue[r] = "open" => r \in gone \/ faults > 0

\* The steps that end a call without its queue have a client gone or a fault.
LEMMA CutStep ==
    ASSUME Types, CutInv, [Next]_vars
    PROVE  CutInv'
<1> SUFFICES ASSUME NEW r \in Requests, call'[r] = "returned", resultQueue'[r] = "open"
             PROVE  r \in gone' \/ faults' > 0
  BY DEF CutInv
<1> USE DEF jobVars, resultVars, masterVars, vars
<1>0. /\ faults \in Nat /\ (faults' = faults \/ faults' = faults + 1)
      /\ gone \subseteq gone'
  BY FaultsStay
<1>1. CASE call[r] = "returned" /\ resultQueue[r] = "open"
  BY <1>0, <1>1 DEF CutInv
<1>2. CASE \E q \in Requests : CreateQueue(q) \/ PublishJob(q) \/ Consume(q)
  <2>1. PICK q \in Requests : CreateQueue(q) \/ PublishJob(q) \/ Consume(q)
    BY <1>2
  <2>2. CASE CallFails(q)
    <3>1. q \in gone \/ faults' > 0
      BY <1>0, <2>2 DEF CallFails, Fault
    <3>2. q # r => call[r] = "returned" /\ resultQueue[r] = "open"
      BY <2>1 DEF CreateQueue, PublishJob, Consume, Types
    <3> QED  BY <1>0, <1>1, <3>1, <3>2
  <2>3. CASE ~ CallFails(q)
    BY <1>1, <2>1, <2>3 DEF CreateQueue, PublishJob, Consume, Types
  <2> QED  BY <2>2, <2>3
<1>3. CASE \E q \in Requests : SendQueued(q)
  BY <1>0, <1>1, <1>3 DEF SendQueued, Types
<1>4. CASE \E q \in Requests : Receive(q) \/ StopConsuming(q)
  BY <1>1, <1>4 DEF Receive, StopConsuming, DeleteQueue, Types
<1>5. CASE MasterCrash
  BY <1>0, <1>5 DEF MasterCrash, Fault
<1>6. CASE UNCHANGED <<call, resultQueue>>
  BY <1>1, <1>6
<1>7. \/ \E q \in Requests :
            \/ CreateQueue(q) \/ PublishJob(q) \/ Consume(q) \/ SendQueued(q)
            \/ Receive(q) \/ StopConsuming(q)
      \/ MasterCrash
      \/ UNCHANGED <<call, resultQueue>>
  BY DEF Next, Call, ClientGone, Handle, BuildFailed, StartRun, EndRun, RunKilled,
         RunError, Ack, PublishAnswer, Reply, Deliver, Shutdown, Exit, Crash, Die, Restart
<1> QED  BY <1>2, <1>3, <1>4, <1>5, <1>6, <1>7

\* A result queue that outlives its call was never consumed, though QUEUED may have been
\* sent; and then the client had gone or there was a fault.
THEOREM QueuesDeleted == Spec => []QueueDeleted
<1>1. Init => CutInv
  BY DEF Init, CutInv
<1>2. StreamInv /\ CutInv => QueueDeleted
  BY DEF StreamInv, CutInv, QueueDeleted
<1> QED  BY <1>1, <1>2, CutStep, TypesInvariant, StreamInvariant, PTL DEF Spec

(***************************************************************************)
(* What is answered.                                                       *)
(***************************************************************************)

\* What a client may be told: its own status, or that it could not be run, and, once a
\* command of it was killed, that it failed.
Allowed(r) ==
    {s \in Statuses :
        s \in Terminal =>
            \/ s \in {StatusOf(r), "GRADER_ERROR"}
            \/ r \in killed /\ s \in {"COMPILE_FAILED", "RUN_FAILED"}}

TruthInv ==
    \A r \in Requests :
        ElemsOf(stream[r]) \subseteq Allowed(r) /\ ElemsOf(results[r]) \subseteq Allowed(r)

\* Kills are never taken back, so what was allowed stays so.
LEMMA AllowedGrows ==
    ASSUME Types, [Next]_vars, NEW r \in Requests
    PROVE  Allowed(r) \subseteq Allowed(r)'
BY FaultsStay DEF Allowed, StatusOf

\* A reply of an allowed status leaves what waits allowed.
LEMMA ReplyAllowed ==
    ASSUME Types, TruthInv, [Next]_vars,
           NEW r \in Requests, NEW s \in Statuses \ {"QUEUED"}, s \in Allowed(r)', Reply(r, s)
    PROVE  \A q \in Requests : ElemsOf(results'[q]) \subseteq Allowed(q)'
<1>1. \A q \in Requests : ElemsOf(results[q]) \subseteq Allowed(q)'
  BY AllowedGrows DEF TruthInv
<1>2. results \in [Requests -> Seq(Statuses \ {"QUEUED"})]
  BY DEF Types
<1>3. ElemsOf(Append(results[r], s)) = ElemsOf(results[r]) \cup {s}
  BY <1>2, AppendLemma
<1> QED  BY <1>1, <1>2, <1>3 DEF Reply

\* The program's own status is allowed, so is every status that is not terminal or says
\* that it could not be run, and those of a killed command once there was one.
LEMMA AllowedStatuses ==
    ASSUME NEW r \in Requests, Outcome \in [Requests -> Outcomes]
    PROVE  /\ StatusOf(r) \in Terminal /\ StatusOf(r) \in Allowed(r)'
           /\ \A s \in {"QUEUED", "RUNNING", "GRADER_ERROR"} : s \in Allowed(r)'
           /\ r \in killed' => \A s \in {"COMPILE_FAILED", "RUN_FAILED"} : s \in Allowed(r)'
BY DEF Allowed, StatusOf, Outcomes, Statuses, Terminal

\* Every step keeps TruthInv: only the handler of a program that was killed answers with
\* another status.
LEMMA TruthStep ==
    ASSUME Types, TruthInv, [Next]_vars
    PROVE  TruthInv'
<1> USE RunAssumption
<1> DEFINE Told == \A q \in Requests : ElemsOf(stream'[q]) \subseteq Allowed(q)'
           Wait == \A q \in Requests : ElemsOf(results'[q]) \subseteq Allowed(q)'
<1>t. /\ stream \in [Requests -> Seq(Statuses)]
      /\ results \in [Requests -> Seq(Statuses \ {"QUEUED"})]
  BY DEF Types
<1>e. ElemsOf(<<>>) = {}
  BY DEF ElemsOf
<1>0. \A q \in Requests :
        ElemsOf(stream[q]) \subseteq Allowed(q)' /\ ElemsOf(results[q]) \subseteq Allowed(q)'
  BY AllowedGrows DEF TruthInv
<1>1. Told
  <2>1. CASE \E r \in Requests : SendQueued(r)
    <3>1. PICK r \in Requests : SendQueued(r)
      BY <2>1
    <3>2. ElemsOf(Append(stream[r], "QUEUED")) = ElemsOf(stream[r]) \cup {"QUEUED"}
      BY <1>t, AppendLemma DEF Statuses
    <3>3. "QUEUED" \in Allowed(r)'
      BY AllowedStatuses
    <3> QED  BY <1>0, <1>t, <3>1, <3>2, <3>3 DEF SendQueued, Send
  <2>2. CASE \E r \in Requests : Receive(r)
    <3>1. PICK r \in Requests : Receive(r)
      BY <2>2
    <3> DEFINE s == Head(results[r])
    <3>2. s \in Statuses /\ s \in ElemsOf(results[r])
      BY <1>t, <3>1, TailLemma DEF Receive
    <3>3. Send(r, s)
      BY <3>1 DEF Receive
    <3> HIDE DEF s
    <3>4. ElemsOf(Append(stream[r], s)) = ElemsOf(stream[r]) \cup {s}
      BY <1>t, <3>2, AppendLemma
    <3> QED  BY <1>0, <1>t, <3>2, <3>3, <3>4 DEF Send
  <2>3. \/ \E r \in Requests : SendQueued(r)
        \/ \E r \in Requests : Receive(r)
        \/ UNCHANGED stream
    BY DEF Next, vars, masterVars, Call, CreateQueue, PublishJob, Consume, StopConsuming, ClientGone,
       Handle, BuildFailed, StartRun, EndRun, RunKilled, RunError, Ack, PublishAnswer,
       Deliver, Shutdown, Exit, Crash, Die, Restart, MasterCrash
  <2> QED  BY <1>0, <2>1, <2>2, <2>3
<1>2. Wait
  <2>1. ASSUME NEW r \in Requests, NEW s \in Terminal, s \in Allowed(r)', PublishAnswer(r, s)
        PROVE  Wait
    <3>1. CASE Reply(r, s)
      BY <2>1, <3>1, ReplyAllowed DEF Statuses, Terminal
    <3>2. CASE UNCHANGED resultVars
      BY <1>0, <3>2 DEF resultVars
    <3> QED  BY <2>1, <3>1, <3>2 DEF PublishAnswer
  <2>2. ASSUME NEW r \in Requests, Handle(r)
        PROVE  Wait
    <3>1. CASE BuildFailed(r)
      BY <2>1, <3>1, AllowedStatuses DEF BuildFailed, Terminal
    <3>2. CASE StartRun(r)
      <4>1. CASE Reply(r, "RUNNING")
        BY <4>1, ReplyAllowed, AllowedStatuses DEF Statuses, Terminal
      <4>2. CASE UNCHANGED resultVars
        BY <1>0, <4>2 DEF resultVars
      <4> QED  BY <3>2, <4>1, <4>2 DEF StartRun
    <3>3. CASE EndRun(r)
      BY <2>1, <3>3, AllowedStatuses DEF EndRun
    <3>4. CASE RunKilled(r)
      <4>1. PICK s \in {"COMPILE_FAILED", "RUN_FAILED", "GRADER_ERROR"} : PublishAnswer(r, s)
        BY <3>4 DEF RunKilled
      <4>2. r \in killed'
        BY <3>4 DEF RunKilled
      <4> QED  BY <2>1, <4>1, <4>2, AllowedStatuses DEF Statuses, Terminal
    <3>5. CASE RunError(r)
      <4>1. CASE Reply(r, "GRADER_ERROR")
        BY <4>1, ReplyAllowed, AllowedStatuses DEF Statuses, Terminal
      <4>2. CASE UNCHANGED resultVars
        BY <1>0, <4>2 DEF resultVars
      <4> QED  BY <3>5, <4>1, <4>2 DEF RunError
    <3>6. CASE Ack(r)
      BY <1>0, <3>6 DEF Ack, resultVars
    <3> QED  BY <2>2, <3>1, <3>2, <3>3, <3>4, <3>5, <3>6 DEF Handle
  <2>3. ASSUME NEW r \in Requests, Receive(r)
        PROVE  Wait
    <3>1. ElemsOf(Tail(results[r])) \subseteq ElemsOf(results[r])
      BY <1>t, <2>3, TailLemma DEF Receive
    <3>2. \A q \in Requests :
            \/ results'[q] = results[q]
            \/ results'[q] = <<>>
            \/ q = r /\ results'[q] = Tail(results[r])
      <4>1. CASE Head(results[r]) \in Terminal
        <5>1. results' = [results EXCEPT ![r] = <<>>]
          BY <2>3, <4>1 DEF Receive, DeleteQueue
        <5> QED  BY <1>t, <5>1
      <4>2. CASE Head(results[r]) \notin Terminal
        <5>1. results' = [results EXCEPT ![r] = Tail(results[r])]
          BY <2>3, <4>2 DEF Receive
        <5> QED  BY <1>t, <5>1
      <4> QED  BY <4>1, <4>2
    <3> QED  BY <1>0, <1>e, <3>1, <3>2
  <2>4. ASSUME NEW r \in Requests, StopConsuming(r)
        PROVE  Wait
    <3>1. \A q \in Requests : results'[q] = results[q] \/ results'[q] = <<>>
      BY <1>t, <2>4 DEF StopConsuming, DeleteQueue
    <3> QED  BY <1>0, <1>e, <3>1
  <2>5. CASE MasterCrash
    <3>1. \A q \in Requests : results'[q] = results[q] \/ results'[q] = <<>>
      BY <1>t, <2>5 DEF MasterCrash
    <3> QED  BY <1>0, <1>e, <3>1
  <2>6. \/ \E r \in Requests : Handle(r) \/ Receive(r) \/ StopConsuming(r)
        \/ MasterCrash
        \/ UNCHANGED results
    BY DEF Next, vars, resultVars, Call, CreateQueue, PublishJob, SendQueued, Consume, ClientGone,
       Deliver, Shutdown, Exit, Crash, Die, Restart
  <2> QED  BY <1>0, <2>2, <2>3, <2>4, <2>5, <2>6
<1> QED  BY <1>1, <1>2 DEF TruthInv

\* Truthful, for any number of faults: a client is told its program's own status or that
\* it could not be run, whatever was answered twice or started again; a run of which a
\* stopping worker killed a command may be told as failed, and never as passed.
THEOREM Truth == Spec => []Truthful
<1>1. Init => TruthInv
  BY DEF Init, TruthInv, ElemsOf
<1>2. TruthInv => Truthful
  BY DEF TruthInv, Truthful, Allowed, Seen, ElemsOf
<1> QED  BY <1>1, <1>2, TruthStep, TypesInvariant, PTL DEF Spec

(***************************************************************************)
(* The answer is on the way.                                               *)
(***************************************************************************)

\* AnswerOnTheWay, from the moment the message is published, and with what it takes: the
\* result queue is there until the call ends, and what leaves it ends the call.
Coming(r) ==
    \/ job[r] \in {"queued", "received", "running"}
    \/ job[r] \in {"answered", "acked"} /\ ElemsOf(results[r]) \cap Terminal # {}
    \/ job[r] \in {"answered", "acked"} /\ r \in dropped

AnswerInv ==
    \A r \in Requests :
        /\ call[r] \in {"declared", "published", "told", "consuming"} => resultQueue[r] = "open"
        /\ call[r] \in {"published", "told", "consuming"} => Coming(r)

\* A terminal status that is replied waits on the queue, if that is open.
LEMMA ReplyComes ==
    ASSUME Types, NEW r \in Requests, NEW s \in Terminal, Reply(r, s),
           job' = [job EXCEPT ![r] = "answered"], resultQueue[r] = "open"
    PROVE  Coming(r)'
<1>1. s \in Statuses \ {"QUEUED"}
  BY DEF Statuses, Terminal
<1>2. results \in [Requests -> Seq(Statuses \ {"QUEUED"})] /\ job'[r] = "answered"
  BY DEF Types
<1>3. ElemsOf(results'[r]) = ElemsOf(results[r]) \cup {s}
  BY <1>1, <1>2, AppendLemma DEF Reply
<1> QED  BY <1>2, <1>3 DEF Coming

\* The steps of a handler keep AnswerInv: each answer either waits or is dropped.
LEMMA HandleAnswers ==
    ASSUME Types, AnswerInv, NEW r \in Requests, Handle(r)
    PROVE  AnswerInv'
<1> USE DEF jobVars, resultVars, masterVars, InHandler
<1>0. StatusOf(r) \in Terminal
  BY RunAssumption DEF StatusOf, Terminal, Outcomes
<1>1. ASSUME NEW s \in Terminal, PublishAnswer(r, s)
      PROVE  AnswerInv'
  <2>1. \A q \in Requests : resultQueue'[q] = resultQueue[q] /\ call'[q] = call[q]
    BY <1>1 DEF PublishAnswer, Reply
  <2>2. \A q \in Requests \ {r} : Coming(q) => Coming(q)'
    BY <1>1 DEF PublishAnswer, Reply, Coming, Types
  <2>3. call[r] \in {"published", "told", "consuming"} => Coming(r)'
    <3>1. CASE Reply(r, s)
      BY <1>1, <3>1, ReplyComes DEF PublishAnswer, AnswerInv
    <3>2. CASE r \in dropped'
      BY <1>1, <3>2 DEF PublishAnswer, Coming, Types
    <3> QED  BY <1>1, <3>1, <3>2 DEF PublishAnswer
  <2> QED  BY <2>1, <2>2, <2>3 DEF AnswerInv
<1>2. CASE BuildFailed(r)
  BY <1>1, <1>2 DEF BuildFailed, Terminal
<1>3. CASE StartRun(r)
  <2>1. \A q \in Requests : resultQueue'[q] = resultQueue[q] /\ call'[q] = call[q]
    BY <1>3 DEF StartRun, Reply
  <2>2. \A q \in Requests \ {r} : Coming(q) => Coming(q)'
    BY <1>3 DEF StartRun, Reply, Coming, Types
  <2>3. Coming(r)'
    BY <1>3 DEF StartRun, Coming, Types
  <2> QED  BY <2>1, <2>2, <2>3 DEF AnswerInv
<1>4. CASE EndRun(r)
  BY <1>0, <1>1, <1>4 DEF EndRun
<1>5. CASE RunKilled(r)
  BY <1>1, <1>5 DEF RunKilled, Terminal
<1>6. CASE RunError(r)
  <2>1. \A q \in Requests : resultQueue'[q] = resultQueue[q] /\ call'[q] = call[q]
    BY <1>6 DEF RunError, Reply
  <2>2. \A q \in Requests \ {r} : Coming(q) => Coming(q)'
    BY <1>6 DEF RunError, Reply, Coming, Types
  <2>3. call[r] \in {"published", "told", "consuming"} => Coming(r)'
    <3>1. CASE Reply(r, "GRADER_ERROR")
      BY <1>6, <3>1, ReplyComes DEF RunError, AnswerInv, Terminal
    <3>2. CASE r \in dropped'
      BY <1>6, <3>2 DEF RunError, Coming, Types
    <3> QED  BY <1>6, <3>1, <3>2 DEF RunError
  <2> QED  BY <2>1, <2>2, <2>3 DEF AnswerInv
<1>7. CASE Ack(r)
  BY <1>7 DEF Ack, AnswerInv, Coming, Types
<1> QED  BY <1>2, <1>3, <1>4, <1>5, <1>6, <1>7 DEF Handle

\* The steps of a call keep AnswerInv: what it takes from the queue without an end is not
\* terminal.
LEMMA CallAnswers ==
    ASSUME Types, AnswerInv, NEW r \in Requests, Call(r)
    PROVE  AnswerInv'
<1> USE DEF jobVars, resultVars, masterVars
<1>1. CASE CreateQueue(r)
  BY <1>1 DEF CreateQueue, AnswerInv, Coming, Types
<1>2. CASE PublishJob(r)
  BY <1>2 DEF PublishJob, AnswerInv, Coming, Types
<1>3. CASE SendQueued(r)
  BY <1>3 DEF SendQueued, AnswerInv, Coming, Types
<1>4. CASE Receive(r)
  <2>1. CASE Head(results[r]) \in Terminal
    BY <1>4, <2>1 DEF Receive, DeleteQueue, AnswerInv, Coming, Types
  <2>2. CASE Head(results[r]) \notin Terminal
    <3>1. ElemsOf(results[r]) = ElemsOf(Tail(results[r])) \cup {Head(results[r])}
      BY <1>4, TailLemma DEF Receive, Types
    <3>2. /\ \A q \in Requests \ {r} : results'[q] = results[q]
          /\ results'[r] = Tail(results[r])
          /\ UNCHANGED <<call, resultQueue, job, dropped>>
      BY <1>4, <2>2 DEF Receive, Types
    <3>3. \A q \in Requests : Coming(q) => Coming(q)'
      BY <2>2, <3>1, <3>2 DEF Coming
    <3> QED  BY <3>2, <3>3 DEF AnswerInv
  <2> QED  BY <2>1, <2>2
<1>5. CASE StopConsuming(r)
  BY <1>5 DEF StopConsuming, DeleteQueue, AnswerInv, Coming, Types
<1>6. CASE Consume(r)
  BY <1>6 DEF Consume, AnswerInv, Coming, Types
<1> QED  BY <1>1, <1>2, <1>3, <1>4, <1>5, <1>6 DEF Call

\* Every step keeps AnswerInv: a worker that dies has its messages queued again.
LEMMA AnswerStep ==
    ASSUME Types, AnswerInv, [Next]_vars
    PROVE  AnswerInv'
<1> USE DEF jobVars, resultVars, masterVars, InHandler
<1>1. CASE \E r \in Requests, w \in Workers : Deliver(r, w)
  <2>1. PICK r \in Requests, w \in Workers : Deliver(r, w)
    BY <1>1
  <2>2. /\ UNCHANGED <<call, resultQueue, results, dropped>>
        /\ job' = [job EXCEPT ![r] = "received"]
    BY <2>1 DEF Deliver
  <2>3. \A q \in Requests : Coming(q) => Coming(q)'
    BY <2>2 DEF Coming, Types
  <2> QED  BY <2>2, <2>3 DEF AnswerInv
<1>2. CASE \E w \in Workers : Exit(w) \/ Crash(w)
  <2>1. PICK w \in Workers : Die(w)
    BY <1>2 DEF Exit, Crash
  <2>2. UNCHANGED <<call, resultQueue, results, dropped>>
    BY <2>1 DEF Die
  <2>3. \A q \in Requests : Coming(q) => Coming(q)'
    BY <2>1 DEF Die, Coming, Types
  <2> QED  BY <2>2, <2>3 DEF AnswerInv
<1>3. CASE MasterCrash
  <2>1. /\ UNCHANGED <<job, dropped>>
        /\ \A q \in Requests : call'[q] \in {"idle", "returned"}
    BY <1>3 DEF MasterCrash
  <2> QED  BY <2>1 DEF AnswerInv
<1>4. CASE UNCHANGED <<call, resultQueue, results, job, dropped>>
  BY <1>4 DEF AnswerInv, Coming
<1>5. \/ \E r \in Requests : Call(r) \/ Handle(r)
      \/ \E r \in Requests, w \in Workers : Deliver(r, w)
      \/ \E w \in Workers : Exit(w) \/ Crash(w)
      \/ MasterCrash
      \/ UNCHANGED <<call, resultQueue, results, job, dropped>>
  BY DEF Next, vars, ClientGone, Shutdown, Restart
<1> QED  BY <1>1, <1>2, <1>3, <1>4, <1>5, HandleAnswers, CallAnswers

\* A client that waits is not forgotten, for any number of crashes and restarts: its
\* message is queued or with a handler, or its answer waits, or could not be published.
THEOREM AnswersComing == Spec => []AnswerOnTheWay
<1>1. Init => AnswerInv
  BY DEF Init, AnswerInv
<1>2. AnswerInv => AnswerOnTheWay
  BY DEF AnswerInv, Coming, AnswerOnTheWay, Waiting, ElemsOf, InHandler
<1> QED  BY <1>1, <1>2, AnswerStep, TypesInvariant, PTL DEF Spec
==================================================================================
