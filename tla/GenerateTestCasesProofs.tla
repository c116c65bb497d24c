------------------------ MODULE GenerateTestCasesProofs ------------------------
(***************************************************************************)
(* Proofs about GenerateTestCases, for every number of test cases, limit,  *)
(* width of an order and number of faults: the call answers with all of    *)
(* its test cases in order, or with an error, and its runs fail each on    *)
(* its own.                                                                *)
(***************************************************************************)
EXTENDS GenerateTestCases, FiniteSetTheorems, TLAPS

(***************************************************************************)
(* The inductive invariant.                                                *)
(***************************************************************************)

\* A handler that has sent on exit still holds the answer it is to append.
Holding ==
    \A c \in appending :
        /\ at[c] \in {"exited", "returned"}
        /\ at[c] = "returned" => c \in overtaken
        /\ results[c] # <<>> /\ Head(results[c]) # "RUNNING"

\* Once the call is past its Wait, no goroutine is left, and it has failed exactly if one
\* of them has.
Ended ==
    stage # "running" =>
        /\ AllReturned
        /\ stage = "error" <=> failed # {}

\* Every failure is a fault's, unless the client is gone.
FaultEach == ~ gone => Cardinality(failed) <= faults

\* What is appended comes from runs that have ended, once from each, and unless the
\* results are sorted no answer of a run that did not fail is missing.
Unique(s) == \A i, j \in DOMAIN s : s[i].id = s[j].id => i = j

Appended ==
    /\ Unique(runResults)
    /\ \A i \in DOMAIN runResults :
        at[runResults[i].id] \in {"exited", "returned"} /\ runResults[i].id \notin appending
    /\ stage \in {"running", "error"} =>
        \A c \in Cases :
            at[c] \in {"exited", "returned"} =>
                c \in failed \cup appending \/ \E i \in DOMAIN runResults : runResults[i].id = c

InOrder(s) == \A i, j \in DOMAIN s : i < j => order[s[i].id] <= order[s[j].id]

Complete(s) == Len(s) = N /\ (Representable => InOrder(s))

\* The sorted results are complete, and the response is what they were.
Sorted ==
    /\ stage = "sorted" /\ overtaken = {} => Complete(runResults)
    /\ stage = "responded" => Unique(response) /\ (overtaken = {} => Complete(response))

\* Goroutines are started in the order of the test cases.
Waiting == \A c \in Cases : c > started => at[c] = "waiting"

IInv == TypeOK /\ Ended /\ FaultEach /\ Waiting /\ Holding /\ Appended /\ Sorted

(***************************************************************************)
(* Types, and the number of goroutines.                                    *)
(***************************************************************************)

\* Appending to a sequence keeps what it had, and adds the new element at its end.
LEMMA AppendFacts ==
    ASSUME NEW S, NEW s \in Seq(S), NEW e \in S
    PROVE  /\ Append(s, e) \in Seq(S) /\ Append(s, e) # <<>>
           /\ Len(Append(s, e)) = Len(s) + 1 /\ DOMAIN Append(s, e) = 1 .. Len(s) + 1
           /\ DOMAIN s = 1 .. Len(s) /\ Len(s) \in Nat
           /\ \A i \in 1 .. Len(s) : Append(s, e)[i] = s[i]
           /\ Append(s, e)[Len(s) + 1] = e
           /\ s # <<>> => Head(Append(s, e)) = Head(s)
<1>1. Append(s, e) \in Seq(S) /\ Len(s) \in Nat /\ Len(Append(s, e)) = Len(s) + 1
  OBVIOUS
<1>2. \A i \in 1 .. Len(s) + 1 : Append(s, e)[i] = IF i = Len(s) + 1 THEN e ELSE s[i]
  OBVIOUS
<1>3. DOMAIN s = 1 .. Len(s) /\ DOMAIN Append(s, e) = 1 .. Len(s) + 1
  BY <1>1
<1>4. s # <<>> => 1 \in 1 .. Len(s) /\ Head(s) = s[1]
  OBVIOUS
<1>5. Append(s, e) # <<>> /\ Head(Append(s, e)) = Append(s, e)[1]
  BY <1>1
<1> QED  BY <1>1, <1>2, <1>3, <1>4, <1>5

\* Each entry of a sequence of entries is of a test case.
LEMMA EntryIds ==
    ASSUME NEW s \in Seq(Entries)
    PROVE  \A i \in DOMAIN s : s[i] \in Entries /\ s[i].id \in Cases
<1>1. \A i \in DOMAIN s : s[i] \in Entries
  OBVIOUS
<1>2. \A e \in Entries : e.id \in Cases
  BY DEF Entries
<1> QED  BY <1>1, <1>2

\* Busy is finite, with every state of the goroutines.
LEMMA BusyFinite ==
    ASSUME NEW S \in SUBSET Cases
    PROVE  IsFiniteSet(S) /\ Cardinality(S) \in Nat
<1>1. IsFiniteSet(Cases)
  BY FS_Interval, GenerateAssumption DEF Cases
<1>2. IsFiniteSet(S)
  BY <1>1, FS_Subset
<1> QED  BY <1>2, FS_CardinalityType

\* A step after which no goroutine is busy that was not keeps the bound.
LEMMA BusyShrinks ==
    ASSUME TypeOK, Busy' \subseteq Busy
    PROVE  Cardinality(Busy') <= Limit
<1>1. Busy \subseteq Cases /\ Busy' \subseteq Cases
  BY DEF Busy
<1>2. IsFiniteSet(Busy) /\ Cardinality(Busy) \in Nat /\ Cardinality(Busy') \in Nat
  BY <1>1, BusyFinite
<1>3. Cardinality(Busy') <= Cardinality(Busy)
  BY <1>2, FS_Subset
<1> QED  BY <1>2, <1>3, GenerateAssumption DEF TypeOK

\* Go starts one goroutine, and only if there is room for it.
LEMMA BusyGo ==
    ASSUME TypeOK, Go
    PROVE  Cardinality(Busy') <= Limit
<1>1. Busy \subseteq Cases /\ Busy' \subseteq Busy \cup {started + 1}
  BY DEF Go, Busy, TypeOK
<1>2. IsFiniteSet(Busy) /\ Cardinality(Busy) \in Nat
  BY <1>1, BusyFinite
<1>3. /\ IsFiniteSet(Busy \cup {started + 1})
      /\ Cardinality(Busy \cup {started + 1}) <= Cardinality(Busy) + 1
      /\ Cardinality(Busy \cup {started + 1}) \in Nat
  BY <1>2, FS_AddElement
<1>4. Cardinality(Busy') <= Cardinality(Busy \cup {started + 1}) /\ Cardinality(Busy') \in Nat
  BY <1>1, <1>3, FS_Subset, FS_CardinalityType
<1> QED  BY <1>2, <1>3, <1>4, GenerateAssumption DEF Go

\* A reply adds a status to the result queue, or nothing.
LEMMA ReplyTypes ==
    ASSUME TypeOK, NEW c \in Cases, NEW s \in Answers \cup {"RUNNING"}, Reply(c, s)
    PROVE  /\ results' \in [Cases -> Seq(Answers \cup {"RUNNING"})]
           /\ \A d \in Cases : results[d] # <<>> => results'[d] # <<>> /\ Head(results'[d]) = Head(results[d])
<1>1. results[c] \in Seq(Answers \cup {"RUNNING"})
  BY DEF TypeOK
<1>2. /\ Append(results[c], s) \in Seq(Answers \cup {"RUNNING"}) /\ Append(results[c], s) # <<>>
      /\ results[c] # <<>> => Head(Append(results[c], s)) = Head(results[c])
  <2> DEFINE S == Answers \cup {"RUNNING"}
  <2>1. results[c] \in Seq(S) /\ s \in S
    BY <1>1
  <2> HIDE DEF S
  <2>2. Append(results[c], s) \in Seq(S) /\ Append(results[c], s) # <<>>
    BY <2>1, AppendFacts
  <2>3. results[c] # <<>> => Head(Append(results[c], s)) = Head(results[c])
    BY <2>1, AppendFacts
  <2> QED  BY <2>2, <2>3 DEF S
<1>3. results \in [Cases -> Seq(Answers \cup {"RUNNING"})]
  BY DEF TypeOK
<1>4. CASE at[c] = "returned"
  BY <1>3, <1>4 DEF Reply
<1>5. CASE at[c] # "returned"
  <2>1. results' = [results EXCEPT ![c] = Append(results[c], s)]
    BY <1>5 DEF Reply
  <2> QED  BY <1>2, <1>3, <2>1
<1> QED  BY <1>4, <1>5

\* What the sorting of a sequence may leave.
LEMMA SortingTypes ==
    ASSUME NEW s \in Seq(Entries), NEW t \in Sortings(s)
    PROVE  /\ t \in Seq(Entries) /\ Len(t) = Len(s) /\ DOMAIN t = DOMAIN s
           /\ Unique(s) => Unique(t)
           /\ \A i \in DOMAIN t : \E j \in DOMAIN s : t[i] = s[j]
           /\ Ordering({s[i] : i \in DOMAIN s}) => \A i, j \in DOMAIN s : i < j => ~ Less(t[j], t[i])
<1>1. PICK p \in [DOMAIN s -> DOMAIN s] :
        /\ \A i, j \in DOMAIN s : p[i] = p[j] => i = j
        /\ t = [i \in DOMAIN s |-> s[p[i]]]
        /\ Ordering({s[i] : i \in DOMAIN s}) => \A i, j \in DOMAIN s : i < j => ~ Less(t[j], t[i])
  <2> DEFINE perms == {p \in [DOMAIN s -> DOMAIN s] : \A i, j \in DOMAIN s : p[i] = p[j] => i = j}
  <2> DEFINE all == {[i \in DOMAIN s |-> s[p[i]]] : p \in perms}
  <2>1. /\ t \in all
        /\ Ordering({s[i] : i \in DOMAIN s}) => \A i, j \in DOMAIN s : i < j => ~ Less(t[j], t[i])
    <3> DEFINE good == {u \in all : \A i, j \in DOMAIN s : i < j => ~ Less(u[j], u[i])}
    <3>1. Sortings(s) = IF Ordering({s[i] : i \in DOMAIN s}) THEN good ELSE all
      BY DEF Sortings
    <3> HIDE DEF all
    <3> QED  BY <3>1
  <2> QED  BY <2>1
<1>2. DOMAIN s = 1 .. Len(s) /\ Len(s) \in Nat /\ \A i \in DOMAIN s : s[i] \in Entries
  OBVIOUS
<1>3. t \in [1 .. Len(s) -> Entries]
  BY <1>1, <1>2
<1>4. t \in Seq(Entries) /\ Len(t) = Len(s) /\ DOMAIN t = DOMAIN s
  BY <1>2, <1>3
<1>5. Unique(s) => Unique(t)
  BY <1>1, <1>4 DEF Unique
<1> QED  BY <1>1, <1>4, <1>5

\* What a worker does is a reply, or nothing that the call sees.
LEMMA Replies ==
    ASSUME NEW c \in Cases, Work(c)
    PROVE  results' = results \/ \E s \in Answers \cup {"RUNNING"} : Reply(c, s)
<1>1. Answer[c] \in Answers /\ "message" \in Answers
  BY GenerateAssumption DEF Answers
<1>2. CASE Take(c)
  BY <1>2 DEF Take
<1>3. CASE AnswerJob(c)
  BY <1>1, <1>3 DEF AnswerJob
<1> QED  BY <1>2, <1>3 DEF Work

\* The types of what a step leaves, but for the number of goroutines.
LEMMA TypesStep ==
    ASSUME TypeOK, Holding, [Next]_vars
    PROVE  TypeOK'
<1> USE GenerateAssumption
<1>1. CASE UNCHANGED vars
  BY <1>1, BusyShrinks DEF TypeOK, vars, call, handlers, worker, Busy
<1>2. CASE Go
  <2>1. started + 1 \in Cases /\ started' \in 0 .. N
    BY <1>2 DEF Go, TypeOK, Cases
  <2>2. at' \in [Cases -> {"waiting", "begun", "declared", "consuming", "exited", "returned"}]
    BY <1>2, <2>1 DEF Go, TypeOK
  <2>3. UNCHANGED <<order, failed, handlers, runResults, response, stage, gone, worker, faults>>
    BY <1>2 DEF Go, handlers, worker
  <2> QED  BY <1>2, <2>1, <2>2, <2>3, BusyGo DEF TypeOK, handlers, worker
<1>3. CASE Wait
  <2>1. runResults' \in Seq(Entries)
    BY <1>3, SortingTypes DEF Wait, TypeOK
  <2>2. Busy' = Busy
    BY <1>3 DEF Wait, Busy
  <2> QED  BY <1>3, <2>1, <2>2, BusyShrinks DEF TypeOK, Wait, worker
<1>4. CASE Respond \/ ClientGone
  <2>1. Busy' = Busy
    BY <1>4 DEF Respond, ClientGone, Busy, call
  <2> QED  BY <1>4, <2>1, BusyShrinks DEF TypeOK, Respond, ClientGone, call, handlers, worker
<1>5. ASSUME NEW c \in Cases, Goroutine(c) \/ AppendResult(c) \/ Fails(c) \/ Work(c) \/ Redeliver(c)
      PROVE  TypeOK'
  <2>1. Busy' \subseteq Busy
    BY <1>5 DEF TypeOK, Goroutine, CreateQueue, Publish, Receive, Consumed, AppendResult, Fails,
                Work, Take, AnswerJob, Redeliver, Busy, call
  <2>2. Cardinality(Busy') <= Limit
    BY <2>1, BusyShrinks
  <2>3. results[c] \in Seq(Answers \cup {"RUNNING"}) /\ runResults \in Seq(Entries)
    BY DEF TypeOK
  <2>4. CASE CreateQueue(c) \/ Publish(c) \/ Consumed(c) \/ Redeliver(c)
    <3>1. CASE CreateQueue(c) \/ Publish(c)
      BY <2>2, <3>1 DEF TypeOK, CreateQueue, Publish, call, handlers, worker
    <3>2. CASE Consumed(c)
      BY <2>2, <3>2 DEF TypeOK, Consumed, call, worker
    <3>3. CASE Redeliver(c)
      BY <2>2, <3>3 DEF TypeOK, Redeliver, Fault, call, handlers
    <3> QED  BY <2>4, <3>1, <3>2, <3>3
  <2>5. CASE Receive(c)
    <3>1. results' \in [Cases -> Seq(Answers \cup {"RUNNING"})]
      <4>1. Tail(results[c]) \in Seq(Answers \cup {"RUNNING"})
        BY <2>3, <2>5 DEF Receive
      <4> QED  BY <2>5, <4>1 DEF Receive, TypeOK
    <3> QED  BY <2>2, <2>5, <3>1 DEF TypeOK, Receive, call
  <2>6. CASE AppendResult(c)
    <3>1. results[c] # <<>> /\ Head(results[c]) # "RUNNING"
      BY <2>6 DEF AppendResult, Holding
    <3>2. Head(results[c]) \in Answers
      BY <2>3, <3>1
    <3>3. runResults' \in Seq(Entries)
      BY <2>3, <2>6, <3>2 DEF AppendResult, Entries
    <3> QED  BY <2>2, <2>6, <3>3 DEF TypeOK, AppendResult, call, worker
  <2>7. CASE Fails(c)
    BY <2>2, <2>7 DEF TypeOK, Fails, Fault, call, handlers
  <2>8. CASE Work(c)
    <3>1. results' = results \/ \E s \in Answers \cup {"RUNNING"} : Reply(c, s)
      BY <2>8, Replies
    <3>2. results' \in [Cases -> Seq(Answers \cup {"RUNNING"})]
      BY <3>1, ReplyTypes DEF TypeOK
    <3>3. job' \in [Cases -> {"none", "queued", "taken", "answered"}] /\ lost' \subseteq Cases
      BY <2>8 DEF TypeOK, Work, Take, AnswerJob
    <3>4. faults' \in 0 .. MaxFaults /\ UNCHANGED <<call, at, failed, handlers, gone>>
      BY <2>8 DEF TypeOK, Work, Take, AnswerJob, Fault
    <3> QED  BY <2>2, <3>2, <3>3, <3>4 DEF TypeOK, call, handlers
  <2> QED  BY <1>5, <2>4, <2>5, <2>6, <2>7, <2>8 DEF Goroutine
<1> QED  BY <1>1, <1>2, <1>3, <1>4, <1>5 DEF Next

(***************************************************************************)
(* The errors of the goroutines, and what they append.                     *)
(***************************************************************************)

\* Once the call is past its Wait, no goroutine moves or fails any more.
LEMMA ErrorStep ==
    ASSUME TypeOK, Ended, [Next]_vars
    PROVE  Ended'
<1>1. CASE UNCHANGED <<stage, started, at, failed>>
  BY <1>1 DEF Ended, AllReturned
<1>2. CASE Wait \/ Respond
  BY <1>2 DEF Ended, AllReturned, Wait, Respond
<1>3. CASE Go
  BY <1>3, GenerateAssumption DEF Ended, AllReturned, Go
<1>4. ASSUME NEW c \in Cases, Goroutine(c) \/ Fails(c)
      PROVE  Ended'
  BY <1>4 DEF Ended, AllReturned, Goroutine, CreateQueue, Publish, Receive, Consumed, Fails, call
<1>5. CASE ClientGone \/ UNCHANGED vars
  BY <1>1, <1>5 DEF ClientGone, call, vars
<1>6. ASSUME NEW c \in Cases, AppendResult(c) \/ Work(c) \/ Redeliver(c)
      PROVE  Ended'
  BY <1>1, <1>6 DEF AppendResult, Work, Take, AnswerJob, Redeliver, call
<1> QED  BY <1>2, <1>3, <1>4, <1>5, <1>6 DEF Next

\* A failure while the client is there takes a fault, and faults are never taken back.
LEMMA FaultEachStep ==
    ASSUME TypeOK, FaultEach, [Next]_vars
    PROVE  FaultEach'
<1>0. /\ IsFiniteSet(failed) /\ Cardinality(failed) \in Nat /\ faults \in Nat
  BY BusyFinite, GenerateAssumption DEF TypeOK
<1>1. CASE UNCHANGED failed /\ (gone => gone') /\ (faults' = faults \/ faults' = faults + 1)
  BY <1>0, <1>1 DEF FaultEach
<1>2. CASE Go \/ Wait \/ Respond \/ ClientGone \/ UNCHANGED vars
  BY <1>1, <1>2 DEF Go, Wait, Respond, ClientGone, vars, worker
<1>3. ASSUME NEW c \in Cases, Fails(c)
      PROVE  FaultEach'
  <2>1. CASE gone
    BY <1>3, <2>1 DEF Fails, FaultEach
  <2>2. CASE ~ gone
    <3>1. failed' = failed \cup {c} /\ faults' = faults + 1
      BY <1>3, <2>2 DEF Fails, Fault
    <3>2. \/ Cardinality(failed \cup {c}) = Cardinality(failed)
          \/ Cardinality(failed \cup {c}) = Cardinality(failed) + 1
      BY <1>0, FS_AddElement
    <3> QED  BY <1>0, <2>2, <3>1, <3>2 DEF FaultEach
  <2> QED  BY <2>1, <2>2
<1>4. ASSUME NEW c \in Cases, Goroutine(c) \/ AppendResult(c) \/ Work(c) \/ Redeliver(c)
      PROVE  FaultEach'
  BY <1>1, <1>4 DEF Goroutine, CreateQueue, Publish, Receive, Consumed, AppendResult, Work, Take,
                    AnswerJob, Redeliver, Fault, worker
<1> QED  BY <1>2, <1>3, <1>4 DEF Next

\* A handler that has sent on exit keeps its answer, which nothing removes.
LEMMA HoldingStep ==
    ASSUME TypeOK, Waiting, Holding, [Next]_vars
    PROVE  Holding'
<1>1. CASE UNCHANGED <<at, appending, overtaken, results>>
  BY <1>1 DEF Holding
<1>2. CASE Go
  <2>1. started + 1 \in Cases /\ started + 1 > started
    BY <1>2, GenerateAssumption DEF Go, TypeOK, Cases
  <2> QED  BY <1>2, <2>1 DEF Holding, Waiting, Go, handlers, worker, TypeOK
<1>3. CASE Wait \/ Respond \/ ClientGone \/ UNCHANGED vars
  BY <1>1, <1>3 DEF Wait, Respond, ClientGone, vars, call, handlers, worker
<1>4. ASSUME NEW c \in Cases, CreateQueue(c) \/ Publish(c) \/ Receive(c) \/ Consumed(c)
                                 \/ AppendResult(c) \/ Fails(c)
      PROVE  Holding'
  BY <1>4 DEF Holding, TypeOK, CreateQueue, Publish, Receive, Consumed, AppendResult, Fails, handlers, worker, call
<1>5. ASSUME NEW c \in Cases, Work(c)
      PROVE  Holding'
  <2>1. UNCHANGED <<at, appending, overtaken>>
    BY <1>5 DEF Work, Take, AnswerJob, handlers
  <2>2. results' = results \/ \E s \in Answers \cup {"RUNNING"} : Reply(c, s)
    BY <1>5, Replies
  <2>3. \A d \in Cases : results[d] # <<>> => results'[d] # <<>> /\ Head(results'[d]) = Head(results[d])
    BY <2>2, ReplyTypes
  <2> QED  BY <2>1, <2>3 DEF Holding, TypeOK
<1>6. ASSUME NEW c \in Cases, Redeliver(c)
      PROVE  Holding'
  BY <1>1, <1>6 DEF Redeliver, handlers
<1> QED  BY <1>2, <1>3, <1>4, <1>5, <1>6 DEF Next, Goroutine

\* A test case that is not started waits.
LEMMA WaitingStep ==
    ASSUME TypeOK, Waiting, [Next]_vars
    PROVE  Waiting'
<1>1. CASE Go
  <2>1. started + 1 \in Cases /\ started \in Nat /\ Cases \subseteq Int
    BY <1>1, GenerateAssumption DEF Go, TypeOK, Cases
  <2> QED  BY <1>1, <2>1 DEF Waiting, Go, TypeOK
<1>2. CASE UNCHANGED <<started, at>>
  BY <1>2 DEF Waiting
<1>3. CASE Wait \/ Respond \/ ClientGone \/ UNCHANGED vars
  BY <1>2, <1>3 DEF Wait, Respond, ClientGone, vars, call
<1>4. ASSUME NEW c \in Cases, Goroutine(c) \/ Fails(c)
      PROVE  Waiting'
  BY <1>4 DEF Waiting, Goroutine, CreateQueue, Publish, Receive, Consumed, Fails, call, TypeOK
<1>5. ASSUME NEW c \in Cases, AppendResult(c) \/ Work(c) \/ Redeliver(c)
      PROVE  Waiting'
  BY <1>2, <1>5 DEF AppendResult, Work, Take, AnswerJob, Redeliver, call
<1> QED  BY <1>1, <1>3, <1>4, <1>5 DEF Next

\* Only AppendResult and the sorting change what is appended.
LEMMA AppendedStep ==
    ASSUME TypeOK, Waiting, Holding, Appended, [Next]_vars
    PROVE  Appended'
<1>1. runResults \in Seq(Entries)
  BY DEF TypeOK
<1>2. CASE UNCHANGED <<at, appending, runResults>> /\ (stage' \in {"running", "error"} => UNCHANGED <<stage, failed>>)
  BY <1>2 DEF Appended, Unique
<1>3. CASE Go
  <2>1. started + 1 \in Cases /\ started + 1 > started
    BY <1>3, GenerateAssumption DEF Go, TypeOK, Cases
  <2>2. at[started + 1] = "waiting" /\ at' = [at EXCEPT ![started + 1] = "begun"]
    BY <1>3, <2>1 DEF Waiting, Go
  <2>3. UNCHANGED <<appending, runResults, stage, failed>>
    BY <1>3 DEF Go, handlers
  <2>4. \A i \in DOMAIN runResults : runResults[i].id \in Cases
    BY <1>1, EntryIds
  <2>5. \A c \in Cases : at'[c] \in {"exited", "returned"} <=> at[c] \in {"exited", "returned"}
    BY <2>1, <2>2 DEF TypeOK
  <2> QED  BY <2>3, <2>4, <2>5 DEF Appended, Unique
<1>4. CASE Wait
  <2>1. runResults' = runResults \/ runResults' \in Sortings(runResults)
    BY <1>4 DEF Wait
  <2>2. /\ UNCHANGED <<at, appending, failed>> /\ stage' # "running"
        /\ stage' = "error" => stage = "running" /\ runResults' = runResults
    BY <1>4 DEF Wait
  <2>3. Unique(runResults') /\ \A i \in DOMAIN runResults' : \E j \in DOMAIN runResults : runResults'[i] = runResults[j]
    BY <1>1, <2>1, SortingTypes DEF Appended
  <2> QED  BY <2>2, <2>3 DEF Appended, Unique
<1>5. CASE Respond \/ ClientGone \/ UNCHANGED vars
  BY <1>2, <1>5 DEF Respond, ClientGone, vars, call, handlers
<1>6. ASSUME NEW c \in Cases, CreateQueue(c) \/ Publish(c) \/ Receive(c) \/ Consumed(c) \/ Fails(c)
      PROVE  Appended'
  <2>1. \A i \in DOMAIN runResults : runResults[i].id \in Cases
    BY <1>1, EntryIds
  <2>2. UNCHANGED <<runResults, stage>> /\ appending' = IF at[c] = "consuming" /\ at'[c] = "exited" THEN appending \cup {c} ELSE appending
    BY <1>6 DEF TypeOK, CreateQueue, Publish, Receive, Consumed, Fails, handlers, call
  <2>3. /\ \A d \in Cases \ {c} : at'[d] = at[d]
        /\ at[c] # "returned" /\ (at[c] = "exited" => at'[c] = "returned")
        /\ at[c] # "exited" /\ at'[c] \in {"exited", "returned"} => c \in failed' \cup appending'
        /\ failed \subseteq failed' /\ failed' \subseteq failed \cup {c}
    BY <1>6, <2>2 DEF TypeOK, CreateQueue, Publish, Receive, Consumed, Fails, handlers, call
  <2>4. \A i \in DOMAIN runResults : runResults[i].id = c => at[c] = "exited"
    BY <2>3 DEF Appended
  <2>5. appending' = appending \/ (at[c] = "consuming" /\ appending' = appending \cup {c})
    BY <2>2
  <2>6. \A i \in DOMAIN runResults :
           at'[runResults[i].id] \in {"exited", "returned"} /\ runResults[i].id \notin appending'
    BY <2>1, <2>3, <2>4, <2>5 DEF Appended
  <2>7. ASSUME stage \in {"running", "error"}, NEW d \in Cases, at'[d] \in {"exited", "returned"}
        PROVE  d \in failed' \cup appending' \/ \E i \in DOMAIN runResults : runResults[i].id = d
    <3>1. CASE at[d] \in {"exited", "returned"}
      <4>1. d \in failed \cup appending \/ \E i \in DOMAIN runResults : runResults[i].id = d
        BY <2>7, <3>1 DEF Appended
      <4> QED  BY <2>3, <2>5, <4>1
    <3>2. CASE at[d] \notin {"exited", "returned"}
      BY <2>3, <2>7, <3>2
    <3> QED  BY <3>1, <3>2
  <2> QED  BY <2>2, <2>6, <2>7 DEF Appended
<1>7. ASSUME NEW c \in Cases, AppendResult(c)
      PROVE  Appended'
  <2> DEFINE e == [id |-> c, output |-> Head(results[c])]
  <2>1. /\ results[c] \in Seq(Answers \cup {"RUNNING"}) /\ results[c] # <<>> /\ Head(results[c]) # "RUNNING"
        /\ at[c] \in {"exited", "returned"}
    BY <1>7 DEF AppendResult, Holding, TypeOK
  <2>2. e \in Entries
    <3>1. Head(results[c]) \in Answers
      BY <2>1
    <3> QED  BY <3>1 DEF Entries
  <2>3. /\ DOMAIN runResults = 1 .. Len(runResults) /\ Len(runResults) \in Nat
        /\ DOMAIN runResults' = 1 .. Len(runResults) + 1
        /\ \A i \in 1 .. Len(runResults) : runResults'[i] = runResults[i]
        /\ runResults'[Len(runResults) + 1] = e
    BY <1>1, <1>7, <2>2, AppendFacts DEF AppendResult
  <2>4. c \in appending /\ appending' = appending \ {c} /\ UNCHANGED <<at, stage, failed>>
    BY <1>7 DEF AppendResult, call
  <2>5. \A i \in DOMAIN runResults : runResults[i].id # c
    BY <2>4 DEF Appended
  <2> HIDE DEF e
  <2>6. e.id = c
    BY DEF e
  <2>7. Unique(runResults')
    <3> SUFFICES ASSUME NEW i \in 1 .. Len(runResults) + 1, NEW j \in 1 .. Len(runResults) + 1,
                        runResults'[i].id = runResults'[j].id
                 PROVE  i = j
      BY <2>3 DEF Unique
    <3>1. CASE i \in 1 .. Len(runResults) /\ j \in 1 .. Len(runResults)
      BY <2>3, <3>1 DEF Appended, Unique
    <3>2. CASE i = Len(runResults) + 1 \/ j = Len(runResults) + 1
      BY <2>3, <2>5, <2>6, <3>2
    <3> QED  BY <2>3, <3>1, <3>2
  <2>8. \A i \in DOMAIN runResults' : i \in DOMAIN runResults \/ i = Len(runResults) + 1
    BY <2>3
  <2>9. \A i \in DOMAIN runResults' : at'[runResults'[i].id] \in {"exited", "returned"} /\ runResults'[i].id \notin appending'
    BY <2>1, <2>3, <2>4, <2>5, <2>6, <2>8 DEF Appended
  <2>10. ASSUME stage' \in {"running", "error"}, NEW d \in Cases, at'[d] \in {"exited", "returned"}
         PROVE  d \in failed' \cup appending' \/ \E i \in DOMAIN runResults' : runResults'[i].id = d
    <3>1. d \in failed \cup appending \/ \E i \in DOMAIN runResults : runResults[i].id = d
      BY <2>4, <2>10 DEF Appended
    <3>2. Len(runResults) + 1 \in DOMAIN runResults' /\ DOMAIN runResults \subseteq DOMAIN runResults'
      BY <2>3
    <3> QED  BY <2>3, <2>4, <2>6, <3>1, <3>2
  <2> QED  BY <2>7, <2>9, <2>10 DEF Appended
<1>8. ASSUME NEW c \in Cases, Work(c) \/ Redeliver(c)
      PROVE  Appended'
  BY <1>2, <1>8 DEF Work, Take, AnswerJob, Redeliver, call, handlers
<1> QED  BY <1>3, <1>4, <1>5, <1>6, <1>7, <1>8 DEF Next, Goroutine

(***************************************************************************)
(* The order and the number of the results.                                *)
(***************************************************************************)

\* Of representable orders, the wrapped difference is negative exactly if the first
\* order is the smaller one.
LEMMA LessMeansLess ==
    ASSUME TypeOK, Representable, NEW a \in Entries, NEW b \in Entries
    PROVE  Less(a, b) <=> order[a.id] < order[b.id]
<1>1. a.id \in Cases /\ b.id \in Cases
  BY DEF Entries
<1>2. order[a.id] \in Int /\ order[b.id] \in Int /\ HalfRange \in Nat \ {0}
  BY <1>1, GenerateAssumption DEF TypeOK
<1>3. order[a.id] - order[b.id] < HalfRange /\ order[b.id] - order[a.id] < HalfRange
  BY <1>1 DEF Representable
<1>4. PICK d \in Int : d = order[a.id] - order[b.id]
  BY <1>2
<1>5. d + HalfRange \in 0 .. 2 * HalfRange - 1
  BY <1>2, <1>3, <1>4
<1>6. \A m \in Nat \ {0} : \A x \in 0 .. m - 1 : x % m = x
  OBVIOUS
<1>7. (d + HalfRange) % (2 * HalfRange) = d + HalfRange
  BY <1>2, <1>5, <1>6
<1> QED  BY <1>2, <1>4, <1>7 DEF Less

\* Sorting leaves sequences with representable orders in order.
LEMMA SortingOrders ==
    ASSUME TypeOK, Representable, NEW s \in Seq(Entries), NEW t \in Sortings(s)
    PROVE  InOrder(t)
<1>1. \A i \in DOMAIN s : s[i] \in Entries /\ s[i].id \in Cases /\ order[s[i].id] \in Int
  BY EntryIds, GenerateAssumption DEF TypeOK
<1>2. ASSUME NEW a \in {s[i] : i \in DOMAIN s}, NEW b \in {s[i] : i \in DOMAIN s},
             NEW c \in {s[i] : i \in DOMAIN s}
      PROVE  ~ (Less(a, b) /\ Less(b, a)) /\ (Less(a, c) => Less(a, b) \/ Less(b, c))
  <2>1. /\ a \in Entries /\ b \in Entries /\ c \in Entries
        /\ order[a.id] \in Int /\ order[b.id] \in Int /\ order[c.id] \in Int
    BY <1>1
  <2>2. /\ Less(a, b) <=> order[a.id] < order[b.id]
        /\ Less(b, a) <=> order[b.id] < order[a.id]
        /\ Less(a, c) <=> order[a.id] < order[c.id]
        /\ Less(b, c) <=> order[b.id] < order[c.id]
    BY <2>1, LessMeansLess
  <2> QED  BY <2>1, <2>2
<1>3. Ordering({s[i] : i \in DOMAIN s})
  BY <1>2 DEF Ordering
<1>4. /\ DOMAIN t = DOMAIN s /\ \A i, j \in DOMAIN s : i < j => ~ Less(t[j], t[i])
      /\ \A i \in DOMAIN t : t[i] \in Entries /\ order[t[i].id] \in Int
  <2>1. /\ DOMAIN t = DOMAIN s /\ \A i \in DOMAIN t : \E j \in DOMAIN s : t[i] = s[j]
        /\ \A i, j \in DOMAIN s : i < j => ~ Less(t[j], t[i])
    BY <1>3, SortingTypes
  <2> QED  BY <1>1, <2>1
<1>5. ASSUME NEW i \in DOMAIN t, NEW j \in DOMAIN t, i < j
      PROVE  order[t[i].id] <= order[t[j].id]
  <2>1. Less(t[j], t[i]) <=> order[t[j].id] < order[t[i].id]
    BY <1>4, LessMeansLess
  <2> QED  BY <1>4, <1>5, <2>1
<1> QED  BY <1>5 DEF InOrder

\* Entries of all test cases, once each, are N entries.
LEMMA CompleteLength ==
    ASSUME NEW s \in Seq(Entries), Unique(s), \A c \in Cases : \E i \in DOMAIN s : s[i].id = c
    PROVE  Len(s) = N
<1> DEFINE f == [i \in 1 .. Len(s) |-> s[i].id]
<1>1. DOMAIN s = 1 .. Len(s) /\ Len(s) \in Nat /\ \A i \in DOMAIN s : s[i].id \in Cases
  BY EntryIds
<1>2. f \in Bijection(1 .. Len(s), Cases)
  BY <1>1 DEF Unique, Bijection, Injection, Surjection, IsInjective
<1>3. IsFiniteSet(1 .. Len(s)) /\ Cardinality(1 .. Len(s)) = Len(s) /\ Cardinality(Cases) = N
  <2>1. \A n \in Nat : IsFiniteSet(1 .. n) /\ Cardinality(1 .. n) = n
    <3> SUFFICES ASSUME NEW n \in Nat
                 PROVE  IsFiniteSet(1 .. n) /\ Cardinality(1 .. n) = n
      OBVIOUS
    <3>1. IsFiniteSet(1 .. n) /\ Cardinality(1 .. n) = IF 1 > n THEN 0 ELSE n - 1 + 1
      BY FS_Interval
    <3> QED  BY <3>1
  <2> QED  BY <1>1, <2>1, GenerateAssumption DEF Cases
<1>4. Cardinality(Cases) = Cardinality(1 .. Len(s))
  BY <1>2, <1>3, FS_Bijection DEF ExistsBijection
<1> QED  BY <1>3, <1>4

\* The results are complete when Wait has sorted them, and stay so.
LEMMA SortedStep ==
    ASSUME TypeOK, Ended, Holding, Appended, Sorted, [Next]_vars
    PROVE  Sorted'
<1>1. runResults \in Seq(Entries)
  BY DEF TypeOK
<1>2. CASE UNCHANGED <<order, stage, response, runResults>> /\ (stage = "running" \/ overtaken' = overtaken)
  BY <1>2 DEF Sorted, Complete, InOrder, Unique, Representable
<1>3. CASE Wait
  <2>1. order' = order /\ overtaken' = overtaken /\ stage' \in {"sorted", "error"}
    BY <1>3 DEF Wait
  <2>2. ASSUME stage' = "sorted", overtaken' = {}
        PROVE  Len(runResults') = N /\ (Representable => InOrder(runResults'))
    <3>1. failed = {} /\ AllReturned /\ stage = "running" /\ runResults' \in Sortings(runResults)
      BY <1>3, <2>2 DEF Wait
    <3>2. appending = {}
      BY <2>1, <2>2, <3>1 DEF AllReturned, Holding, TypeOK
    <3>3. Len(runResults) = N
      BY <1>1, <3>1, <3>2, CompleteLength DEF AllReturned, Appended
    <3> QED  BY <1>1, <3>1, <3>3, SortingTypes, SortingOrders
  <2> QED  BY <2>1, <2>2 DEF Sorted, Complete, InOrder, Representable
<1>4. CASE Respond
  BY <1>4 DEF Respond, Sorted, Complete, InOrder, Representable, Unique, Appended, handlers
<1>5. CASE Go \/ ClientGone \/ UNCHANGED vars
  BY <1>2, <1>5 DEF Go, ClientGone, vars, call, handlers
<1>6. ASSUME NEW c \in Cases, Goroutine(c) \/ Fails(c)
      PROVE  Sorted'
  <2>1. stage = "running"
    BY <1>6 DEF Ended, AllReturned, Goroutine, CreateQueue, Publish, Receive, Consumed, Fails
  <2> QED  BY <1>2, <1>6, <2>1 DEF Goroutine, CreateQueue, Publish, Receive, Consumed, Fails, call, handlers
<1>7. ASSUME NEW c \in Cases, AppendResult(c)
      PROVE  Sorted'
  <2>1. c \in appending /\ UNCHANGED <<order, stage, response, overtaken>>
    BY <1>7 DEF AppendResult, call
  <2>2. stage # "running" => overtaken # {}
    BY <2>1 DEF Ended, AllReturned, Holding
  <2> QED  BY <2>1, <2>2 DEF Sorted, Complete, InOrder, Unique, Representable
<1>8. ASSUME NEW c \in Cases, Work(c) \/ Redeliver(c)
      PROVE  Sorted'
  BY <1>2, <1>8 DEF Work, Take, AnswerJob, Redeliver, call, handlers
<1> QED  BY <1>3, <1>4, <1>5, <1>6, <1>7, <1>8 DEF Next

(***************************************************************************)
(* Theorems.                                                               *)
(***************************************************************************)

\* The inductive invariant holds of every behaviour.
LEMMA Invariant == Spec => []IInv
<1>1. Init => IInv
  <2> SUFFICES ASSUME Init PROVE IInv
    OBVIOUS
  <2>1. Busy = {}
    BY DEF Init, Busy
  <2>2. Cardinality(Busy) <= Limit
    BY <2>1, FS_EmptySet, GenerateAssumption
  <2>3. TypeOK
    <3>1. /\ results \in [Cases -> Seq(Answers \cup {"RUNNING"})]
          /\ job \in [Cases -> {"none", "queued", "taken", "answered"}]
          /\ at \in [Cases -> {"waiting", "begun", "declared", "consuming", "exited", "returned"}]
      BY DEF Init
    <3>2. runResults \in Seq(Entries) /\ response \in Seq(Entries)
      BY DEF Init
    <3>3. started \in 0 .. N /\ faults \in 0 .. MaxFaults
      BY GenerateAssumption DEF Init
    <3>4. gone \in BOOLEAN
      BY DEF Init
    <3>5. /\ order \in Orders /\ stage = "running"
          /\ failed \subseteq Cases /\ appending \subseteq Cases /\ overtaken \subseteq Cases /\ lost \subseteq Cases
      BY DEF Init
    <3> QED  BY <2>2, <3>1, <3>2, <3>3, <3>4, <3>5 DEF TypeOK
  <2>4. FaultEach
    BY FS_EmptySet DEF Init, FaultEach
  <2>5. Ended /\ Waiting /\ Holding /\ Appended /\ Sorted
    BY DEF Init, Ended, Waiting, Holding, Appended, Unique, Sorted
  <2> QED  BY <2>3, <2>4, <2>5 DEF IInv
<1>2. IInv /\ [Next]_vars => IInv'
  BY TypesStep, ErrorStep, FaultEachStep, WaitingStep, HoldingStep, AppendedStep, SortedStep DEF IInv
<1> QED  BY <1>1, <1>2, PTL DEF Spec

\* Every variable keeps to its type, and the errgroup's limit is respected.
THEOREM TypeCorrect == Spec => []TypeOK
<1>1. IInv => TypeOK
  BY DEF IInv
<1> QED  BY <1>1, Invariant, PTL

\* The runs of a request fail each on its own, for any number of them: while the client is
\* there each failure took a fault, and what did not fail keeps its answer.
THEOREM FailuresApart == Spec => []FailuresStayApart
<1>1. IInv => FailuresStayApart
  BY DEF IInv, FaultEach, Appended, FailuresStayApart
<1> QED  BY <1>1, Invariant, PTL

\* Unless a handler was overtaken by its Consume, the response has every test case of
\* the request once, in order where int32 can tell it.
THEOREM ResponseIsComplete == Spec => []ResponseComplete
<1>1. IInv => ResponseComplete
  BY DEF IInv, Sorted, Unique, Complete, InOrder, ResponseComplete
<1> QED  BY <1>1, Invariant, PTL
================================================================================
