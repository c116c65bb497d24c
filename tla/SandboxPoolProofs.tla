-------------------------- MODULE SandboxPoolProofs --------------------------
(***************************************************************************)
(* Proofs about SandboxPool, for any sizes of the pools and any goroutines.*)
(***************************************************************************)
EXTENDS SandboxPool, FiniteSetTheorems, FunctionTheorems, TLAPS

(***************************************************************************)
(* Channels.                                                               *)
(***************************************************************************)

\* Receiving from a channel takes the id at its head and leaves the others, which
\* stay distinct.
LEMMA ReceiveLemma ==
    ASSUME NEW S, NEW ch \in Seq(S), ch # <<>>, Distinct(ch)
    PROVE  /\ Head(ch) \in S
           /\ Tail(ch) \in Seq(S)
           /\ Len(Tail(ch)) = Len(ch) - 1
           /\ Distinct(Tail(ch))
           /\ InChannel(ch, Head(ch))
           /\ \A b : InChannel(Tail(ch), b) <=> InChannel(ch, b) /\ b # Head(ch)
<1>1. /\ Len(ch) \in Nat /\ Len(ch) > 0
      /\ Head(ch) = ch[1] /\ Head(ch) \in S
      /\ Tail(ch) \in Seq(S) /\ Len(Tail(ch)) = Len(ch) - 1
      /\ \A i \in 1 .. Len(Tail(ch)) : Tail(ch)[i] = ch[i + 1]
  OBVIOUS
<1>2. Distinct(Tail(ch))
  <2>1. SUFFICES ASSUME NEW i \in 1 .. Len(Tail(ch)), NEW j \in 1 .. Len(Tail(ch)),
                        Tail(ch)[i] = Tail(ch)[j]
                 PROVE  i = j
    BY DEF Distinct
  <2>2. ch[i + 1] = ch[j + 1] /\ i + 1 \in 1 .. Len(ch) /\ j + 1 \in 1 .. Len(ch)
    BY <1>1, <2>1
  <2> QED  BY <2>2 DEF Distinct
<1>3. InChannel(ch, Head(ch))
  BY <1>1 DEF InChannel
<1>4. ASSUME NEW b, InChannel(Tail(ch), b)
      PROVE  InChannel(ch, b) /\ b # Head(ch)
  <2>1. PICK i \in 1 .. Len(Tail(ch)) : Tail(ch)[i] = b
    BY <1>4 DEF InChannel
  <2>2. i + 1 \in 1 .. Len(ch) /\ ch[i + 1] = b /\ 1 \in 1 .. Len(ch) /\ i + 1 # 1
    BY <1>1, <2>1
  <2> QED  BY <1>1, <2>2 DEF InChannel, Distinct
<1>5. ASSUME NEW b, InChannel(ch, b), b # Head(ch)
      PROVE  InChannel(Tail(ch), b)
  <2>1. PICK i \in 1 .. Len(ch) : ch[i] = b
    BY <1>5 DEF InChannel
  <2>2. i - 1 \in 1 .. Len(Tail(ch)) /\ Tail(ch)[i - 1] = b
    BY <1>1, <1>5, <2>1
  <2> QED  BY <2>2 DEF InChannel
<1> QED  BY <1>1, <1>2, <1>3, <1>4, <1>5

\* Sending an id that is not in a channel adds it and nothing else.
LEMMA SendLemma ==
    ASSUME NEW S, NEW ch \in Seq(S), NEW id \in S, Distinct(ch), ~ InChannel(ch, id)
    PROVE  /\ Append(ch, id) \in Seq(S)
           /\ Len(Append(ch, id)) = Len(ch) + 1
           /\ Distinct(Append(ch, id))
           /\ \A b : InChannel(Append(ch, id), b) <=> InChannel(ch, b) \/ b = id
<1> DEFINE ap == Append(ch, id)
<1>1. /\ Len(ch) \in Nat /\ ap \in Seq(S) /\ Len(ap) = Len(ch) + 1
      /\ \A i \in 1 .. Len(ch) : ap[i] = ch[i]
      /\ ap[Len(ch) + 1] = id
  OBVIOUS
<1> HIDE DEF ap
<1>2. ASSUME NEW b, InChannel(ap, b)
      PROVE  InChannel(ch, b) \/ b = id
  BY <1>1, <1>2 DEF InChannel
<1>3. ASSUME NEW b, InChannel(ch, b) \/ b = id
      PROVE  InChannel(ap, b)
  <2>1. CASE InChannel(ch, b)
    BY <1>1, <2>1 DEF InChannel
  <2>2. CASE b = id
    BY <1>1, <2>2 DEF InChannel
  <2> QED  BY <1>3, <2>1, <2>2
<1>4. Distinct(ap)
  BY <1>1 DEF Distinct, InChannel
<1> QED  BY <1>1, <1>2, <1>3, <1>4 DEF ap

(***************************************************************************)
(* Pools.                                                                  *)
(***************************************************************************)

\* Sizes are numbers, and a pool's boxes are boxes, none of them NoBox.
LEMMA PoolLemma ==
    /\ NoBox \notin Boxes
    /\ \A p \in Pools : /\ PoolCap(p) \in Nat
                        /\ FirstBox(p) \in Nat
                        /\ PoolBoxes(p) \subseteq Boxes
    /\ \A c : PoolOf(c) \in Pools
<1>1. Cardinality(Compares) \in Nat
  BY FS_CardinalityType, SandboxAssumption
<1>2. \A p \in Pools : PoolCap(p) \in Nat /\ FirstBox(p) \in Nat
  BY <1>1, SandboxAssumption DEF Pools, PoolCap, FirstBox, GradePoolSize
<1>3. \A p \in Pools : PoolBoxes(p) \subseteq Boxes
  BY DEF Boxes
<1>4. NoBox \notin Boxes
  BY <1>2 DEF Boxes, PoolBoxes, NoBox
<1>5. \A c : PoolOf(c) \in Pools
  BY DEF PoolOf, Pools
<1> QED  BY <1>2, <1>3, <1>4, <1>5

\* A filled channel has each id of its pool once.
LEMMA FullPoolLemma ==
    ASSUME NEW p \in Pools
    PROVE  /\ FullPool(p) \in Seq(Boxes)
           /\ Len(FullPool(p)) = PoolCap(p)
           /\ Distinct(FullPool(p))
           /\ \A b : InChannel(FullPool(p), b) <=> b \in PoolBoxes(p)
<1>1. PoolCap(p) \in Nat /\ FirstBox(p) \in Nat /\ PoolBoxes(p) \subseteq Boxes
  BY PoolLemma
<1>2. \A i \in 1 .. PoolCap(p) : FirstBox(p) + i - 1 \in PoolBoxes(p)
  BY <1>1 DEF PoolBoxes
<1>3. FullPool(p) \in [1 .. PoolCap(p) -> Boxes]
  BY <1>1, <1>2 DEF FullPool
<1>4. FullPool(p) \in Seq(Boxes) /\ Len(FullPool(p)) = PoolCap(p)
  BY <1>1, <1>3
<1>5. Distinct(FullPool(p))
  BY <1>1, <1>4 DEF Distinct, FullPool
<1>6. ASSUME NEW b, InChannel(FullPool(p), b)
      PROVE  b \in PoolBoxes(p)
  BY <1>2, <1>4, <1>6 DEF InChannel, FullPool
<1>7. ASSUME NEW b \in PoolBoxes(p)
      PROVE  InChannel(FullPool(p), b)
  <2>1. /\ b - FirstBox(p) + 1 \in 1 .. PoolCap(p)
        /\ FirstBox(p) + (b - FirstBox(p) + 1) - 1 = b
    BY <1>1 DEF PoolBoxes
  <2> QED  BY <1>4, <2>1 DEF InChannel, FullPool
<1> QED  BY <1>4, <1>5, <1>6, <1>7

\* A pool has as many boxes as its channel has room for.
LEMMA PoolSize ==
    ASSUME NEW p \in Pools
    PROVE  IsFiniteSet(PoolBoxes(p)) /\ Cardinality(PoolBoxes(p)) = PoolCap(p)
<1> DEFINE first == FirstBox(p)
           last == first + PoolCap(p) - 1
<1>1. PoolCap(p) \in Nat /\ first \in Nat /\ last \in Int /\ first \in Int
  BY PoolLemma
<1>2. last - first + 1 = PoolCap(p) /\ (first > last <=> PoolCap(p) = 0)
  BY <1>1
<1> HIDE DEF first, last
<1>3. /\ IsFiniteSet(first .. last)
      /\ Cardinality(first .. last) = IF first > last THEN 0 ELSE last - first + 1
  BY <1>1, FS_Interval
<1>4. PoolBoxes(p) = first .. last
  BY DEF PoolBoxes, first, last
<1> QED  BY <1>1, <1>2, <1>3, <1>4

\* The run and the grade pool have no box in common.
LEMMA DisjointPools == PoolBoxes("run") \cap PoolBoxes("grade") = {}
BY SandboxAssumption DEF PoolBoxes, FirstBox, PoolCap, GradePoolSize

\* The goroutines of a handler draw from the run or the grade pool, those of
\* setupCompares from their own.
LEMMA ClientPools ==
    /\ \A c \in Handlers : PoolOf(c) \in {"run", "grade"}
    /\ \A c \in Compares : PoolOf(c) = "setup"
BY SandboxAssumption DEF Handlers, PoolOf

(***************************************************************************)
(* The inductive invariant.  BoxExclusive and BoxConservation say nothing  *)
(* of the ids in a channel of a pool that is being used: that they are the *)
(* pool's own, distinct, and none of them in a goroutine's hands, is what  *)
(* makes the next receive safe.                                            *)
(***************************************************************************)

\* A channel has ids of its pool, each once.
ChannelsOK ==
    \A p \in Pools : /\ Distinct(boxIds[p])
                     /\ \A b \in Boxes : InChannel(boxIds[p], b) => b \in PoolBoxes(p)

\* A box in a goroutine's hands is in neither the channel it came from nor
\* the hands of another goroutine of that pool.
HeldOK ==
    \A c \in Clients :
        box[c] # NoBox =>
            /\ ~ InChannel(boxIds[PoolOf(c)], box[c])
            /\ \A d \in Clients : c # d /\ PoolOf(c) = PoolOf(d) => box[c] # box[d]

\* Who has a box, and who is at work in which phase.
ProgressOK ==
    /\ \A c \in Clients :
        /\ pc[c] \in {"leased", "cleaned", "ready"} => box[c] # NoBox
        /\ pc[c] \in {"idle", "start"} => box[c] = NoBox
    /\ \A c \in Handlers : pc[c] # "end" /\ (phase # "serving" => pc[c] = "idle")
    /\ phase = "down" => \A c \in Compares : pc[c] = "idle"
    /\ ~ Refetches /\ phase = "serving" => \A c \in Compares : pc[c] = "idle"

\* While the worker serves, a box is in its channel or in a handler's hands.
NoBoxLost ==
    phase = "serving" =>
        \A p \in {"run", "grade"} : \A b \in PoolBoxes(p) :
            \/ InChannel(boxIds[p], b)
            \/ \E c \in Handlers : PoolOf(c) = p /\ box[c] = b

IndInv == TypeOK /\ ChannelsOK /\ HeldOK /\ ProgressOK /\ NoBoxLost

(***************************************************************************)
(* Steps.                                                                  *)
(***************************************************************************)

\* The process dies or restarts with empty channels and free hands.
LEMMA DieStep == IndInv /\ Die => IndInv'
<1> SUFFICES ASSUME IndInv, Die PROVE IndInv'
  OBVIOUS
<1>1. \A p \in Pools : boxIds'[p] = <<>>
  BY DEF Die
<1>2. TypeOK'
  BY PoolLemma, <1>1 DEF IndInv, TypeOK, Die, disk, Pools
<1>3. ChannelsOK'
  BY <1>1 DEF ChannelsOK, Distinct, InChannel
<1>4. HeldOK' /\ ProgressOK' /\ NoBoxLost'
  BY DEF Die, HeldOK, ProgressOK, NoBoxLost, Handlers, Clients, NoBox
<1> QED  BY <1>2, <1>3, <1>4 DEF IndInv

\* Starting a setup fills its channel; no setup goroutine has a box then.
LEMMA StartSetupStep ==
    ASSUME IndInv, StartSetup,
           \A c \in Compares : pc[c] = "idle",
           \/ phase = "down" /\ phase' = "setup"
           \/ Refetches /\ phase = "serving" /\ phase' = "serving"
    PROVE  IndInv'
<1>1. /\ boxIds'["setup"] = FullPool("setup")
      /\ \A p \in Pools : p # "setup" => boxIds'[p] = boxIds[p]
      /\ DOMAIN boxIds' = Pools
  BY DEF StartSetup, IndInv, TypeOK, Pools
<1>2. TypeOK'
  <2>1. boxIds' \in [Pools -> Seq(Boxes)] /\ \A p \in Pools : Len(boxIds'[p]) <= PoolCap(p)
    BY <1>1, PoolLemma, FullPoolLemma DEF StartSetup, IndInv, TypeOK, Pools
  <2> QED  BY <2>1 DEF StartSetup, IndInv, TypeOK
<1>3. ChannelsOK'
  BY <1>1, FullPoolLemma DEF IndInv, ChannelsOK, Pools
<1>4. \A c \in Clients : box[c] # NoBox => c \in Handlers
  BY DEF IndInv, ProgressOK, Clients
<1>5. HeldOK'
  BY <1>1, <1>4, ClientPools, PoolLemma DEF StartSetup, IndInv, HeldOK
<1>6. ProgressOK'
  BY SandboxAssumption DEF StartSetup, IndInv, ProgressOK, Handlers, Clients
<1>7. NoBoxLost'
  BY <1>1 DEF StartSetup, IndInv, NoBoxLost, Pools
<1> QED  BY <1>2, <1>3, <1>5, <1>6, <1>7 DEF IndInv

\* At the end of start-up the two pools of the service are full.
LEMMA ServeStep == IndInv /\ Serve => IndInv'
<1> SUFFICES ASSUME IndInv, Serve PROVE IndInv'
  OBVIOUS
<1>1. /\ boxIds'["run"] = FullPool("run") /\ boxIds'["grade"] = FullPool("grade")
      /\ boxIds'["setup"] = boxIds["setup"]
      /\ boxIds' \in [Pools -> Seq(Boxes)]
  BY FullPoolLemma DEF Serve, IndInv, TypeOK, Pools
<1>2. \A c \in Clients : box'[c] = NoBox
  BY DEF Serve, SetupEnded, IndInv, ProgressOK, Handlers, Clients
<1>3. TypeOK'
  <2>1. \A p \in Pools : Len(boxIds'[p]) <= PoolCap(p)
    BY <1>1, PoolLemma, FullPoolLemma DEF IndInv, TypeOK, Pools
  <2> QED  BY <1>1, <1>2, <2>1 DEF Serve, SetupEnded, disk, IndInv, TypeOK
<1>4. ChannelsOK'
  BY <1>1, FullPoolLemma DEF IndInv, ChannelsOK, Pools
<1>5. HeldOK'
  BY <1>2 DEF HeldOK
<1>6. ProgressOK'
  <2>1. \A c \in Compares : pc'[c] = "idle"
    BY DEF Serve, SetupEnded, Clients
  <2>2. \A c \in Handlers : pc'[c] = "idle"
    BY SandboxAssumption DEF Serve, SetupEnded, IndInv, ProgressOK, Handlers, Clients
  <2> QED  BY <1>2, <2>1, <2>2 DEF ProgressOK, Clients
<1>7. NoBoxLost'
  BY <1>1, FullPoolLemma DEF NoBoxLost, Pools
<1> QED  BY <1>3, <1>4, <1>5, <1>6, <1>7 DEF IndInv

\* The end of a refetch frees the hands of its goroutines, no others.
LEMMA RefetchEndedStep == IndInv /\ RefetchEnded => IndInv'
<1> SUFFICES ASSUME IndInv, RefetchEnded PROVE IndInv'
  OBVIOUS
<1>1. /\ \A c \in Handlers : box'[c] = box[c] /\ pc'[c] = pc[c]
      /\ \A c \in Compares : box'[c] = NoBox /\ pc'[c] = "idle"
  BY SandboxAssumption DEF RefetchEnded, SetupEnded, Handlers, Clients
<1>2. TypeOK'
  BY <1>1 DEF RefetchEnded, SetupEnded, IndInv, TypeOK
<1>3. ChannelsOK' /\ HeldOK'
  BY <1>1 DEF RefetchEnded, IndInv, ChannelsOK, HeldOK, Clients
<1>4. ProgressOK' /\ NoBoxLost'
  BY <1>1 DEF RefetchEnded, IndInv, ProgressOK, NoBoxLost, Clients
<1> QED  BY <1>2, <1>3, <1>4 DEF IndInv

\* A receive moves the id at the head of the channel to the receiver's hands.
LEMMA NewInstanceStep ==
    ASSUME NEW c \in Clients, IndInv, NewInstance(c)
    PROVE  IndInv'
<1> DEFINE p == PoolOf(c)
           ch == boxIds[p]
           b == Head(ch)
<1>1. p \in Pools /\ ch \in Seq(Boxes) /\ ch # <<>> /\ Distinct(ch)
  BY PoolLemma DEF NewInstance, IndInv, TypeOK, ChannelsOK
<1>2. /\ b \in Boxes /\ b \in PoolBoxes(p) /\ b # NoBox
      /\ Tail(ch) \in Seq(Boxes) /\ Len(Tail(ch)) = Len(ch) - 1 /\ Distinct(Tail(ch))
      /\ InChannel(ch, b)
      /\ \A x : InChannel(Tail(ch), x) <=> InChannel(ch, x) /\ x # b
  BY <1>1, ReceiveLemma, PoolLemma DEF IndInv, ChannelsOK
<1>3. /\ boxIds' \in [Pools -> Seq(Boxes)]
      /\ boxIds'[p] = Tail(ch)
      /\ \A q \in Pools : q # p => boxIds'[q] = boxIds[q]
      /\ box'[c] = b /\ box[c] = NoBox /\ pc[c] = "start" /\ pc'[c] = "leased"
      /\ \A d \in Clients : d # c => box'[d] = box[d] /\ pc'[d] = pc[d]
  BY <1>1, <1>2 DEF NewInstance, IndInv, TypeOK, ProgressOK
<1> HIDE DEF p, ch, b
<1>4. TypeOK'
  <2>1. \A q \in Pools : Len(boxIds'[q]) <= PoolCap(q)
    BY <1>1, <1>2, <1>3, PoolLemma DEF IndInv, TypeOK, ch
  <2>2. \A d \in Clients : box'[d] # NoBox => box'[d] \in PoolBoxes(PoolOf(d))
    BY <1>2, <1>3 DEF IndInv, TypeOK, p
  <2>3. box' \in [Clients -> Boxes \cup {NoBox}]
    BY <1>2, <1>3 DEF NewInstance, IndInv, TypeOK
  <2> QED  BY <1>3, <2>1, <2>2, <2>3 DEF NewInstance, IndInv, TypeOK
<1>5. ChannelsOK'
  BY <1>2, <1>3 DEF IndInv, ChannelsOK, ch
<1>6. HeldOK'
  <2>1. SUFFICES ASSUME NEW d \in Clients, box'[d] # NoBox
                 PROVE  /\ ~ InChannel(boxIds'[PoolOf(d)], box'[d])
                        /\ \A e \in Clients : d # e /\ PoolOf(d) = PoolOf(e) => box'[d] # box'[e]
    BY DEF HeldOK
  <2>2. CASE d = c
    BY <1>1, <1>2, <1>3, <2>1, <2>2 DEF IndInv, HeldOK, p, ch
  <2>3. CASE d # c
    <3>1. ~ InChannel(boxIds'[PoolOf(d)], box'[d])
      BY <1>1, <1>2, <1>3, <2>1, <2>3, PoolLemma DEF IndInv, HeldOK, ch
    <3>2. ASSUME NEW e \in Clients, d # e, PoolOf(d) = PoolOf(e)
          PROVE  box'[d] # box'[e]
      BY <1>1, <1>2, <1>3, <2>1, <2>3, <3>2 DEF IndInv, HeldOK, p, ch
    <3> QED  BY <3>1, <3>2
  <2> QED  BY <2>2, <2>3
<1>7. ProgressOK'
  BY <1>2, <1>3 DEF NewInstance, IndInv, ProgressOK, Handlers, Clients
<1>8. NoBoxLost'
  <2>1. SUFFICES ASSUME phase' = "serving", NEW q \in {"run", "grade"}, NEW x \in PoolBoxes(q)
                 PROVE  \/ InChannel(boxIds'[q], x)
                        \/ \E d \in Handlers : PoolOf(d) = q /\ box'[d] = x
    BY DEF NoBoxLost
  <2>2. x # NoBox /\ q \in Pools /\ phase = "serving"
    BY <2>1, PoolLemma DEF NewInstance, Pools
  <2>3. CASE \E d \in Handlers : PoolOf(d) = q /\ box[d] = x
    BY <1>3, <2>2, <2>3 DEF Clients
  <2>4. CASE InChannel(boxIds[q], x)
    <3>1. CASE q = p /\ x = b
      BY <1>3, <3>1, ClientPools DEF p, Clients
    <3>2. CASE ~ (q = p /\ x = b)
      BY <1>2, <1>3, <2>2, <2>4, <3>2 DEF ch
    <3> QED  BY <3>1, <3>2
  <2> QED  BY <2>2, <2>3, <2>4 DEF IndInv, NoBoxLost
<1> QED  BY <1>4, <1>5, <1>6, <1>7, <1>8 DEF IndInv

\* A clean-up moves the id from the goroutine's hands back to its channel.
LEMMA CleanupStep ==
    ASSUME NEW c \in Clients, IndInv, Cleanup(c)
    PROVE  IndInv'
<1> DEFINE p == PoolOf(c)
           ch == boxIds[p]
           b == box[c]
<1>1. /\ p \in Pools /\ ch \in Seq(Boxes) /\ Distinct(ch)
      /\ b \in Boxes /\ b # NoBox /\ b \in PoolBoxes(p) /\ ~ InChannel(ch, b)
  BY PoolLemma DEF Cleanup, IndInv, TypeOK, ChannelsOK, HeldOK, ProgressOK
<1>2. /\ Append(ch, b) \in Seq(Boxes) /\ Len(Append(ch, b)) = Len(ch) + 1
      /\ Distinct(Append(ch, b))
      /\ \A x : InChannel(Append(ch, b), x) <=> InChannel(ch, x) \/ x = b
  BY <1>1, SendLemma
<1>3. /\ boxIds' \in [Pools -> Seq(Boxes)]
      /\ boxIds'[p] = Append(ch, b)
      /\ \A q \in Pools : q # p => boxIds'[q] = boxIds[q]
      /\ Len(ch) < PoolCap(p)
      /\ box'[c] = NoBox /\ pc[c] = "ready"
      /\ pc'[c] = (IF c \in Compares THEN "end" ELSE "idle")
      /\ \A d \in Clients : d # c => box'[d] = box[d] /\ pc'[d] = pc[d]
      /\ phase' = phase
  BY <1>1, <1>2 DEF Cleanup, IndInv, TypeOK
<1> HIDE DEF p, ch, b
<1>4. TypeOK'
  <2>1. \A q \in Pools : Len(boxIds'[q]) <= PoolCap(q)
    <3>1. Len(ch) \in Nat /\ PoolCap(p) \in Nat
      BY <1>1, PoolLemma
    <3>2. Len(boxIds'[p]) <= PoolCap(p)
      BY <1>2, <1>3, <3>1
    <3>3. \A q \in Pools : Len(boxIds[q]) <= PoolCap(q)
      BY DEF IndInv, TypeOK
    <3> QED  BY <1>3, <3>2, <3>3
  <2>2. box' \in [Clients -> Boxes \cup {NoBox}]
    BY DEF Cleanup, IndInv, TypeOK
  <2>3. initialised' \in SUBSET Boxes /\ files' \in [Boxes -> SUBSET Clients]
    BY DEF Cleanup, RemoveBox, IndInv, TypeOK
  <2>4. pc' \in [Clients -> {"idle", "start", "leased", "cleaned", "ready", "end"}]
    BY DEF Cleanup, IndInv, TypeOK
  <2> QED  BY <1>3, <2>1, <2>2, <2>3, <2>4 DEF IndInv, TypeOK
<1>5. ChannelsOK'
  BY <1>1, <1>2, <1>3 DEF IndInv, ChannelsOK, ch
<1>6. HeldOK'
  <2>1. SUFFICES ASSUME NEW d \in Clients, box'[d] # NoBox
                 PROVE  /\ ~ InChannel(boxIds'[PoolOf(d)], box'[d])
                        /\ \A e \in Clients : d # e /\ PoolOf(d) = PoolOf(e) => box'[d] # box'[e]
    BY DEF HeldOK
  <2>2. d # c /\ box[d] # NoBox
    BY <1>3, <2>1
  <2>3. ~ InChannel(boxIds'[PoolOf(d)], box'[d])
    BY <1>1, <1>2, <1>3, <2>2, PoolLemma DEF IndInv, HeldOK, p, ch, b
  <2>4. \A e \in Clients : d # e /\ PoolOf(d) = PoolOf(e) => box'[d] # box'[e]
    BY <1>3, <2>1, <2>2 DEF IndInv, HeldOK
  <2> QED  BY <2>3, <2>4
<1>7. ProgressOK'
  BY <1>3, SandboxAssumption DEF IndInv, ProgressOK, Handlers, Clients
<1>8. NoBoxLost'
  <2>1. SUFFICES ASSUME phase = "serving", NEW q \in {"run", "grade"}, NEW x \in PoolBoxes(q)
                 PROVE  \/ InChannel(boxIds'[q], x)
                        \/ \E d \in Handlers : PoolOf(d) = q /\ box'[d] = x
    BY <1>3 DEF NoBoxLost
  <2>2. q \in Pools
    BY DEF Pools
  <2>3. CASE InChannel(boxIds[q], x)
    BY <1>2, <1>3, <2>2, <2>3 DEF ch
  <2>4. CASE \E d \in Handlers : PoolOf(d) = q /\ box[d] = x
    <3>1. PICK d \in Handlers : PoolOf(d) = q /\ box[d] = x
      BY <2>4
    <3>2. CASE d = c
      BY <1>2, <1>3, <3>1, <3>2 DEF p, b
    <3>3. CASE d # c
      BY <1>3, <3>1, <3>3 DEF Clients
    <3> QED  BY <3>2, <3>3
  <2> QED  BY <2>1, <2>3, <2>4 DEF IndInv, NoBoxLost
<1> QED  BY <1>4, <1>5, <1>6, <1>7, <1>8 DEF IndInv

\* The other steps of a goroutine touch only its pc and the boxes' contents.
LEMMA OtherStep ==
    ASSUME NEW c \in Clients, IndInv,
           \/ Ask(c) \/ SkipUnconfigured(c) \/ InitCleanup(c) \/ InitBox(c)
           \/ CreateFile(c) \/ SkipExisting(c)
    PROVE  IndInv'
<1>1. /\ phase' = phase /\ boxIds' = boxIds /\ box' = box
      /\ pc' \in [Clients -> {"idle", "start", "leased", "cleaned", "ready", "end"}]
      /\ \A d \in Clients : d # c => pc'[d] = pc[d]
  BY DEF Ask, SkipUnconfigured, InitCleanup, InitBox, CreateFile, SkipExisting, IndInv, TypeOK
<1>2. initialised' \in SUBSET Boxes /\ files' \in [Boxes -> SUBSET Clients]
  <2>1. CASE InitCleanup(c)
    BY <2>1 DEF InitCleanup, RemoveBox, disk, IndInv, TypeOK
  <2>2. CASE InitBox(c)
    BY <2>2 DEF InitBox, IndInv, TypeOK, ProgressOK
  <2>3. CASE CreateFile(c)
    BY <2>3 DEF CreateFile, IndInv, TypeOK
  <2>4. CASE Ask(c) \/ SkipUnconfigured(c) \/ SkipExisting(c)
    BY <2>4 DEF Ask, SkipUnconfigured, SkipExisting, IndInv, TypeOK
  <2> QED  BY <2>1, <2>2, <2>3, <2>4
<1>3. TypeOK'
  BY <1>1, <1>2 DEF IndInv, TypeOK
<1>4. ChannelsOK' /\ HeldOK' /\ NoBoxLost'
  BY <1>1 DEF IndInv, ChannelsOK, HeldOK, NoBoxLost
<1>5. /\ pc'[c] \in {"leased", "cleaned", "ready"} => box[c] # NoBox
      /\ pc'[c] \in {"idle", "start"} => box[c] = NoBox
      /\ c \in Handlers => pc'[c] # "end" /\ phase = "serving"
      /\ c \in Compares => pc[c] # "idle"
  <2>1. c \in Handlers => c \notin Compares
    BY SandboxAssumption DEF Handlers
  <2> QED
    BY <2>1 DEF Ask, SkipUnconfigured, InitCleanup, InitBox, CreateFile, SkipExisting,
                IndInv, TypeOK, ProgressOK
<1>6. ProgressOK'
  BY <1>1, <1>5 DEF IndInv, ProgressOK, Clients, Handlers
<1> QED  BY <1>3, <1>4, <1>6 DEF IndInv

\* The invariant holds at first and is kept by every step.
THEOREM Inductive == Spec => []IndInv
<1>1. Init => IndInv
  <2> SUFFICES ASSUME Init PROVE IndInv
    OBVIOUS
  <2>1. TypeOK
    BY PoolLemma DEF Init, TypeOK
  <2>2. ChannelsOK /\ HeldOK /\ NoBoxLost
    BY DEF Init, ChannelsOK, HeldOK, NoBoxLost, Distinct, InChannel
  <2>3. ProgressOK
    BY DEF Init, ProgressOK, Handlers, Clients
  <2> QED  BY <2>1, <2>2, <2>3 DEF IndInv
<1>2. IndInv /\ [Next]_vars => IndInv'
  <2> SUFFICES ASSUME IndInv, [Next]_vars PROVE IndInv'
    OBVIOUS
  <2>1. CASE Boot
    BY <2>1, StartSetupStep DEF Boot, IndInv, ProgressOK
  <2>2. CASE Serve
    BY <2>2, ServeStep
  <2>3. CASE Refetch
    BY <2>3, StartSetupStep DEF Refetch
  <2>4. CASE RefetchEnded
    BY <2>4, RefetchEndedStep
  <2>5. CASE Crash
    BY <2>5, DieStep DEF Crash
  <2>6. ASSUME NEW c \in Clients, Step(c)
        PROVE  IndInv'
    <3>1. CASE NewInstance(c)
      BY <3>1, NewInstanceStep
    <3>2. CASE Cleanup(c)
      BY <3>2, CleanupStep
    <3>3. CASE InitFatal(c) \/ CleanupFatal(c)
      BY <3>3, DieStep DEF InitFatal, CleanupFatal
    <3>4. CASE \/ Ask(c) \/ SkipUnconfigured(c) \/ InitCleanup(c) \/ InitBox(c)
               \/ CreateFile(c) \/ SkipExisting(c)
      BY <3>4, OtherStep
    <3> QED  BY <2>6, <3>1, <3>2, <3>3, <3>4 DEF Step
  <2>7. CASE UNCHANGED vars
    BY <2>7 DEF vars, IndInv, TypeOK, ChannelsOK, HeldOK, ProgressOK, NoBoxLost
  <2> QED  BY <2>1, <2>2, <2>3, <2>4, <2>5, <2>6, <2>7 DEF Next
<1> QED  BY <1>1, <1>2, PTL DEF Spec

\* The variables of the sandbox pools keep to their types.
THEOREM TypeCorrect == Spec => []TypeOK
<1>1. IndInv => TypeOK
  BY DEF IndInv
<1> QED  BY <1>1, Inductive, PTL

\* For pools of any size: while the worker serves, each box of the run and the
\* grade pool is in its channel, once, or in one goroutine's hands.
THEOREM Conservation == Spec => []BoxConservation
<1>1. IndInv => BoxConservation
  <2> SUFFICES ASSUME IndInv, phase = "serving",
                      NEW p \in {"run", "grade"}, NEW b \in PoolBoxes(p)
               PROVE  /\ Distinct(boxIds[p])
                      /\ InChannel(boxIds[p], b) <=>
                            ~ \E c \in Handlers : PoolOf(c) = p /\ box[c] = b
    BY DEF BoxConservation, IndInv, ChannelsOK, Pools
  <2>1. b # NoBox /\ p \in Pools
    BY PoolLemma DEF Pools
  <2> QED  BY <2>1 DEF IndInv, ChannelsOK, HeldOK, NoBoxLost, Clients
<1> QED  BY <1>1, Inductive, PTL

\* Goroutines of one pool differ by HeldOK; those of different pools are handlers
\* unless a setup runs, and the handlers' pools are disjoint.
LEMMA ExclusionLemma ==
    ASSUME ~ Refetches
    PROVE  IndInv => BoxExclusive
<1> SUFFICES ASSUME IndInv, NEW c \in Clients, NEW d \in Clients, c # d,
                    box[c] # NoBox, box[c] = box[d]
             PROVE  FALSE
  BY DEF BoxExclusive
<1>1. box[c] \in PoolBoxes(PoolOf(c)) /\ box[c] \in PoolBoxes(PoolOf(d))
  BY DEF IndInv, TypeOK
<1>2. PoolOf(c) # PoolOf(d)
  BY DEF IndInv, HeldOK
<1>3. c \in Handlers \/ d \in Handlers
  BY <1>2, ClientPools DEF Clients
<1>4. phase = "serving" /\ c \in Handlers /\ d \in Handlers
  BY <1>3 DEF IndInv, ProgressOK, Clients
<1> QED  BY <1>1, <1>2, <1>4, ClientPools, DisjointPools

\* No two goroutines have the same box, as long as no REFETCH_CONFIG arrives.
THEOREM Exclusion ==
    ASSUME ~ Refetches
    PROVE  Spec => []BoxExclusive
<1>1. IndInv => BoxExclusive
  BY ExclusionLemma
<1> QED  BY <1>1, Inductive, PTL

\* While a goroutine has a box, the channel it came from has room: the ids in it
\* are distinct boxes of the pool, and this box is not among them.
THEOREM SendRoom == Spec => []SendNeverBlocks
<1>1. IndInv => SendNeverBlocks
  <2> SUFFICES ASSUME IndInv, NEW c \in Clients, box[c] # NoBox
               PROVE  Len(boxIds[PoolOf(c)]) < PoolCap(PoolOf(c))
    BY DEF SendNeverBlocks
  <2> DEFINE p == PoolOf(c)
             ch == boxIds[p]
             others == PoolBoxes(p) \ {box[c]}
  <2>1. /\ p \in Pools /\ ch \in Seq(Boxes) /\ Len(ch) \in Nat /\ Distinct(ch)
        /\ PoolCap(p) \in Nat /\ FirstBox(p) \in Nat
        /\ box[c] \in PoolBoxes(p) /\ ~ InChannel(ch, box[c])
    BY PoolLemma DEF IndInv, TypeOK, ChannelsOK, HeldOK
  <2>2. /\ IsFiniteSet(PoolBoxes(p))
        /\ Cardinality(PoolBoxes(p)) = PoolCap(p)
    BY <2>1, PoolSize
  <2>3. IsFiniteSet(others) /\ Cardinality(others) = PoolCap(p) - 1
    BY <2>1, <2>2, FS_RemoveElement
  <2>4. \A i \in 1 .. Len(ch) : ch[i] \in others
    BY <2>1 DEF IndInv, ChannelsOK, InChannel
  <2>5. ch \in [1 .. Len(ch) -> others]
    BY <2>1, <2>4
  <2>6. ch \in Injection(1 .. Len(ch), others)
    BY <2>1, <2>5, Fun_IsInj DEF Distinct
  <2>7. Cardinality(1 .. Len(ch)) <= Cardinality(others)
    BY <2>3, <2>6, FS_Injection
  <2>8. \A n \in Nat : Cardinality(1 .. n) = n
    BY FS_Interval
  <2> QED  BY <2>1, <2>3, <2>7, <2>8
<1> QED  BY <1>1, Inductive, PTL

(***************************************************************************)
(* Contents of the boxes, without REFETCH_CONFIG: a box that does not      *)
(* exist has no files, so that a goroutine past its --init has only its    *)
(* own.                                                                    *)
(***************************************************************************)

NoFilesOutside == \A b \in Boxes \ initialised : files[b] = {}

\* A goroutine past its Init works in a box that exists and has no files but its
\* own, as long as no REFETCH_CONFIG arrives.
THEOREM Integrity ==
    ASSUME ~ Refetches
    PROVE  Spec => []BoxIntegrity
<1> DEFINE Inv == BoxIntegrity /\ NoFilesOutside
<1>1. Init => Inv
  BY DEF Init, BoxIntegrity, NoFilesOutside
<1>2. Inv /\ IndInv /\ [Next]_vars => Inv'
  <2> SUFFICES ASSUME Inv, IndInv, [Next]_vars PROVE Inv'
    OBVIOUS
  <2>1. \A c, d \in Clients : c # d /\ box[c] # NoBox => box[c] # box[d]
    BY ExclusionLemma DEF BoxExclusive
  <2>2. \A c \in Clients :
            pc[c] \in {"leased", "cleaned", "ready"} => box[c] # NoBox /\ box[c] \in Boxes
    BY DEF IndInv, TypeOK, ProgressOK
  <2>3. ASSUME NEW c \in Clients, InitCleanup(c) \/ Cleanup(c)
        PROVE  Inv'
    <3>1. CASE /\ RemoveBox(box[c])
               /\ \A d \in Clients : d # c => pc'[d] = pc[d] /\ box'[d] = box[d]
               /\ pc'[c] # "ready"
      BY <2>1, <2>2, <3>1 DEF RemoveBox, BoxIntegrity, NoFilesOutside, IndInv, TypeOK
    <3>2. CASE UNCHANGED <<disk, box>> /\ pc' = [pc EXCEPT ![c] = "cleaned"]
      BY <3>2 DEF disk, BoxIntegrity, NoFilesOutside, IndInv, TypeOK
    <3> QED  BY <2>3, <3>1, <3>2 DEF InitCleanup, Cleanup, IndInv, TypeOK
  <2>4. ASSUME NEW c \in Clients, InitBox(c)
        PROVE  Inv'
    BY <2>2, <2>4 DEF InitBox, BoxIntegrity, NoFilesOutside, IndInv, TypeOK
  <2>5. ASSUME NEW c \in Clients, CreateFile(c)
        PROVE  Inv'
    BY <2>1, <2>2, <2>5 DEF CreateFile, BoxIntegrity, NoFilesOutside, IndInv, TypeOK
  <2>6. CASE Die
    BY <2>6 DEF Die, disk, BoxIntegrity, NoFilesOutside
  <2>7. CASE Boot \/ Serve \/ Refetch \/ RefetchEnded
    <3>1. UNCHANGED disk /\ \A c \in Clients : pc'[c] = "ready" => pc[c] = "ready" /\ box'[c] = box[c]
      BY <2>7 DEF Boot, Serve, Refetch, RefetchEnded, StartSetup, SetupEnded, disk
    <3> QED  BY <3>1 DEF disk, BoxIntegrity, NoFilesOutside
  <2>8. ASSUME NEW c \in Clients, Ask(c) \/ SkipUnconfigured(c) \/ NewInstance(c) \/ SkipExisting(c)
        PROVE  Inv'
    <3>1. /\ initialised' = initialised /\ files' = files
          /\ \A d \in Clients : pc'[d] = "ready" => pc[d] = "ready" /\ box'[d] = box[d]
      BY <2>8 DEF Ask, SkipUnconfigured, NewInstance, SkipExisting, IndInv, TypeOK
    <3> QED  BY <3>1 DEF BoxIntegrity, NoFilesOutside
  <2>9. CASE UNCHANGED vars
    BY <2>9 DEF vars, BoxIntegrity, NoFilesOutside
  <2> QED
    BY <2>3, <2>4, <2>5, <2>6, <2>7, <2>8, <2>9
    DEF Next, Step, Crash, InitFatal, CleanupFatal
<1>3. Inv => BoxIntegrity
  OBVIOUS
<1> QED  BY <1>1, <1>2, <1>3, Inductive, PTL DEF Spec

(***************************************************************************)
(* Channels and deferred clean-ups implement leases.                       *)
(***************************************************************************)

Allowed == {l \in Boxes \X Handlers : l[1] \in PoolBoxes(PoolOf(l[2]))}
leases == {l \in Boxes \X Handlers : box[l[2]] = l[1]}

HandlersExclusive == \A c, d \in Handlers : c # d /\ box[c] # NoBox => box[c] # box[d]

\* Two handlers never have the same box.
LEMMA HandlersLemma == IndInv => HandlersExclusive
<1> SUFFICES ASSUME IndInv, NEW c \in Handlers, NEW d \in Handlers, c # d,
                    box[c] # NoBox, box[c] = box[d]
             PROVE  FALSE
  BY DEF HandlersExclusive
<1>1. c \in Clients /\ d \in Clients
  BY DEF Clients
<1>2. box[c] \in PoolBoxes(PoolOf(c)) /\ box[c] \in PoolBoxes(PoolOf(d))
  BY <1>1 DEF IndInv, TypeOK
<1>3. PoolOf(c) # PoolOf(d)
  BY <1>1 DEF IndInv, HeldOK
<1> QED  BY <1>2, <1>3, ClientPools, DisjointPools

\* The handlers that have a box of a pool.
Holders(p) == {c \in Handlers : PoolOf(c) = p /\ box[c] # NoBox}

\* The ids in a channel and the boxes in goroutines' hands add up to the pool.
BoxCount ==
    phase = "serving" =>
        \A p \in {"run", "grade"} :
            /\ IsFiniteSet(Holders(p))
            /\ Len(boxIds[p]) + Cardinality(Holders(p)) = PoolCap(p)

\* While the worker serves, as many boxes of a pool are free as it has boxes more
\* than handlers at work with one, so that a pool may be reduced to this number:
\* the channel's ids and the handlers' boxes are one-to-one with the two parts of
\* the pool.
THEOREM BoxesCounted == Spec => []BoxCount
<1>1. IndInv => BoxCount
  <2> SUFFICES ASSUME IndInv, phase = "serving", NEW p \in {"run", "grade"}
               PROVE  /\ IsFiniteSet(Holders(p))
                      /\ Len(boxIds[p]) + Cardinality(Holders(p)) = PoolCap(p)
    BY DEF BoxCount
  <2> DEFINE ch == boxIds[p]
             dom == 1 .. Len(ch)
             free == {b \in PoolBoxes(p) : InChannel(ch, b)}
             held == PoolBoxes(p) \ free
             hand == [c \in Holders(p) |-> box[c]]
  <2>1. /\ p \in Pools /\ ch \in Seq(Boxes) /\ Len(ch) \in Nat /\ Distinct(ch)
        /\ PoolCap(p) \in Nat /\ FirstBox(p) \in Nat
    BY PoolLemma DEF IndInv, TypeOK, ChannelsOK, Pools
  <2>2. /\ IsFiniteSet(PoolBoxes(p))
        /\ Cardinality(PoolBoxes(p)) = PoolCap(p)
    BY <2>1, PoolSize
  <2>3. IsFiniteSet(free) /\ IsFiniteSet(held)
    BY <2>2, FS_Subset
  <2>4. Cardinality(held) = PoolCap(p) - Cardinality(free)
    <3>1. PoolBoxes(p) \cap free = free
      OBVIOUS
    <3> HIDE DEF free
    <3> QED  BY <2>2, <3>1, FS_Difference
  <2>5. Cardinality(free) = Len(ch)
    <3>1. \A i \in dom : ch[i] \in free
      BY <2>1 DEF IndInv, ChannelsOK, InChannel
    <3>2. ch \in [dom -> free]
      BY <2>1, <3>1
    <3>3. ch \in Injection(dom, free)
      BY <2>1, <3>2, Fun_IsInj DEF Distinct
    <3>4. ch \in Surjection(dom, free)
      <4>1. \A b \in free : \E i \in dom : ch[i] = b
        BY DEF InChannel
      <4> HIDE DEF free, dom, ch
      <4> QED  BY <3>2, <4>1, Fun_IsSurj
    <3>5. Cardinality(dom) = Cardinality(free)
      BY <2>3, <3>3, <3>4, FS_Injection
    <3>6. \A n \in Nat : Cardinality(1 .. n) = n
      BY FS_Interval
    <3> QED  BY <2>1, <3>5, <3>6
  <2>6. hand \in [Holders(p) -> held]
    <3> SUFFICES ASSUME NEW c \in Holders(p) PROVE box[c] \in held
      OBVIOUS
    <3>1. c \in Clients /\ PoolOf(c) = p /\ box[c] # NoBox
      BY DEF Holders, Clients
    <3> QED  BY <3>1 DEF IndInv, TypeOK, HeldOK
  <2>7. hand \in Injection(Holders(p), held)
    <3>1. ASSUME NEW c \in Holders(p), NEW d \in Holders(p), hand[c] = hand[d]
          PROVE  c = d
      <4>1. /\ c \in Handlers /\ d \in Handlers
            /\ box[c] # NoBox /\ box[c] = box[d]
        BY <3>1 DEF Holders
      <4> QED  BY <4>1, HandlersLemma DEF HandlersExclusive
    <3> HIDE DEF hand, held
    <3> QED  BY <2>6, <3>1, Fun_IsInj
  <2>8. hand \in Surjection(Holders(p), held)
    <3>1. ASSUME NEW b \in held
          PROVE  \E c \in Holders(p) : hand[c] = b
      <4>1. PICK c \in Handlers : PoolOf(c) = p /\ box[c] = b
        BY DEF IndInv, NoBoxLost
      <4>2. b # NoBox
        BY <2>1, PoolLemma
      <4>3. c \in Holders(p)
        BY <4>1, <4>2 DEF Holders
      <4> QED  BY <4>1, <4>3
    <3> HIDE DEF hand, held
    <3> QED  BY <2>6, <3>1, Fun_IsSurj
  <2>9. IsFiniteSet(Holders(p)) /\ Cardinality(Holders(p)) = Cardinality(held)
    <3> HIDE DEF hand, held
    <3> QED  BY <2>3, <2>7, <2>8, FS_Injection
  <2> HIDE DEF free, held
  <2> QED  BY <2>1, <2>4, <2>5, <2>9
<1> QED  BY <1>1, Inductive, PTL

\* The steps of BoxLease for a pair it allows.
LEMMA GrantStep ==
    ASSUME NEW b, NEW c, <<b, c>> \in Allowed, Lease!Grant(b, c)
    PROVE  Lease!Next
<1>1. <<b, c>>[1] = b /\ <<b, c>>[2] = c
  OBVIOUS
<1> QED  BY <1>1 DEF Lease!Next, Lease!Grant, Allowed

\* Likewise when a box is given back.
LEMMA GiveBackStep ==
    ASSUME NEW b, NEW c, <<b, c>> \in Allowed, Lease!GiveBack(b, c)
    PROVE  Lease!Next
<1>1. <<b, c>>[1] = b /\ <<b, c>>[2] = c
  OBVIOUS
<1> QED  BY <1>1 DEF Lease!Next, Lease!GiveBack, Allowed

\* Every step of the pools is a step of BoxLease, for the handlers' boxes, or
\* leaves the leases as they are, also while a refetch runs.
THEOREM LeaseRefinement == Spec => LeaseSpec
<1>1. Init => leases = {}
  BY PoolLemma DEF Init, leases, Clients
<1>2. IndInv /\ IndInv' /\ HandlersExclusive' /\ [Next]_vars => [Lease!Next]_leases
  <2> SUFFICES ASSUME IndInv, IndInv', HandlersExclusive', [Next]_vars, leases' # leases
               PROVE  Lease!Next
    OBVIOUS
  <2>1. ASSUME \A c \in Handlers : box'[c] = box[c]
        PROVE  FALSE
    BY <2>1 DEF leases
  <2>2. CASE Die
    <3>1. leases' = {}
      BY <2>2, PoolLemma DEF Die, leases, Clients
    <3> QED  BY <3>1 DEF Lease!Next, Lease!LoseAll, leases
  <2>3. ASSUME NEW c \in Clients, NewInstance(c)
        PROVE  Lease!Next
    <3>1. /\ box[c] = NoBox
          /\ \A d \in Clients : d # c => box'[d] = box[d]
          /\ box'[c] = Head(boxIds[PoolOf(c)])
      BY <2>3 DEF NewInstance, IndInv, TypeOK, ProgressOK
    <3>2. c \in Handlers
      BY <2>1, <3>1 DEF Clients, Handlers
    <3>3. box'[c] # NoBox /\ box'[c] \in Boxes /\ box'[c] \in PoolBoxes(PoolOf(c))
      BY <2>3 DEF NewInstance, IndInv, TypeOK, ProgressOK
    <3>4. PICK b \in Boxes : b = box'[c]
      BY <3>3
    <3>5. <<b, c>> \in Allowed
      BY <3>2, <3>3, <3>4 DEF Allowed
    <3>6. leases' = leases \cup {<<b, c>>}
      BY <3>1, <3>2, <3>3, <3>4, PoolLemma DEF leases, Clients
    <3>7. \A k \in leases : k[1] # b /\ k[2] # c
      <4> SUFFICES ASSUME NEW k \in leases PROVE k[1] # b /\ k[2] # c
        OBVIOUS
      <4>1. k[2] \in Handlers /\ box[k[2]] = k[1] /\ k[1] \in Boxes
        BY DEF leases
      <4>2. k[2] # c
        BY <3>1, <4>1, PoolLemma
      <4>3. box'[k[2]] = k[1]
        BY <3>1, <4>1, <4>2 DEF Clients
      <4>4. box'[k[2]] # box'[c]
        BY <3>2, <3>3, <4>1, <4>2 DEF HandlersExclusive
      <4> QED  BY <3>4, <4>2, <4>3, <4>4
    <3>8. Lease!Grant(b, c)
      BY <3>5, <3>6, <3>7 DEF Lease!Grant, leases, Allowed
    <3> QED  BY <3>5, <3>8, GrantStep
  <2>4. ASSUME NEW c \in Clients, Cleanup(c)
        PROVE  Lease!Next
    <3>1. /\ box'[c] = NoBox
          /\ \A d \in Clients : d # c => box'[d] = box[d]
          /\ box[c] # NoBox /\ box[c] \in Boxes /\ box[c] \in PoolBoxes(PoolOf(c))
      BY <2>4 DEF Cleanup, IndInv, TypeOK, ProgressOK
    <3>2. c \in Handlers
      BY <2>1, <3>1 DEF Clients, Handlers
    <3>3. PICK b \in Boxes : b = box[c]
      BY <3>1
    <3>4. <<b, c>> \in Allowed /\ <<b, c>> \in leases
      BY <3>1, <3>2, <3>3 DEF Allowed, leases
    <3>5. leases' = leases \ {<<b, c>>}
      BY <3>1, <3>2, <3>3, PoolLemma DEF leases, Clients
    <3>6. Lease!GiveBack(b, c)
      BY <3>4, <3>5 DEF Lease!GiveBack, leases, Allowed
    <3> QED  BY <3>4, <3>6, GiveBackStep
  <2>5. CASE Serve \/ RefetchEnded
    <3>1. \A c \in Handlers : box'[c] = box[c]
      BY <2>5, SandboxAssumption DEF Serve, RefetchEnded, SetupEnded, Handlers, Clients
    <3> QED  BY <2>1, <3>1
  <2>6. CASE UNCHANGED box
    BY <2>1, <2>6
  <2> QED
    BY <2>2, <2>3, <2>4, <2>5, <2>6
    DEF Next, Step, Crash, InitFatal, CleanupFatal, vars, Boot, Refetch, StartSetup,
        Ask, SkipUnconfigured, InitCleanup, InitBox, CreateFile, SkipExisting
<1> QED
  BY <1>1, <1>2, HandlersLemma, Inductive, PTL
  DEF Spec, LeaseSpec, Lease!Spec, Lease!Init, leases, Allowed
==============================================================================
