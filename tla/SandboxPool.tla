------------------------------ MODULE SandboxPool ------------------------------
(***************************************************************************)
(* The isolate sandboxes of a worker (domain/services/isolate.go) and the  *)
(* goroutines that use them: the handlers of the run, runner_test and      *)
(* compare_test queues draw from the run pool, the test cases of a grade   *)
(* from the grade pool, and setupCompares (internal/setup/setup.go) from a *)
(* pool it builds for itself each time the configuration is installed, at  *)
(* start-up and again on a REFETCH_CONFIG broadcast.                       *)
(*                                                                         *)
(* A pool is a Go channel of box ids, modelled as the FIFO sequence it is: *)
(* receiving from an empty channel and sending to a full one block.  The   *)
(* boxes are directories on disk, which outlive the process.               *)
(***************************************************************************)
EXTENDS Integers, Sequences, FiniteSets

CONSTANTS
    RunQueueAmount,    \* RUN_QUEUE_AMOUNT
    GradeQueueAmount,  \* GRADE_QUEUE_AMOUNT
    RunClients,        \* goroutines that call NewRunInstance
    GradeClients,      \* goroutines that call NewGradeInstance
    Compares,          \* compare scripts of the configuration, a setup goroutine each
    Unlimited,         \* the run clients whose program runs without limits
    Refetches          \* whether REFETCH_CONFIG broadcasts arrive

\* GetRunQueueAmount and GetGradeQueueAmount refuse only negative numbers.
ASSUME SandboxAssumption ==
    /\ RunQueueAmount \in Nat
    /\ GradeQueueAmount \in Nat
    /\ Refetches \in BOOLEAN
    /\ Unlimited \subseteq RunClients
    /\ IsFiniteSet(Compares)
    /\ RunClients \cap GradeClients = {}
    /\ RunClients \cap Compares = {}
    /\ GradeClients \cap Compares = {}

VARIABLES
    phase,        \* of the process: "down", "setup" (start-up), "serving"
    boxIds,       \* the channels, one per pool
    pc,           \* where each goroutine is in its use of an IsolateInstance: it
                  \* does not ask ("idle"), waits for a box ("start"), has one
                  \* ("leased"), whose leftovers are gone ("cleaned") and which is
                  \* initialised ("ready"); "end" of a setup goroutine
    box,          \* boxID of the goroutine's instance, or NoBox
    initialised,  \* boxes whose directory exists (isolate --init was run)
    files         \* per box, the goroutines whose files are in it

vars == <<phase, boxIds, pc, box, initialised, files>>
disk == <<initialised, files>>

Handlers == RunClients \cup GradeClients
Clients == Handlers \cup Compares

NoBox == -1
Pools == {"run", "grade", "setup"}

\* The grade pool has two boxes per unit of GRADE_QUEUE_AMOUNT.
GradePoolSize == 2 * GradeQueueAmount

\* Mutant: ranges that overlap by one.
FirstBoxOffByOne(p) == IF p = "grade" THEN RunQueueAmount - 1 ELSE 0

FirstBox(p) == IF p = "grade" THEN RunQueueAmount ELSE 0

PoolCap(p) ==
    CASE p = "run"   -> RunQueueAmount
      [] p = "grade" -> GradePoolSize
      [] p = "setup" -> Cardinality(Compares)

PoolBoxes(p) == FirstBox(p) .. FirstBox(p) + PoolCap(p) - 1

Boxes == UNION {PoolBoxes(p) : p \in Pools}

\* A channel filled with the ids of its pool, in order.
FullPool(p) == [i \in 1 .. PoolCap(p) |-> FirstBox(p) + i - 1]

PoolOf(c) ==
    IF c \in RunClients THEN "run" ELSE IF c \in GradeClients THEN "grade" ELSE "setup"

--------------------------------------------------------------------------------

Init ==
    /\ phase = "down"
    /\ boxIds = [p \in Pools |-> <<>>]
    /\ pc = [c \in Clients |-> "idle"]
    /\ box = [c \in Clients |-> NoBox]
    /\ initialised = {}
    /\ files = [b \in Boxes |-> {}]

\* setupCompares makes a pool of its own and starts a goroutine per compare.
StartSetup ==
    /\ boxIds' = [boxIds EXCEPT !["setup"] = FullPool("setup")]
    /\ pc' = [c \in Clients |-> IF c \in Compares THEN "start" ELSE pc[c]]
    /\ UNCHANGED <<box, initialised, files>>

\* wg.Wait of setup.Init returns: every setup goroutine has ended.
SetupEnded ==
    /\ \A c \in Compares : pc[c] = "end"
    /\ pc' = [c \in Clients |-> IF c \in Compares THEN "idle" ELSE pc[c]]
    /\ box' = [c \in Clients |-> IF c \in Compares THEN NoBox ELSE box[c]]

\* The process starts and installs the configuration, before it serves.
Boot ==
    /\ phase = "down"
    /\ phase' = "setup"
    /\ StartSetup

\* Set-up over, NewIsolateService fills the pools and the consumers start.
Serve ==
    /\ phase = "setup"
    /\ SetupEnded
    /\ phase' = "serving"
    /\ boxIds' = [boxIds EXCEPT !["run"] = FullPool("run"), !["grade"] = FullPool("grade")]
    /\ UNCHANGED disk

\* A broadcast makes the worker install the configuration while it serves.
Refetch ==
    /\ Refetches
    /\ phase = "serving"
    /\ \A c \in Compares : pc[c] = "idle"
    /\ StartSetup
    /\ UNCHANGED phase

RefetchEnded ==
    /\ phase = "serving"
    /\ Compares # {}
    /\ SetupEnded
    /\ UNCHANGED <<phase, boxIds, initialised, files>>

\* A compare without a run name or files is skipped before it takes a box.
SkipUnconfigured(c) ==
    /\ c \in Compares
    /\ pc[c] = "start"
    /\ pc' = [pc EXCEPT ![c] = "end"]
    /\ UNCHANGED <<phase, boxIds, box, initialised, files>>

\* A message or a test case makes a goroutine call NewRunInstance or
\* NewGradeInstance; it waits while the channel is empty.
Ask(c) ==
    /\ c \in Handlers
    /\ phase = "serving"
    /\ pc[c] = "idle"
    /\ pc' = [pc EXCEPT ![c] = "start"]
    /\ UNCHANGED <<phase, boxIds, box, initialised, files>>

\* The receive returns the id at the head of the pool's channel.
NewInstance(c) ==
    /\ pc[c] = "start"
    /\ boxIds[PoolOf(c)] # <<>>
    /\ box' = [box EXCEPT ![c] = Head(boxIds[PoolOf(c)])]
    /\ boxIds' = [boxIds EXCEPT ![PoolOf(c)] = Tail(@)]
    /\ pc' = [pc EXCEPT ![c] = "leased"]
    /\ UNCHANGED <<phase, initialised, files>>

\* The process dies: channels and goroutines go, the box directories stay.
Die ==
    /\ phase' = "down"
    /\ boxIds' = [p \in Pools |-> <<>>]
    /\ pc' = [c \in Clients |-> "idle"]
    /\ box' = [c \in Clients |-> NoBox]
    /\ UNCHANGED disk

\* isolate --cleanup: the directory of the box and all files in it go.
RemoveBox(b) ==
    /\ initialised' = initialised \ {b}
    /\ files' = [files EXCEPT ![b] = {}]

\* Mutant: without --box-id isolate works on box 0.
InitCleanupDefaultBox(c) ==
    /\ pc[c] = "leased"
    /\ RemoveBox(0)
    /\ pc' = [pc EXCEPT ![c] = "cleaned"]
    /\ UNCHANGED <<phase, boxIds, box>>

\* The first command of Init; its error is ignored.
InitCleanup(c) ==
    /\ pc[c] = "leased"
    /\ RemoveBox(box[c]) \/ UNCHANGED disk
    /\ pc' = [pc EXCEPT ![c] = "cleaned"]
    /\ UNCHANGED <<phase, boxIds, box>>

\* The second, isolate --init, refuses a box that exists already.
InitBox(c) ==
    /\ pc[c] = "cleaned"
    /\ box[c] \notin initialised
    /\ initialised' = initialised \cup {box[c]}
    /\ pc' = [pc EXCEPT ![c] = "ready"]
    /\ UNCHANGED <<phase, boxIds, box, files>>

\* On an error of --init logFatalf ends the process.
InitFatal(c) == pc[c] = "cleaned" /\ Die

\* The goroutine writes a file in its box, itself or with a program it runs.
CreateFile(c) ==
    /\ pc[c] = "ready"
    /\ box[c] \in initialised
    /\ files' = [files EXCEPT ![box[c]] = @ \cup {c}]
    /\ UNCHANGED <<phase, boxIds, pc, box, initialised>>

\* Mutant: the instances of both pools keep the run channel.
CleanupToRunPool(c) ==
    /\ pc[c] = "ready"
    /\ RemoveBox(box[c])
    /\ boxIds' = [boxIds EXCEPT !["run"] = Append(@, box[c])]
    /\ box' = [box EXCEPT ![c] = NoBox]
    /\ pc' = [pc EXCEPT ![c] = IF c \in Compares THEN "end" ELSE "idle"]
    /\ UNCHANGED phase

\* Mutant: a handler that cleans up itself and again in its defer.
CleanupTwice(c) ==
    /\ pc[c] = "ready"
    /\ RemoveBox(box[c])
    /\ boxIds' = [boxIds EXCEPT ![PoolOf(c)] = @ \o <<box[c], box[c]>>]
    /\ box' = [box EXCEPT ![c] = NoBox]
    /\ pc' = [pc EXCEPT ![c] = IF c \in Compares THEN "end" ELSE "idle"]
    /\ UNCHANGED phase

\* Mutant: a handler that returns without its Cleanup.
CleanupForgotten(c) ==
    /\ pc[c] = "ready"
    /\ box' = [box EXCEPT ![c] = NoBox]
    /\ pc' = [pc EXCEPT ![c] = IF c \in Compares THEN "end" ELSE "idle"]
    /\ UNCHANGED <<phase, boxIds, initialised, files>>

\* isolate --cleanup, then the id is sent back to the channel it came from.
Cleanup(c) ==
    /\ pc[c] = "ready"
    /\ RemoveBox(box[c])
    /\ Len(boxIds[PoolOf(c)]) < PoolCap(PoolOf(c))
    /\ boxIds' = [boxIds EXCEPT ![PoolOf(c)] = Append(@, box[c])]
    /\ box' = [box EXCEPT ![c] = NoBox]
    /\ pc' = [pc EXCEPT ![c] = IF c \in Compares THEN "end" ELSE "idle"]
    /\ UNCHANGED phase

\* An error of that --cleanup ends the process too.
CleanupFatal(c) == pc[c] = "ready" /\ Die

\* A compare whose directory a previous process left is skipped, its box neither
\* cleaned nor given back.
SkipExisting(c) ==
    /\ c \in Compares
    /\ phase = "setup"
    /\ pc[c] = "ready"
    /\ pc' = [pc EXCEPT ![c] = "end"]
    /\ UNCHANGED <<phase, boxIds, box, initialised, files>>

\* The process is stopped, or ends on another fatal error.
Crash == phase # "down" /\ Die

Step(c) ==
    \/ Ask(c)
    \/ SkipUnconfigured(c)
    \/ NewInstance(c)
    \/ InitCleanup(c)
    \/ InitBox(c)
    \/ InitFatal(c)
    \/ CreateFile(c)
    \/ Cleanup(c)
    \/ CleanupFatal(c)
    \/ SkipExisting(c)

Next ==
    \/ Boot
    \/ Serve
    \/ Refetch
    \/ RefetchEnded
    \/ Crash
    \/ \E c \in Clients : Step(c)

Spec == Init /\ [][Next]_vars

\* What the Go runtime gives: a goroutine that can go on does, and one that waits
\* on a channel gets its turn (waiting receivers are served in order).  A program
\* that runs under limits ends, one that runs without them need not, so nothing
\* obliges an Unlimited goroutine to reach its Cleanup.
Fairness ==
    /\ WF_vars(Serve)
    /\ \A c \in Clients :
        /\ SF_vars(NewInstance(c))
        /\ WF_vars(InitCleanup(c))
        /\ WF_vars(InitBox(c) \/ InitFatal(c))
    /\ \A c \in Clients \ Unlimited : WF_vars(Cleanup(c) \/ CleanupFatal(c))

FairSpec == Spec /\ Fairness

--------------------------------------------------------------------------------

InChannel(ch, b) == \E i \in 1 .. Len(ch) : ch[i] = b
Distinct(ch) == \A i, j \in 1 .. Len(ch) : ch[i] = ch[j] => i = j

\* Every variable keeps to its type: a channel holds at most its capacity of the
\* ids of its pool, and a goroutine's instance has an id of the pool it draws from.
TypeOK ==
    /\ phase \in {"down", "setup", "serving"}
    /\ boxIds \in [Pools -> Seq(Boxes)]
    /\ \A p \in Pools : Len(boxIds[p]) <= PoolCap(p)
    /\ pc \in [Clients -> {"idle", "start", "leased", "cleaned", "ready", "end"}]
    /\ box \in [Clients -> Boxes \cup {NoBox}]
    /\ \A c \in Clients : box[c] # NoBox => box[c] \in PoolBoxes(PoolOf(c))
    /\ initialised \in SUBSET Boxes
    /\ files \in [Boxes -> SUBSET Clients]

\* No two goroutines have instances of the same box at the same time, whichever
\* queue they serve (the run and the grade pool must not overlap,
\* NewIsolateService) and however often boxes are given back and taken again.
BoxExclusive ==
    \A c, d \in Clients : c # d /\ box[c] # NoBox => box[c] # box[d]

\* While the worker serves, no box gets lost or is duplicated: each box of the
\* run and the grade pool is in its channel, once, or in one goroutine's hands,
\* on every path through Init, the handler and the deferred Cleanup.
BoxConservation ==
    phase = "serving" =>
        \A p \in {"run", "grade"} :
            /\ Distinct(boxIds[p])
            /\ \A b \in PoolBoxes(p) :
                InChannel(boxIds[p], b) <=> ~ \E c \in Handlers : PoolOf(c) = p /\ box[c] = b

\* The send at the end of Cleanup never blocks: while a goroutine has a box there
\* is room for it in the channel it came from.
SendNeverBlocks ==
    \A c \in Clients : box[c] # NoBox => Len(boxIds[PoolOf(c)]) < PoolCap(PoolOf(c))

\* A goroutine that passed Init works in a box that exists and holds no other
\* goroutine's files, those of a process that crashed included.
BoxIntegrity ==
    \A c \in Clients :
        pc[c] = "ready" => box[c] \in initialised /\ files[box[c]] \subseteq {c}

\* The leases of the handlers, as BoxLease has them.
Lease ==
    INSTANCE BoxLease WITH
        Allowed <- {l \in Boxes \X Handlers : l[1] \in PoolBoxes(PoolOf(l[2]))},
        lease <- {l \in Boxes \X Handlers : box[l[2]] = l[1]}

\* Channels, deferred clean-ups and crashes implement leases.
LeaseSpec == Lease!Spec

\* A goroutine that waits for a box gets one, unless the process dies.
BoxGranted == \A c \in Handlers : pc[c] = "start" ~> pc[c] # "start"
================================================================================
