------------------------------ MODULE ConfigReload ------------------------------
(***************************************************************************)
(* The scripts of one worker: fetched from the config service when it      *)
(* starts and on the broadcast REFETCH_CONFIG (cmd/worker/worker.go),      *)
(* written to CONFIG_DIR (internal/setup/setup.go), listed in the snapshot *)
(* of an executor service (runner.go, compare.go, executorHolder.go), and  *)
(* read by the jobs that executors run (executor.go), while a refetch may  *)
(* remove them.                                                            *)
(*                                                                         *)
(* A script is the version of the configuration that it comes from, 0 if   *)
(* it is missing.  The sandboxes of the set-up are in SandboxPool.         *)
(***************************************************************************)
EXTENDS Integers, Sequences, FiniteSets

CONSTANTS
    Runners, Compares,
    MaxVersion,  \* bound of the versions of the configuration
    Kind,        \* what a version has for a runner or compare: see Kinds
    Jobs,        \* grade jobs of the worker, that run at the same time
    MaxFaults    \* bound of crashes, failing calls and failing writes

Items == Runners \cup Compares
Versions == 1 .. MaxVersion

\* Not (fully) configured; a runner without or with a build script; a compare whose
\* files hold, or whose build makes, its program RunName, or no such file; a compare
\* whose build script fails.
Kinds == {"none", "plain", "built", "program", "noProgram", "failing"}

ASSUME ConfigAssumption ==
    /\ IsFiniteSet(Items) /\ Runners \cap Compares = {}
    /\ Compares # {}  \* which tell a missing compare_list.json from an empty one
    /\ MaxVersion \in Nat \ {0} /\ MaxFaults \in Nat
    /\ Kind \in [Versions -> [Items -> Kinds]]
    /\ \A v \in Versions :
        /\ \A r \in Runners : Kind[v][r] \in {"none", "plain", "built"}
        /\ \A c \in Compares : Kind[v][c] \in {"none", "program", "noProgram", "failing"}

VARIABLES
    version,    \* of the config service
    announced,  \* the version last broadcast
    bound,      \* whether the worker's broadcast queue is bound to the exchange
    inbox,      \* the last version announced on it and not handled, or 0 (messages that
                \* queue up count as one)
    phase,      \* of the start or the refetch that goes on; "serve" or "down"
    fetched,    \* the configuration in memory: a version for each item, or 0
    todo,       \* the goroutine of each item in setupRunners and setupCompares
    disk,       \* per item: its directory, its aux file (a runner's build_script.sh,
                \* a compare's program) and its run_script.sh
    list,       \* compare_list.json: the version of each RunName in it, 0 if not there
    current,    \* the snapshot in executorHolder
    job,        \* per job: the configuration its executor was built for, the items
                \* carried then, the files it still reads, the versions it has read
    carried,    \* items of which the start found something on disk (history)
    disturbed,  \* jobs that ran during a refetch (history)
    reloaded,   \* whether this process has removed CONFIG_DIR (history)
    lost,       \* the version of the last broadcast whose handler failed (history)
    faults

config == <<version, announced>>
broker == <<bound, inbox>>
files == <<disk, list>>
setup == <<phase, fetched, todo>>
jobs == <<job, disturbed>>
history == <<carried, reloaded, lost>>
vars == <<config, broker, files, setup, jobs, history, current, faults>>

Nothing == [i \in Items |-> 0]
Gone == [dir |-> FALSE, aux |-> 0, run |-> 0]
NoList == [c \in Compares |-> -1]
NoExecutor == [of |-> Nothing, items |-> {}, runName |-> NoList, builds |-> {}]
Idle == [i \in Items |-> "idle"]
NoJob == [built |-> NoExecutor.of, old |-> {}, left |-> <<>>, seen |-> [i \in Items |-> {}]]

Fault == faults < MaxFaults /\ faults' = faults + 1

\* What configuration f has for an item.
KindIn(f, i) == IF f[i] = 0 THEN "none" ELSE Kind[f[i]][i]

Wanted(i) == KindIn(fetched, i) # "none"

Init ==
    /\ version = 1 /\ announced = 1
    /\ bound = FALSE /\ inbox = 0
    /\ phase = "down" /\ fetched = Nothing /\ todo = Idle
    /\ disk = [i \in Items |-> Gone] /\ list = NoList
    /\ current = NoExecutor
    /\ job = [j \in Jobs |-> NoJob] /\ disturbed = {}
    /\ carried = {} /\ reloaded = FALSE /\ lost = 0
    /\ faults = 0

--------------------------------------------------------------------------------
(* The config service and the master's Broadcast.                          *)

Save ==
    /\ version < MaxVersion
    /\ version' = version + 1
    /\ UNCHANGED <<announced, broker, files, setup, jobs, history, current, faults>>

\* The exchange hands the message to the queues that are bound to it now.
Broadcast ==
    /\ announced < version
    /\ announced' = version
    /\ inbox' = IF bound THEN version ELSE inbox
    /\ UNCHANGED <<version, bound, files, setup, jobs, history, current, faults>>

--------------------------------------------------------------------------------
(* The end of the process, and its start.                                  *)

Die ==
    /\ phase' = "down" /\ todo' = Idle /\ fetched' = Nothing
    /\ bound' = FALSE /\ inbox' = 0
    /\ current' = NoExecutor
    /\ job' = [j \in Jobs |-> NoJob] /\ disturbed' = {}
    /\ UNCHANGED <<config, files, history>>

\* A crash, a signal, or an error for which logger.Fatal ends the process.  A file
\* that was being written counts as missing.
Crash == phase # "down" /\ Fault /\ Die

\* The directory of a container that was replaced is empty.
Start ==
    /\ phase = "down"
    /\ phase' = "fetchRunners"
    /\ reloaded' = FALSE
    /\ \/ UNCHANGED files
       \/ disk' = [i \in Items |-> Gone] /\ list' = NoList
    /\ carried' = {i \in Items : disk'[i].dir} \cup {c \in Compares : list'[c] > 0}
    /\ UNCHANGED <<config, broker, fetched, todo, jobs, lost, current, faults>>

Starting == current = NoExecutor

--------------------------------------------------------------------------------
(* Fetching: at the start, and in the broadcast consumer.                  *)

\* CreateBoundQueue, once the executor is there and whenever the consumer has ended.
Bind ==
    /\ phase = "serve" /\ ~ bound
    /\ bound' = TRUE
    /\ UNCHANGED <<config, inbox, files, setup, jobs, history, current, faults>>

\* Mutant: the queue outlives its consumer.
UnbindKeeping ==
    /\ phase = "serve" /\ bound
    /\ Fault
    /\ bound' = FALSE
    /\ UNCHANGED <<config, inbox, files, setup, jobs, history, current>>

\* The consumer ends with its connection; the broker deletes its queue.
Unbind ==
    /\ phase = "serve" /\ bound
    /\ Fault
    /\ bound' = FALSE /\ inbox' = 0
    /\ lost' = IF inbox > lost THEN inbox ELSE lost
    /\ UNCHANGED <<config, files, setup, jobs, carried, reloaded, current>>

Receive ==
    /\ phase = "serve" /\ inbox # 0
    /\ inbox' = 0
    /\ phase' = "fetchRunners"
    /\ UNCHANGED <<config, bound, files, fetched, todo, jobs, history, current, faults>>

\* GetAllRunners, GetAllCompares: two calls, between which the configuration may
\* change.
Fetch(phases, items, next) ==
    /\ phase = phases
    /\ fetched' = [i \in Items |-> IF i \in items THEN version ELSE fetched[i]]
    /\ phase' = next
    /\ UNCHANGED <<config, broker, files, todo, jobs, history, current, faults>>

FetchRunners == Fetch("fetchRunners", Runners, "fetchCompares")
FetchCompares == Fetch("fetchCompares", Compares, IF Starting THEN "setupDir" ELSE "clean")

\* A refetch that fails is an error of the broadcast handler: the consumer ends and
\* its queue with the message, and the next Bind makes a new one.  (The start tries
\* five times before it ends the process: Crash.)
FetchFails ==
    /\ phase \in {"fetchRunners", "fetchCompares"} /\ ~ Starting
    /\ Fault
    /\ phase' = "serve" /\ fetched' = Nothing
    /\ bound' = FALSE /\ inbox' = 0
    /\ lost' = announced
    /\ UNCHANGED <<config, files, todo, jobs, carried, reloaded, current>>

--------------------------------------------------------------------------------
(* Cleanup and Init of the package setup.                                  *)

Running == {j \in Jobs : job[j].left # <<>>}

\* os.RemoveAll removes one thing after the other.
Remove(what, clean) ==
    /\ phase = "clean"
    /\ disk' = [i \in Items |-> IF i \in what THEN Gone ELSE disk[i]]
    /\ list' = IF clean THEN NoList ELSE list
    /\ disturbed' = disturbed \cup Running
    /\ UNCHANGED <<config, broker, setup, job, history, current, faults>>

RemoveItem(i) == disk[i].dir /\ Remove({i}, FALSE)
RemoveList == list # NoList /\ Remove({}, TRUE)

\* Mutant: the errors of RemoveAll are ignored.
CleanedUnchecked ==
    /\ phase = "clean"
    /\ phase' = "setupDir"
    /\ reloaded' = TRUE /\ carried' = {}
    /\ disturbed' = disturbed \cup Running
    /\ UNCHANGED <<config, broker, files, fetched, todo, job, lost, current, faults>>

Cleaned ==
    /\ phase = "clean"
    /\ list = NoList /\ \A i \in Items : ~ disk[i].dir
    /\ phase' = "setupDir"
    /\ reloaded' = TRUE /\ carried' = {}
    /\ disturbed' = disturbed \cup Running
    /\ UNCHANGED <<config, broker, files, fetched, todo, job, lost, current, faults>>

\* setupConfigDir; then setupRunners and setupCompares start a goroutine per item.
SetupDir ==
    /\ phase = "setupDir"
    /\ phase' = "setup"
    /\ todo' = [i \in Items |-> IF Wanted(i) THEN "mkdir" ELSE "idle"]
    /\ UNCHANGED <<config, broker, files, fetched, jobs, history, current, faults>>

Goroutine(i, at, next) ==
    /\ phase = "setup" /\ todo[i] = at
    /\ todo' = [todo EXCEPT ![i] = next]
    /\ UNCHANGED <<config, broker, phase, fetched, list, jobs, history, current, faults>>

\* A directory that exists is taken to be set up.
SkipExisting(i) ==
    /\ disk[i].dir
    /\ Goroutine(i, "mkdir", "idle")
    /\ UNCHANGED disk

Mkdir(i) ==
    /\ ~ disk[i].dir
    /\ Goroutine(i, "mkdir", IF KindIn(fetched, i) = "plain" THEN "run" ELSE "aux")
    /\ disk' = [disk EXCEPT ![i].dir = TRUE]

\* Mutant: a directory without the program is kept.
WriteAuxKeeping(i) ==
    /\ KindIn(fetched, i) # "failing"
    /\ Goroutine(i, "aux", IF KindIn(fetched, i) = "noProgram" THEN "idle" ELSE "run")
    /\ disk' = IF KindIn(fetched, i) = "noProgram" THEN disk ELSE [disk EXCEPT ![i].aux = fetched[i]]

\* build_script.sh of a runner; the program of a compare, which is built and moved
\* here or is among the files.  Without it the directory is removed.
WriteAux(i) ==
    /\ KindIn(fetched, i) # "failing"
    /\ IF KindIn(fetched, i) = "noProgram"
       THEN Goroutine(i, "aux", "idle") /\ disk' = [disk EXCEPT ![i] = Gone]
       ELSE Goroutine(i, "aux", "run") /\ disk' = [disk EXCEPT ![i].aux = fetched[i]]

\* A build script that fails ends the process, and leaves the directory.
BuildFatal(i) ==
    /\ phase = "setup" /\ todo[i] = "aux"
    /\ KindIn(fetched, i) = "failing"
    /\ Die
    /\ UNCHANGED faults

WriteRun(i) ==
    /\ Goroutine(i, "run", "idle")
    /\ disk' = [disk EXCEPT ![i].run = fetched[i]]

\* Mutant: Init does not wait for its goroutines.
WriteListEarly ==
    /\ phase = "setup"
    /\ phase' = "load"
    /\ \/ /\ list' = [c \in Compares |-> IF Wanted(c) /\ disk[c].dir THEN fetched[c] ELSE 0]
          /\ UNCHANGED faults
       \/ Fault /\ UNCHANGED list
    /\ UNCHANGED <<config, broker, disk, fetched, todo, jobs, history, current>>

\* writeToComparesJson; its error is dropped.
WriteList ==
    /\ phase = "setup" /\ todo = Idle
    /\ phase' = "load"
    /\ \/ /\ list' = [c \in Compares |-> IF Wanted(c) /\ disk[c].dir THEN fetched[c] ELSE 0]
          /\ UNCHANGED faults
       \/ Fault /\ UNCHANGED list
    /\ UNCHANGED <<config, broker, disk, fetched, todo, jobs, history, current>>

\* getRunners lists the directories, isNeedCompile looks for build scripts.
GetRunners == {r \in Runners : disk[r].dir}
IsNeedCompile(r) == disk[r].aux # 0

\* getCompares reads compare_list.json.
GetCompares == {c \in Compares : list[c] # 0}

NewExecutor ==
    [of |-> fetched, items |-> GetRunners \cup GetCompares, runName |-> list,
     builds |-> {r \in GetRunners : IsNeedCompile(r)}]

\* Mutant: the new executor is not swapped in.
LoadOnce ==
    /\ phase = "load" /\ list # NoList
    /\ current' = IF Starting THEN NewExecutor ELSE current
    /\ phase' = "serve" /\ fetched' = Nothing
    /\ UNCHANGED <<config, broker, files, todo, jobs, history, faults>>

\* NewRunnerService and NewCompareService; Swap or NewExecutorHolder publishes both.
Load ==
    /\ phase = "load" /\ list # NoList
    /\ current' = NewExecutor
    /\ phase' = "serve" /\ fetched' = Nothing
    /\ UNCHANGED <<config, broker, files, todo, jobs, history, faults>>

\* Without the list the process ends.
LoadFatal == phase = "load" /\ list = NoList /\ Die /\ UNCHANGED faults

--------------------------------------------------------------------------------
(* Jobs: Build of an executor, and the files that its test case reads.     *)

\* Build finds the runner and the compare, or there is no job.
Build(j, r, c) ==
    /\ ~ Starting /\ job[j].left = <<>>
    /\ {r, c} \subseteq current.items
    /\ job' = [job EXCEPT ![j] =
                 [built |-> current.of, old |-> carried \cap {r, c},
                  left |-> (IF r \in current.builds THEN <<<<r, "aux">>>> ELSE <<>>)
                             \o <<<<r, "run">>, <<c, "run">>, <<c, "aux">>>>,
                  seen |-> [i \in Items |-> {}]]]
    /\ disturbed' = IF phase \in {"setupDir", "setup", "load", "clean"} THEN disturbed \cup {j} ELSE disturbed \ {j}
    /\ UNCHANGED <<config, broker, files, setup, history, current, faults>>

\* CompileUsing, RunFromDir, os.ReadFile of run_script.sh, RunWithDir.
Read(j) ==
    /\ job[j].left # <<>>
    /\ LET i == Head(job[j].left)[1]
           file == Head(job[j].left)[2]
           got == IF file = "aux" THEN disk[i].aux ELSE disk[i].run
       IN job' = [job EXCEPT ![j].left = IF got = 0 THEN <<>> ELSE Tail(@),
                             ![j].seen[i] = @ \cup {got}]
    /\ UNCHANGED <<config, broker, files, setup, disturbed, history, current, faults>>

--------------------------------------------------------------------------------

Setup ==
    \/ FetchRunners \/ FetchCompares \/ FetchFails
    \/ RemoveList \/ Cleaned \/ SetupDir
    \/ \E i \in Items :
        RemoveItem(i) \/ SkipExisting(i) \/ Mkdir(i) \/ WriteAux(i) \/ BuildFatal(i) \/ WriteRun(i)
    \/ WriteList \/ Load \/ LoadFatal

Next ==
    \/ Save
    \/ Broadcast
    \/ Start
    \/ Bind
    \/ Unbind
    \/ Receive
    \/ Setup
    \/ Crash
    \/ \E j \in Jobs : Read(j) \/ \E r \in Runners, c \in Compares : Build(j, r, c)

Spec == Init /\ [][Next]_vars

\* A worker that is down is started, its consumer reconnects and takes what is on its
\* queue, and its set-up goes on.
FairSpec ==
    Spec /\ WF_vars(Start) /\ WF_vars(Bind) /\ WF_vars(Receive) /\ WF_vars(Setup)

--------------------------------------------------------------------------------

Script == 0 .. MaxVersion
Lists == [Compares -> Script] \cup {NoList}
Executors == [of : [Items -> Script], items : SUBSET Items, runName : Lists, builds : SUBSET Runners]

JobStates == [built : [Items -> Script], old : SUBSET Items, left : Seq(Items \X {"aux", "run"}),
              seen : [Items -> SUBSET Script]]

\* Every variable keeps to its type.
TypeOK ==
    /\ version \in Versions /\ announced \in Versions /\ announced <= version
    /\ bound \in BOOLEAN /\ inbox \in Script /\ (inbox # 0 => bound)
    /\ phase \in {"down", "fetchRunners", "fetchCompares", "clean", "setupDir", "setup", "load", "serve"}
    /\ fetched \in [Items -> Script]
    /\ todo \in [Items -> {"idle", "mkdir", "aux", "run"}]
    /\ disk \in [Items -> [dir : BOOLEAN, aux : Script, run : Script]]
    /\ list \in Lists
    /\ current \in Executors
    /\ job \in [Jobs -> JobStates]
    /\ disturbed \subseteq Jobs /\ carried \subseteq Items
    /\ reloaded \in BOOLEAN /\ lost \in Script
    /\ faults \in 0 .. MaxFaults

\* What Init makes of an item.
Expected(f, i) ==
    CASE KindIn(f, i) = "plain" -> [dir |-> TRUE, aux |-> 0, run |-> f[i]]
      [] KindIn(f, i) \in {"built", "program"} -> [dir |-> TRUE, aux |-> f[i], run |-> f[i]]
      [] OTHER -> Gone

\* A worker that has reloaded its configuration has exactly what it fetched, on disk
\* and in its snapshot, whatever half-written or old directories there were before,
\* until the next Cleanup.
ReloadWhole ==
    reloaded /\ phase \in {"serve", "fetchRunners", "fetchCompares"} /\ ~ Starting =>
        LET f == current.of IN
        /\ \A i \in Items : disk[i] = Expected(f, i)
        /\ current.items = {i \in Items : Expected(f, i).dir}
        /\ current.runName = [c \in Compares |-> IF Expected(f, c).dir THEN f[c] ELSE 0]
        /\ current.builds = {r \in Runners : Expected(f, r).aux # 0}

\* A job that no refetch overlaps reads every script of its runner and its compare, of
\* the version its executor was built for, unless the start found them on disk.
UndisturbedWhole ==
    \A j \in Jobs \ disturbed : \A i \in Items \ job[j].old :
        job[j].seen[i] \subseteq {job[j].built[i]} \ {0}

\* A broadcast that reaches the queue of the worker has it serve that version or a
\* later one, by this process or the next, unless the refetch or its connection fails
\* or the configuration holds a compare whose build fails.
RefetchServed ==
    \A v \in Versions :
        inbox = v ~> \/ ~ Starting /\ \A i \in Items : current.of[i] >= v
                     \/ lost >= v
                     \/ \E c \in Compares : Kind[version][c] = "failing"
================================================================================
