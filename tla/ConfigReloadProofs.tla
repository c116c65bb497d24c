--------------------------- MODULE ConfigReloadProofs ---------------------------
(***************************************************************************)
(* Proofs about ConfigReload, for any runners, compares, versions, jobs    *)
(* and faults.                                                             *)
(*                                                                         *)
(* The argument follows the items that are not carried, of which the start *)
(* found nothing on disk: from the moment their directories are gone, what *)
(* is on disk follows from the configuration in memory and the place of    *)
(* their goroutine.                                                        *)
(***************************************************************************)
EXTENDS ConfigReload, TLAPS

(***************************************************************************)
(* Types.                                                                  *)
(***************************************************************************)

\* The types of what is written again and again.
LEMMA ConstantTypes ==
    /\ 0 \in Script /\ Versions \subseteq Script
    /\ Nothing \in [Items -> Script]
    /\ Gone \in [dir : BOOLEAN, aux : Script, run : Script]
    /\ NoList \in Lists
    /\ NoExecutor \in Executors
    /\ [j \in Jobs |-> NoJob] \in [Jobs -> JobStates]
    /\ Idle \in [Items -> {"idle", "mkdir", "aux", "run"}]
<1>1. 0 \in Script /\ Versions \subseteq Script
  BY ConfigAssumption DEF Script, Versions
<1>2. Nothing \in [Items -> Script]
  BY <1>1 DEF Nothing
<1>3. NoList \in Lists
  BY DEF Lists
<1>4. NoExecutor \in Executors
  BY <1>2, <1>3 DEF NoExecutor, Executors
<1>5. NoJob \in JobStates
  <2>1. <<>> \in Seq(Items \X {"aux", "run"})
    OBVIOUS
  <2> QED  BY <1>2, <2>1 DEF NoJob, JobStates, NoExecutor
<1> QED  BY <1>1, <1>2, <1>3, <1>4, <1>5 DEF Gone, Idle

\* The initial state has these types.
LEMMA InitTypes == Init => TypeOK
<1> SUFFICES ASSUME Init PROVE TypeOK
  OBVIOUS
<1>1. 1 \in Versions /\ 0 \in 0 .. MaxFaults
  BY ConfigAssumption DEF Versions
<1>2. disk \in [Items -> [dir : BOOLEAN, aux : Script, run : Script]]
  BY ConstantTypes DEF Init
<1>3. announced <= version
  BY DEF Init
<1> QED  BY <1>1, <1>2, <1>3, ConstantTypes DEF Init, TypeOK

\* The process ends.
LEMMA DieTypes ==
    ASSUME TypeOK, Die, faults' \in 0 .. MaxFaults
    PROVE  TypeOK'
BY ConstantTypes DEF Die, TypeOK, config, files, history

\* The executor of a job that is built reads files of its runner and its compare.
LEMMA BuildTypes ==
    ASSUME TypeOK, NEW j \in Jobs, NEW r \in Runners, NEW c \in Compares, Build(j, r, c)
    PROVE  TypeOK'
<1> DEFINE start == IF r \in current.builds THEN <<<<r, "aux">>>> ELSE <<>>
<1> DEFINE left == start \o <<<<r, "run">>, <<c, "run">>, <<c, "aux">>>>
<1>1. /\ <<r, "aux">> \in Items \X {"aux", "run"} /\ <<r, "run">> \in Items \X {"aux", "run"}
      /\ <<c, "run">> \in Items \X {"aux", "run"} /\ <<c, "aux">> \in Items \X {"aux", "run"}
  BY DEF Items
<1>2. start \in Seq(Items \X {"aux", "run"})
  BY <1>1
<1>3. <<<<r, "run">>, <<c, "run">>, <<c, "aux">>>> \in Seq(Items \X {"aux", "run"})
  BY <1>1
<1>4. left \in Seq(Items \X {"aux", "run"})
  BY <1>2, <1>3
<1>5. [built |-> current.of, old |-> carried \cap {r, c}, left |-> left, seen |-> [i \in Items |-> {}]] \in JobStates
  BY <1>4 DEF TypeOK, Executors, JobStates
<1>6. job' \in [Jobs -> JobStates]
  BY <1>5 DEF Build, TypeOK
<1> QED  BY <1>6 DEF Build, TypeOK, config, broker, files, setup, history

\* A job reads a file.
LEMMA ReadTypes ==
    ASSUME TypeOK, NEW j \in Jobs, Read(j)
    PROVE  TypeOK'
<1> DEFINE i == Head(job[j].left)[1]
<1> DEFINE got == IF Head(job[j].left)[2] = "aux" THEN disk[i].aux ELSE disk[i].run
<1>1. job[j] \in JobStates /\ job[j].left \in Seq(Items \X {"aux", "run"}) /\ job[j].left # <<>>
  BY DEF Read, TypeOK, JobStates
<1>2. Head(job[j].left) \in Items \X {"aux", "run"} /\ Tail(job[j].left) \in Seq(Items \X {"aux", "run"})
  BY <1>1
<1>3. i \in Items /\ got \in Script
  BY <1>2 DEF TypeOK
<1>4. job' = [job EXCEPT ![j].left = IF got = 0 THEN <<>> ELSE Tail(@), ![j].seen[i] = @ \cup {got}]
  BY DEF Read
<1>5. job'[j] \in JobStates
  <2>1. job'[j].left \in Seq(Items \X {"aux", "run"})
    BY <1>1, <1>2, <1>4 DEF TypeOK, JobStates
  <2> QED  BY <1>1, <1>3, <1>4, <2>1 DEF TypeOK, JobStates
<1>6. job' \in [Jobs -> JobStates]
  BY <1>4, <1>5 DEF TypeOK
<1> QED  BY <1>6 DEF Read, TypeOK, config, broker, files, setup, history

\* The set-up keeps the types.
LEMMA SetupTypes ==
    ASSUME TypeOK, Setup
    PROVE  TypeOK'
<1>1. CASE FetchRunners \/ FetchCompares
  <2>1. version \in Script
    BY ConstantTypes DEF TypeOK
  <2> QED  BY <1>1, <2>1 DEF FetchRunners, FetchCompares, Fetch, TypeOK, Starting, config, broker, files, jobs, history
<1>2. CASE FetchFails
  <2>1. announced \in Script
    BY ConstantTypes DEF TypeOK
  <2>2. faults' \in 0 .. MaxFaults
    BY <1>2, ConfigAssumption DEF FetchFails, Fault, TypeOK
  <2> QED  BY <1>2, <2>1, <2>2, ConstantTypes DEF FetchFails, TypeOK, config, files, jobs
<1>3. CASE RemoveList \/ \E i \in Items : RemoveItem(i)
  BY <1>3, ConstantTypes DEF RemoveList, RemoveItem, Remove, Running, TypeOK, config, broker, setup, history
<1>4. CASE Cleaned
  BY <1>4 DEF Cleaned, Running, TypeOK, config, broker, files
<1>5. CASE SetupDir
  BY <1>5 DEF SetupDir, TypeOK, config, broker, files, jobs, history
<1>6. ASSUME NEW i \in Items, SkipExisting(i) \/ Mkdir(i) \/ WriteAux(i) \/ WriteRun(i)
      PROVE  TypeOK'
  <2>1. /\ todo' \in [Items -> {"idle", "mkdir", "aux", "run"}]
        /\ UNCHANGED <<config, broker, phase, fetched, list, jobs, history, current, faults>>
    BY <1>6 DEF SkipExisting, Mkdir, WriteAux, WriteRun, Goroutine, TypeOK
  <2>2. disk' \in [Items -> [dir : BOOLEAN, aux : Script, run : Script]]
    <3>1. disk' \in {disk, [disk EXCEPT ![i].dir = TRUE], [disk EXCEPT ![i] = Gone],
                    [disk EXCEPT ![i].aux = fetched[i]], [disk EXCEPT ![i].run = fetched[i]]}
      BY <1>6 DEF SkipExisting, Mkdir, WriteAux, WriteRun
    <3>2. fetched[i] \in Script /\ disk[i] \in [dir : BOOLEAN, aux : Script, run : Script]
      BY DEF TypeOK
    <3>3. /\ [disk[i] EXCEPT !.dir = TRUE] \in [dir : BOOLEAN, aux : Script, run : Script]
          /\ [disk[i] EXCEPT !.aux = fetched[i]] \in [dir : BOOLEAN, aux : Script, run : Script]
          /\ [disk[i] EXCEPT !.run = fetched[i]] \in [dir : BOOLEAN, aux : Script, run : Script]
      BY <3>2
    <3> QED  BY <3>1, <3>3, ConstantTypes DEF TypeOK
  <2> QED  BY <2>1, <2>2 DEF TypeOK, config, broker, jobs, history
<1>7. ASSUME NEW i \in Items, BuildFatal(i)
      PROVE  TypeOK'
  BY <1>7, DieTypes DEF BuildFatal, TypeOK
<1>8. CASE WriteList
  <2>2. list' \in Lists /\ faults' \in 0 .. MaxFaults
    BY <1>8, ConstantTypes, ConfigAssumption DEF WriteList, Fault, Lists, TypeOK, Items
  <2> QED  BY <1>8, <2>2 DEF WriteList, TypeOK, config, broker, jobs, history
<1>9. CASE Load
  <2>1. NewExecutor \in Executors
    BY DEF NewExecutor, Executors, GetRunners, GetCompares, Items, TypeOK
  <2> QED  BY <1>9, <2>1, ConstantTypes DEF Load, TypeOK, config, broker, files, jobs, history
<1>10. CASE LoadFatal
  BY <1>10, DieTypes DEF LoadFatal, TypeOK
<1> QED  BY <1>1, <1>2, <1>3, <1>4, <1>5, <1>6, <1>7, <1>8, <1>9, <1>10 DEF Setup

\* Every step keeps the types.
LEMMA StepTypes ==
    ASSUME TypeOK, [Next]_vars
    PROVE  TypeOK'
<1>1. CASE Save
  BY <1>1, ConfigAssumption DEF Save, TypeOK, Versions, broker, files, setup, jobs, history
<1>2. CASE Broadcast
  <2>1. version \in Script /\ version <= version
    BY ConstantTypes DEF TypeOK, Versions
  <2> QED  BY <1>2, <2>1 DEF Broadcast, TypeOK, files, setup, jobs, history
<1>3. CASE Start
  <2>1. disk' \in [Items -> [dir : BOOLEAN, aux : Script, run : Script]] /\ list' \in Lists
    BY <1>3, ConstantTypes DEF Start, TypeOK, files
  <2>2. carried' \subseteq Items
    BY <1>3 DEF Start, Items
  <2> QED  BY <1>3, <2>1, <2>2 DEF Start, TypeOK, config, broker, jobs
<1>4. CASE Bind
  BY <1>4 DEF Bind, TypeOK, config, files, setup, jobs, history
<1>5. CASE Unbind
  <2>1. faults' \in 0 .. MaxFaults
    BY <1>5, ConfigAssumption DEF Unbind, Fault, TypeOK
  <2> QED  BY <1>5, <2>1, ConstantTypes DEF Unbind, TypeOK, config, files, setup, jobs
<1>6. CASE Receive
  BY <1>6, ConstantTypes DEF Receive, TypeOK, config, files, jobs, history
<1>7. CASE Setup
  BY <1>7, SetupTypes
<1>8. CASE Crash
  BY <1>8, ConfigAssumption, DieTypes DEF Crash, Fault, TypeOK
<1>9. ASSUME NEW j \in Jobs, Read(j)
      PROVE  TypeOK'
  BY <1>9, ReadTypes
<1>10. ASSUME NEW j \in Jobs, NEW r \in Runners, NEW c \in Compares, Build(j, r, c)
       PROVE  TypeOK'
  BY <1>10, BuildTypes
<1>11. CASE UNCHANGED vars
  BY <1>11 DEF TypeOK, vars, config, broker, files, setup, jobs, history
<1> QED  BY <1>1, <1>2, <1>3, <1>4, <1>5, <1>6, <1>7, <1>8, <1>9, <1>10, <1>11 DEF Next

\* Every variable keeps to its type.
THEOREM TypeCorrect == Spec => []TypeOK
<1>1. Init => TypeOK
  BY InitTypes
<1>2. TypeOK /\ [Next]_vars => TypeOK'
  BY StepTypes
<1> QED  BY <1>1, <1>2, PTL DEF Spec

(***************************************************************************)
(* What is on disk, and in the snapshot.                                   *)
(***************************************************************************)

Fetching == phase \in {"fetchRunners", "fetchCompares"}
Serving == (phase = "serve" \/ Fetching) /\ ~ Starting

\* The directory of an item whose goroutine is there.
Written(i) ==
    /\ todo[i] = "idle" => disk[i] = Expected(fetched, i)
    /\ todo[i] = "mkdir" => disk[i] = Gone /\ Wanted(i)
    /\ todo[i] = "aux" =>
        disk[i] = [dir |-> TRUE, aux |-> 0, run |-> 0] /\ KindIn(fetched, i) \notin {"none", "plain"}
    /\ todo[i] = "run" =>
        /\ KindIn(fetched, i) \in {"plain", "built", "program"}
        /\ disk[i] = [dir |-> TRUE, aux |-> Expected(fetched, i).aux, run |-> 0]

\* Nothing is outside of the directories, and what is not carried is as it should be.
Disks ==
    /\ \A i \in Items :
        /\ ~ disk[i].dir => disk[i] = Gone
        /\ phase = "setup" /\ todo[i] \in {"aux", "run"} => disk[i].dir
    /\ \A i \in Items \ carried :
        /\ phase = "setupDir" \/ (Fetching /\ Starting) => disk[i] = Gone
        /\ phase = "setup" => Written(i)
        /\ phase = "load" => disk[i] = Expected(fetched, i)
        /\ Serving => disk[i] = Expected(current.of, i)

\* There is an executor while the worker serves, none while it is down, and a process
\* that has reloaded carries nothing.
Phased ==
    /\ phase \in {"serve", "clean"} => ~ Starting
    /\ phase = "down" => Starting
    /\ Fetching /\ Starting => ~ reloaded
    /\ reloaded => carried = {}

RunNames(f) == [c \in Compares |-> IF Expected(f, c).dir THEN f[c] ELSE 0]

\* The list: empty or old for what is not carried, new once it is written.
Listed ==
    /\ \A c \in Compares \ carried :
        /\ phase \in {"setupDir", "setup"} \/ (Fetching /\ Starting) => list[c] \in {-1, 0}
        /\ phase = "load" => list[c] \in {-1, 0, RunNames(fetched)[c]}
    /\ reloaded =>
        /\ phase \in {"setupDir", "setup"} => list = NoList
        /\ phase = "load" => list \in {NoList, RunNames(fetched)}

\* The snapshot has no item that is not carried and not there, and all of them after a
\* reload.
Snapshot ==
    Serving =>
        /\ \A i \in current.items \ carried : Expected(current.of, i).dir
        /\ \A r \in Runners \ carried : r \in current.builds => Expected(current.of, r).aux # 0
        /\ reloaded =>
            /\ current.items = {i \in Items : Expected(current.of, i).dir}
            /\ current.runName = RunNames(current.of)
            /\ current.builds = {r \in Runners : Expected(current.of, r).aux # 0}

\* What a job that no refetch overlaps has still to read is there.
Readable ==
    \A j \in Jobs : job[j].left # <<>> =>
        /\ ~ Starting
        /\ j \notin disturbed =>
            /\ phase \in {"serve", "fetchRunners", "fetchCompares", "clean"}
            /\ \A k \in DOMAIN job[j].left :
                LET i == job[j].left[k][1]
                    got == IF job[j].left[k][2] = "aux" THEN disk[i].aux ELSE disk[i].run
                IN i \notin job[j].old => got = job[j].built[i] /\ got # 0

IInv == TypeOK /\ Phased /\ Disks /\ Listed /\ Snapshot /\ Readable /\ UndisturbedWhole

\* A new executor has a list, and so is not the executor of a worker that starts.
LEMMA NewIsThere == list # NoList => NewExecutor # NoExecutor
BY DEF NewExecutor, NoExecutor

\* What Init makes of an item that has no directory.
LEMMA ExpectedFacts ==
    ASSUME NEW f, NEW i
    PROVE  /\ ~ Expected(f, i).dir => Expected(f, i) = Gone
           /\ KindIn(f, i) \in {"none", "noProgram", "failing"} => Expected(f, i) = Gone
           /\ KindIn(f, i) = "plain" => Expected(f, i) = [dir |-> TRUE, aux |-> 0, run |-> f[i]]
           /\ KindIn(f, i) \in {"built", "program"} =>
                Expected(f, i) = [dir |-> TRUE, aux |-> f[i], run |-> f[i]]
BY DEF Expected, Gone

\* Every item has one of the kinds.
LEMMA KindTypes ==
    ASSUME NEW f \in [Items -> Script], NEW i \in Items
    PROVE  /\ KindIn(f, i) \in Kinds
           /\ f[i] = 0 => KindIn(f, i) = "none"
           /\ i \in Runners => KindIn(f, i) \in {"none", "plain", "built"}
           /\ i \in Compares => KindIn(f, i) \in {"none", "program", "noProgram", "failing"}
<1>1. CASE f[i] = 0
  BY <1>1 DEF KindIn, Kinds
<1>2. CASE f[i] # 0
  <2>1. f[i] \in Versions
    BY <1>2, ConfigAssumption DEF Script, Versions
  <2> QED  BY <1>2, <2>1, ConfigAssumption DEF KindIn
<1> QED  BY <1>1, <1>2

\* Phased is kept by every step.
LEMMA PhasedStep ==
    ASSUME TypeOK, Phased, [Next]_vars
    PROVE  Phased'
<1> USE DEF Phased, Starting, Fetching
<1>1. CASE Save \/ Broadcast \/ Bind
  BY <1>1 DEF Save, Broadcast, Bind, broker, files, setup, history
<1>2. CASE Start
  BY <1>2 DEF Start
<1>3. CASE Unbind \/ Receive
  BY <1>3 DEF Unbind, Receive, setup, history
<1>4. CASE Crash \/ LoadFatal \/ \E i \in Items : BuildFatal(i)
  BY <1>4 DEF Crash, LoadFatal, BuildFatal, Die, history
<1>5. CASE FetchRunners \/ FetchCompares
  BY <1>5 DEF FetchRunners, FetchCompares, Fetch, history
<1>6. CASE FetchFails
  BY <1>6 DEF FetchFails
<1>7. CASE RemoveList \/ \E i \in Items : RemoveItem(i)
  BY <1>7 DEF RemoveList, RemoveItem, Remove, setup, history
<1>8. CASE Cleaned \/ SetupDir
  BY <1>8 DEF Cleaned, SetupDir, history
<1>9. CASE \E i \in Items : SkipExisting(i) \/ Mkdir(i) \/ WriteAux(i) \/ WriteRun(i)
  BY <1>9 DEF SkipExisting, Mkdir, WriteAux, WriteRun, Goroutine, history
<1>10. CASE WriteList
  BY <1>10 DEF WriteList, history
<1>11. CASE Load
  BY <1>11, NewIsThere DEF Load, history
<1>12. CASE UNCHANGED <<setup, history, current>>
  BY <1>12 DEF setup, history
<1>14. ASSUME NEW j \in Jobs, Read(j) \/ \E r \in Runners, c \in Compares : Build(j, r, c)
       PROVE  UNCHANGED <<setup, history, current>>
  BY <1>14 DEF Read, Build
<1>13. CASE UNCHANGED vars
  BY <1>13 DEF vars, setup, history
<1> QED  BY <1>1, <1>2, <1>3, <1>4, <1>5, <1>6, <1>7, <1>8, <1>9, <1>10, <1>11, <1>12, <1>13, <1>14 DEF Next, Setup

\* Directories are records of three parts.
LEMMA Parts ==
    ASSUME NEW d \in [dir : BOOLEAN, aux : Script, run : Script], NEW v
    PROVE  /\ [d EXCEPT !.dir = v] = [dir |-> v, aux |-> d.aux, run |-> d.run]
           /\ [d EXCEPT !.aux = v] = [dir |-> d.dir, aux |-> v, run |-> d.run]
           /\ [d EXCEPT !.run = v] = [dir |-> d.dir, aux |-> d.aux, run |-> v]
OBVIOUS

\* One goroutine works on its directory, and leaves the others alone.
LEMMA GoroutineDisks ==
    ASSUME TypeOK, Phased, Disks, NEW i \in Items,
           SkipExisting(i) \/ Mkdir(i) \/ WriteAux(i) \/ WriteRun(i)
    PROVE  Disks'
<1>1. /\ phase = "setup" /\ UNCHANGED <<phase, fetched, current, carried>>
      /\ \A k \in Items \ {i} : disk'[k] = disk[k] /\ todo'[k] = todo[k]
  BY DEF SkipExisting, Mkdir, WriteAux, WriteRun, Goroutine, TypeOK, history
<1>2. fetched \in [Items -> Script] /\ disk \in [Items -> [dir : BOOLEAN, aux : Script, run : Script]] /\ todo \in [Items -> {"idle", "mkdir", "aux", "run"}]
  BY DEF TypeOK
<1>3. ~ disk'[i].dir => disk'[i] = Gone
  <2>1. disk'[i] \in {disk[i], [disk[i] EXCEPT !.dir = TRUE], Gone,
                    [disk[i] EXCEPT !.aux = fetched[i]], [disk[i] EXCEPT !.run = fetched[i]]}
    BY <1>2 DEF SkipExisting, Mkdir, WriteAux, WriteRun, Goroutine
  <2>2. disk[i] \in [dir : BOOLEAN, aux : Script, run : Script]
    BY <1>2
  <2>3. CASE disk'[i] \in {disk[i], Gone}
    BY <2>3 DEF Disks
  <2>4. CASE disk'[i] = [disk[i] EXCEPT !.dir = TRUE]
    BY <2>2, <2>4
  <2>5. CASE SkipExisting(i) \/ Mkdir(i)
    BY <2>3, <2>4, <1>2, <2>5 DEF SkipExisting, Mkdir
  <2>6. CASE WriteAux(i) \/ WriteRun(i)
    <3>1. disk[i].dir
      BY <2>6 DEF Disks, Gone, WriteAux, WriteRun, Goroutine
    <3> QED  BY <2>1, <2>2, <3>1, Parts
  <2> QED  BY <2>5, <2>6
<1>4. i \notin carried => Written(i)'
  <2> SUFFICES ASSUME i \notin carried, Written(i) PROVE Written(i)'
    BY <1>1 DEF Disks
  <2> DEFINE kind == KindIn(fetched, i)
  <2> DEFINE expected == Expected(fetched, i)
  <2>0. /\ kind \in Kinds
        /\ kind \in {"none", "noProgram", "failing"} => expected = Gone
        /\ kind = "plain" => expected = [dir |-> TRUE, aux |-> 0, run |-> fetched[i]]
        /\ kind \in {"built", "program"} => expected = [dir |-> TRUE, aux |-> fetched[i], run |-> fetched[i]]
    BY <1>2, KindTypes, ExpectedFacts
  <2>5. fetched' = fetched
    BY <1>1
  <2>1. CASE SkipExisting(i)
    BY <2>1 DEF SkipExisting, Goroutine, Written, Gone
  <2>2. CASE Mkdir(i)
    <3>1. /\ todo[i] = "mkdir" /\ todo'[i] = IF kind = "plain" THEN "run" ELSE "aux"
          /\ disk'[i] = [dir |-> TRUE, aux |-> disk[i].aux, run |-> disk[i].run]
      BY <1>2, <2>2, Parts DEF Mkdir, Goroutine
    <3>5. disk[i] = Gone /\ kind # "none"
      BY <3>1 DEF Written, Wanted
    <3>2. disk'[i] = [dir |-> TRUE, aux |-> 0, run |-> 0] /\ kind # "none"
      BY <3>1, <3>5 DEF Gone
    <3>3. CASE kind = "plain"
      <4>1. todo'[i] = "run" /\ KindIn(fetched', i) = kind /\ Expected(fetched', i) = expected /\ expected.aux = 0
        BY <2>0, <2>5, <3>1, <3>3
      <4> QED  BY <3>2, <3>3, <4>1 DEF Written
    <3>4. CASE kind # "plain"
      <4>1. todo'[i] = "aux" /\ KindIn(fetched', i) = kind
        BY <2>5, <3>1, <3>4
      <4> QED  BY <3>2, <3>4, <4>1 DEF Written
    <3> QED  BY <3>3, <3>4
  <2>3. CASE WriteAux(i)
    <3>1. /\ todo[i] = "aux" /\ kind # "failing" /\ todo'[i] = IF kind = "noProgram" THEN "idle" ELSE "run"
          /\ disk'[i] = IF kind = "noProgram" THEN Gone
                       ELSE [dir |-> disk[i].dir, aux |-> fetched[i], run |-> disk[i].run]
      BY <1>2, <2>3, Parts DEF WriteAux, Goroutine
    <3>2. disk[i] = [dir |-> TRUE, aux |-> 0, run |-> 0] /\ kind \notin {"none", "plain"}
      BY <3>1 DEF Written
    <3>3. CASE kind = "noProgram"
      BY <2>0, <2>5, <3>1, <3>3 DEF Written
    <3>4. CASE kind # "noProgram"
      <4>1. kind \in {"built", "program"}
        BY <2>0, <3>1, <3>2, <3>4 DEF Kinds
      <4>2. disk'[i] = [dir |-> TRUE, aux |-> fetched[i], run |-> 0] /\ todo'[i] = "run"
        BY <3>1, <3>2, <3>4
      <4>3. KindIn(fetched', i) = kind /\ Expected(fetched', i) = expected /\ expected.aux = fetched[i]
        BY <2>0, <2>5, <4>1
      <4> QED  BY <4>1, <4>2, <4>3 DEF Written
    <3> QED  BY <3>3, <3>4
  <2>4. CASE WriteRun(i)
    <3>1. /\ todo[i] = "run" /\ todo'[i] = "idle"
          /\ disk'[i] = [dir |-> disk[i].dir, aux |-> disk[i].aux, run |-> fetched[i]]
      BY <1>2, <2>4, Parts DEF WriteRun, Goroutine
    <3>2. disk[i] = [dir |-> TRUE, aux |-> expected.aux, run |-> 0] /\ kind \in {"plain", "built", "program"}
      BY <3>1 DEF Written
    <3>3. disk'[i] = [dir |-> TRUE, aux |-> expected.aux, run |-> fetched[i]]
      BY <3>1, <3>2
    <3>4. disk'[i] = expected
      BY <2>0, <3>2, <3>3
    <3> QED  BY <2>5, <3>1, <3>4 DEF Written
  <2> QED  BY <2>1, <2>2, <2>3, <2>4
<1>5. ASSUME NEW k \in Items \ carried, k # i
      PROVE  Written(k)'
  BY <1>1, <1>5 DEF Disks, Written, Wanted
<1>6. ASSUME NEW k \in Items, ~ disk'[k].dir
      PROVE  disk'[k] = Gone
  BY <1>1, <1>3, <1>6 DEF Disks
<1>7. ASSUME NEW k \in Items, todo'[k] \in {"aux", "run"}
      PROVE  disk'[k].dir
  <2>1. CASE k # i
    BY <1>1, <1>7, <2>1 DEF Disks
  <2>2. CASE SkipExisting(i)
    BY <1>1, <1>2, <1>7, <2>1, <2>2 DEF SkipExisting, Goroutine
  <2>3. CASE Mkdir(i) /\ k = i
    BY <1>2, <2>3 DEF Mkdir
  <2>4. CASE (WriteAux(i) \/ WriteRun(i)) /\ k = i
    <3>1. disk[i].dir
      BY <2>4 DEF Disks, WriteAux, WriteRun, Goroutine
    <3>2. disk'[i] \in {[disk[i] EXCEPT !.aux = fetched[i]], [disk[i] EXCEPT !.run = fetched[i]]}
      BY <1>2, <1>7, <2>4 DEF WriteAux, WriteRun, Goroutine
    <3> QED  BY <1>2, <2>4, <3>1, <3>2
  <2> QED  BY <2>1, <2>2, <2>3, <2>4
<1> QED  BY <1>1, <1>4, <1>5, <1>6, <1>7 DEF Disks, Serving, Fetching

\* Every step keeps Disks.
LEMMA DisksStep ==
    ASSUME TypeOK, Phased, Disks, [Next]_vars
    PROVE  Disks'
<1> DEFINE Same == UNCHANGED <<disk, carried, fetched, current>>
<1>1. CASE Same /\ UNCHANGED <<phase, todo>>
  BY <1>1 DEF Disks, Serving, Fetching, Starting, Written, Wanted
<1>2. CASE Save \/ Broadcast \/ Bind
  BY <1>1, <1>2 DEF Save, Broadcast, Bind, broker, files, setup, history
<1>3. CASE Start
  <2>1. current' = current /\ phase' = "fetchRunners" /\ Starting
    BY <1>3 DEF Start, Phased
  <2>2. ASSUME NEW i \in Items
        PROVE  ~ disk'[i].dir => disk'[i] = Gone
    BY <1>3 DEF Start, Disks, files, Gone
  <2>3. ASSUME NEW i \in Items \ carried'
        PROVE  disk'[i] = Gone
    BY <1>3, <2>2 DEF Start
  <2> QED  BY <2>1, <2>2, <2>3 DEF Disks, Serving, Fetching, Starting
<1>4. CASE Unbind
  BY <1>1, <1>4 DEF Unbind, files, setup
<1>5. CASE Receive
  BY <1>5 DEF Receive, Phased, Disks, Serving, Fetching, Starting, files, history
<1>6. CASE Die
  BY <1>6 DEF Die, Disks, Serving, Fetching, Starting, files
<1>7. CASE FetchRunners \/ FetchCompares
  <2>1. /\ UNCHANGED <<disk, carried, current>> /\ Fetching
        /\ phase' \in {"fetchCompares", "setupDir", "clean"} /\ (phase' = "setupDir" => Starting)
    BY <1>7 DEF FetchRunners, FetchCompares, Fetch, Fetching, files, history
  <2> QED  BY <2>1 DEF Disks, Serving, Fetching, Starting
<1>8. CASE FetchFails
  BY <1>8 DEF FetchFails, Disks, Serving, Fetching, Starting, files
<1>9. CASE RemoveList \/ \E i \in Items : RemoveItem(i)
  <2>1. PICK what \in SUBSET Items, clean \in BOOLEAN : Remove(what, clean)
    BY <1>9 DEF RemoveList, RemoveItem
  <2>2. phase' = "clean" /\ disk' = [i \in Items |-> IF i \in what THEN Gone ELSE disk[i]]
    BY <2>1 DEF Remove, setup
  <2> QED  BY <2>2 DEF Disks, Serving, Fetching
<1>10. CASE Cleaned
  BY <1>10 DEF Cleaned, Disks, Serving, Fetching, files
<1>11. CASE SetupDir
  <2>1. ASSUME NEW i \in Items \ carried
        PROVE  Written(i)'
    <3>1. /\ disk' = disk /\ fetched' = fetched /\ disk[i] = Gone
          /\ todo'[i] = IF Wanted(i) THEN "mkdir" ELSE "idle"
      BY <1>11 DEF SetupDir, Disks, files
    <3>2. CASE Wanted(i)
      BY <3>1, <3>2 DEF Written, Wanted
    <3>3. CASE ~ Wanted(i)
      <4>1. Expected(fetched, i) = Gone
        BY <3>3, ExpectedFacts DEF Wanted
      <4> QED  BY <3>1, <3>3, <4>1 DEF Written
    <3> QED  BY <3>2, <3>3
  <2>2. ASSUME NEW i \in Items
        PROVE  todo'[i] \notin {"aux", "run"}
    BY <1>11 DEF SetupDir
  <2> QED  BY <1>11, <2>1, <2>2 DEF SetupDir, Disks, Serving, Fetching, files, history
<1>12. ASSUME NEW i \in Items, SkipExisting(i) \/ Mkdir(i) \/ WriteAux(i) \/ WriteRun(i)
       PROVE  Disks'
  BY <1>12, GoroutineDisks
<1>13. CASE WriteList
  <2>1. ASSUME NEW i \in Items \ carried
        PROVE  disk[i] = Expected(fetched, i)
    BY <1>13 DEF WriteList, Disks, Written, Idle
  <2> QED  BY <1>13, <2>1 DEF WriteList, Disks, Serving, Fetching, history
<1>14. CASE Load
  <2>1. current'.of = fetched /\ carried' = carried /\ disk' = disk /\ phase' = "serve" /\ phase = "load"
    BY <1>14 DEF Load, NewExecutor, files, history
  <2> QED  BY <2>1 DEF Disks, Serving, Fetching
<1>15. ASSUME NEW j \in Jobs, Read(j) \/ \E r \in Runners, c \in Compares : Build(j, r, c)
       PROVE  Same /\ UNCHANGED <<phase, todo>>
  BY <1>15 DEF Read, Build, files, setup, history
<1>16. CASE UNCHANGED vars
  BY <1>1, <1>16 DEF vars, files, setup, history
<1>17. CASE Crash \/ LoadFatal \/ \E i \in Items : BuildFatal(i)
  BY <1>6, <1>17 DEF Crash, LoadFatal, BuildFatal
<1> QED
  BY <1>1, <1>2, <1>3, <1>4, <1>5, <1>7, <1>8, <1>9, <1>10, <1>11, <1>12, <1>13, <1>14, <1>15, <1>16, <1>17
     DEF Next, Setup

\* The names that Init lists are those of what it sets up.
LEMMA NamesFacts ==
    ASSUME NEW f \in [Items -> Script], NEW c \in Compares
    PROVE  /\ RunNames(f)[c] # 0 => Expected(f, c).dir
           /\ Expected(f, c).dir => KindIn(f, c) # "none" /\ f[c] # 0
<1>1. c \in Items
  BY DEF Items
<1>2. Expected(f, c).dir => KindIn(f, c) # "none"
  BY ExpectedFacts DEF Gone
<1> QED  BY <1>1, <1>2, KindTypes DEF RunNames

\* Every step keeps Listed.
LEMMA ListedStep ==
    ASSUME TypeOK, Phased, Disks, Listed, [Next]_vars
    PROVE  Listed'
<1> DEFINE Same == UNCHANGED <<list, carried, fetched, current, reloaded>>
<1>1. CASE Same /\ UNCHANGED phase
  BY <1>1 DEF Listed, Fetching, Starting
<1>2. CASE Save \/ Broadcast \/ Bind
  BY <1>1, <1>2 DEF Save, Broadcast, Bind, broker, files, setup, history
<1>3. CASE Start
  <2>1. list' \in Lists /\ phase' = "fetchRunners" /\ reloaded' = FALSE
    BY <1>3, ConstantTypes DEF Start, TypeOK, files
  <2>2. ASSUME NEW c \in Compares \ carried'
        PROVE  list'[c] \in {-1, 0}
    <3>1. ~ (list'[c] > 0) /\ c \in Items
      BY <1>3, <2>2 DEF Start, Items
    <3>2. list'[c] \in Script \cup {-1}
      BY <2>1 DEF Lists, NoList
    <3> QED  BY <3>1, <3>2, ConfigAssumption DEF Script
  <2> QED  BY <2>1, <2>2 DEF Listed, Fetching
<1>4. CASE Unbind
  BY <1>1, <1>4 DEF Unbind, files, setup
<1>5. CASE Receive
  BY <1>5 DEF Receive, Listed, Phased, Fetching, Starting, files, history
<1>6. CASE Die
  BY <1>6 DEF Die, Listed, Fetching
<1>7. CASE FetchRunners \/ FetchCompares
  <2>1. /\ UNCHANGED <<list, carried, current, reloaded>> /\ Fetching
        /\ phase' \in {"fetchCompares", "setupDir", "clean"} /\ (phase' = "setupDir" => Starting)
    BY <1>7 DEF FetchRunners, FetchCompares, Fetch, Fetching, files, history
  <2> QED  BY <2>1 DEF Listed, Phased, Fetching, Starting
<1>8. CASE FetchFails
  BY <1>8 DEF FetchFails, Listed, Fetching
<1>9. CASE RemoveList \/ \E i \in Items : RemoveItem(i)
  BY <1>9 DEF RemoveList, RemoveItem, Remove, setup, Listed, Fetching
<1>10. CASE Cleaned
  <2>1. phase' = "setupDir" /\ list' = NoList
    BY <1>10 DEF Cleaned, files
  <2> QED  BY <2>1 DEF Listed, Fetching, NoList
<1>11. CASE SetupDir
  BY <1>11 DEF SetupDir, Listed, Fetching, files, history
<1>12. CASE \E i \in Items : SkipExisting(i) \/ Mkdir(i) \/ WriteAux(i) \/ WriteRun(i)
  BY <1>1, <1>12 DEF SkipExisting, Mkdir, WriteAux, WriteRun, Goroutine, history
<1>13. CASE WriteList
  <2>1. /\ phase = "setup" /\ phase' = "load" /\ UNCHANGED <<carried, fetched, reloaded>>
        /\ list' = list \/ list' = [c \in Compares |-> IF Wanted(c) /\ disk[c].dir THEN fetched[c] ELSE 0]
    BY <1>13 DEF WriteList, history
  <2>2. CASE list' = list
    BY <2>1, <2>2 DEF Listed, Fetching
  <2>3. CASE list' = [c \in Compares |-> IF Wanted(c) /\ disk[c].dir THEN fetched[c] ELSE 0]
    <3>1. ASSUME NEW c \in Compares \ carried
          PROVE  list'[c] = RunNames(fetched)[c]
      <4>1. disk[c] = Expected(fetched, c)
        BY <1>13 DEF WriteList, Disks, Written, Idle, Items
      <4>2. Expected(fetched, c).dir => Wanted(c)
        BY NamesFacts DEF TypeOK, Wanted
      <4> QED  BY <2>3, <4>1, <4>2 DEF RunNames
    <3>2. reloaded => list' = RunNames(fetched)
      BY <2>3, <3>1 DEF Phased, RunNames
    <3> QED  BY <2>1, <3>1, <3>2 DEF Listed, Fetching
  <2> QED  BY <2>1, <2>2, <2>3
<1>14. CASE Load
  <2>1. phase' = "serve"
    BY <1>14 DEF Load
  <2> QED  BY <2>1 DEF Listed, Fetching
<1>15. ASSUME NEW j \in Jobs, Read(j) \/ \E r \in Runners, c \in Compares : Build(j, r, c)
       PROVE  Same /\ UNCHANGED phase
  BY <1>15 DEF Read, Build, files, setup, history
<1>16. CASE UNCHANGED vars
  BY <1>1, <1>16 DEF vars, files, setup, history
<1>17. CASE Crash \/ LoadFatal \/ \E i \in Items : BuildFatal(i)
  BY <1>6, <1>17 DEF Crash, LoadFatal, BuildFatal
<1> QED
  BY <1>1, <1>2, <1>3, <1>4, <1>5, <1>7, <1>8, <1>9, <1>10, <1>11, <1>12, <1>13, <1>14, <1>15, <1>16, <1>17
     DEF Next, Setup

\* Every step keeps Snapshot.
LEMMA SnapshotStep ==
    ASSUME TypeOK, Phased, Disks, Listed, Snapshot, [Next]_vars
    PROVE  Snapshot'
<1> DEFINE Same == UNCHANGED <<carried, current, reloaded>>
<1>1. CASE Same /\ (Serving' => Serving)
  BY <1>1 DEF Snapshot
<1>2. CASE Save \/ Broadcast \/ Bind
  BY <1>1, <1>2 DEF Save, Broadcast, Bind, broker, files, setup, history, Serving, Fetching, Starting
<1>3. CASE Start
  BY <1>3 DEF Start, Snapshot, Serving, Phased, Starting
<1>4. CASE Unbind \/ Receive
  BY <1>1, <1>4 DEF Unbind, Receive, files, setup, history, Serving, Fetching, Starting
<1>6. CASE Die
  BY <1>6 DEF Die, Snapshot, Serving, Starting
<1>7. CASE FetchRunners \/ FetchCompares \/ FetchFails
  BY <1>1, <1>7 DEF FetchRunners, FetchCompares, FetchFails, Fetch, history, Serving, Fetching, Starting
<1>9. CASE RemoveList \/ \E i \in Items : RemoveItem(i)
  BY <1>1, <1>9 DEF RemoveList, RemoveItem, Remove, setup, history, Serving, Fetching
<1>10. CASE Cleaned \/ SetupDir
  BY <1>10 DEF Cleaned, SetupDir, Snapshot, Serving, Fetching
<1>12. CASE \E i \in Items : SkipExisting(i) \/ Mkdir(i) \/ WriteAux(i) \/ WriteRun(i)
  BY <1>12 DEF SkipExisting, Mkdir, WriteAux, WriteRun, Goroutine, Snapshot, Serving, Fetching
<1>13. CASE WriteList
  BY <1>13 DEF WriteList, Snapshot, Serving, Fetching
<1>14. CASE Load
  <2>1. /\ current' = NewExecutor /\ UNCHANGED <<carried, reloaded>>
        /\ phase = "load" /\ list # NoList
    BY <1>14 DEF Load, history
  <2>2. ASSUME NEW i \in Items \ carried
        PROVE  disk[i] = Expected(fetched, i)
    BY <2>1 DEF Disks
  <2>3. list \in [Compares -> Script] /\ fetched \in [Items -> Script]
    BY <2>1 DEF TypeOK, Lists
  <2>4. ASSUME NEW c \in Compares \ carried, list[c] # 0
        PROVE  Expected(fetched, c).dir
    <3>1. list[c] # -1
      BY <2>3, ConfigAssumption DEF Script
    <3>2. list[c] = RunNames(fetched)[c]
      BY <2>1, <2>4, <3>1 DEF Listed
    <3> QED  BY <2>3, <2>4, <3>2, NamesFacts
  <2>5. current'.of = fetched /\ current'.runName = list
    BY <2>1 DEF NewExecutor
  <2>6. current'.items = {r \in Runners : disk[r].dir} \cup {c \in Compares : list[c] # 0}
    BY <2>1 DEF NewExecutor, GetRunners, GetCompares
  <2>7. current'.builds = {r \in Runners : disk[r].dir /\ disk[r].aux # 0}
    BY <2>1 DEF NewExecutor, GetRunners, IsNeedCompile
  <2>8. ASSUME NEW i \in current'.items \ carried
        PROVE  Expected(fetched, i).dir
    BY <2>2, <2>4, <2>6 DEF Items
  <2>9. ASSUME NEW r \in Runners \ carried, r \in current'.builds
        PROVE  Expected(fetched, r).aux # 0
    BY <2>2, <2>7, <2>9 DEF Items
  <2>10. ASSUME reloaded
         PROVE  /\ current'.items = {i \in Items : Expected(fetched, i).dir}
                /\ current'.runName = RunNames(fetched)
                /\ current'.builds = {r \in Runners : Expected(fetched, r).aux # 0}
    <3>1. carried = {} /\ list = RunNames(fetched)
      BY <2>1, <2>10 DEF Phased, Listed
    <3>2. ASSUME NEW c \in Compares, Expected(fetched, c).dir
          PROVE  list[c] # 0
      BY <2>3, <3>1, <3>2, NamesFacts DEF RunNames
    <3>3. ASSUME NEW i \in Items, Expected(fetched, i).dir
          PROVE  i \in current'.items
      BY <2>2, <2>6, <3>1, <3>2, <3>3 DEF Items
    <3>4. current'.items \subseteq Items
      BY <2>6 DEF Items
    <3>5. ASSUME NEW r \in Runners, Expected(fetched, r).aux # 0
          PROVE  r \in current'.builds
      <4>1. disk[r] = Expected(fetched, r)
        BY <2>2, <3>1 DEF Items
      <4>2. Expected(fetched, r) # Gone
        BY <3>5 DEF Gone
      <4> QED  BY <2>7, <3>5, <4>1, <4>2, ExpectedFacts
    <3>6. current'.builds \subseteq Runners
      BY <2>7
    <3> QED  BY <2>5, <2>8, <2>9, <3>1, <3>3, <3>4, <3>5, <3>6
  <2> QED  BY <2>1, <2>5, <2>8, <2>9, <2>10 DEF Snapshot
<1>15. ASSUME NEW j \in Jobs, Read(j) \/ \E r \in Runners, c \in Compares : Build(j, r, c)
       PROVE  Same /\ UNCHANGED phase
  BY <1>15 DEF Read, Build, setup, history
<1>18. CASE Same /\ UNCHANGED phase
  BY <1>1, <1>18 DEF Serving, Fetching, Starting
<1>16. CASE UNCHANGED vars
  BY <1>18, <1>16 DEF vars, setup, history
<1>17. CASE Crash \/ LoadFatal \/ \E i \in Items : BuildFatal(i)
  BY <1>6, <1>17 DEF Crash, LoadFatal, BuildFatal
<1> QED
  BY <1>2, <1>3, <1>4, <1>7, <1>9, <1>10, <1>12, <1>13, <1>14, <1>15, <1>16, <1>17, <1>18
     DEF Next, Setup

(***************************************************************************)
(* What jobs read.                                                         *)
(***************************************************************************)

File(k) == IF k[2] = "aux" THEN disk[k[1]].aux ELSE disk[k[1]].run

\* Phases in which an undisturbed job may read.
Reading == {"serve", "fetchRunners", "fetchCompares", "clean"}

\* The file k of disk d is the one of the configuration, unless its item is old.
Fine(d, k, of, old) ==
    k[1] \notin old =>
        LET got == IF k[2] = "aux" THEN d[k[1]].aux ELSE d[k[1]].run
        IN got = of[k[1]] /\ got # 0

Whole(d, h) == \A m \in DOMAIN h.left : Fine(d, h.left[m], h.built, h.old)

\* Readable, in these terms.
LEMMA ReadableWhole ==
    Readable <=> \A j \in Jobs : job[j].left # <<>> =>
                    /\ ~ Starting
                    /\ j \notin disturbed => phase \in Reading /\ Whole(disk, job[j])
BY DEF Readable, Whole, Fine, Reading

\* The same of the next state.
LEMMA ReadableWholeNext ==
    Readable' <=> \A j \in Jobs : job'[j].left # <<>> =>
                    /\ ~ Starting'
                    /\ j \notin disturbed' => phase' \in Reading /\ Whole(disk', job'[j])
BY DEF Readable, Whole, Fine, Reading

\* What is expected of an item with a directory.
LEMMA ExpectedScripts ==
    ASSUME NEW f \in [Items -> Script], NEW i \in Items, Expected(f, i).dir
    PROVE  /\ f[i] # 0 /\ Expected(f, i).run = f[i]
           /\ Expected(f, i).aux # 0 \/ i \in Compares => Expected(f, i).aux = f[i]
<1>1. KindIn(f, i) \in {"plain", "built", "program"}
  BY KindTypes, ExpectedFacts DEF Gone, Kinds
<1> QED  BY <1>1, KindTypes, ExpectedFacts

\* A step that changes no job, and no disk under an undisturbed one.
LEMMA JobsKept ==
    ASSUME Readable, UndisturbedWhole, job' = job, disturbed \subseteq disturbed',
           \/ current' = current
           \/ current' = NewExecutor /\ list # NoList,
           \A j \in Jobs : job[j].left # <<>> /\ j \notin disturbed' =>
                disk' = disk /\ phase' \in {"serve", "fetchRunners", "fetchCompares", "clean"}
    PROVE  Readable' /\ UndisturbedWhole'
<1>1. UndisturbedWhole'
  BY DEF UndisturbedWhole
<1>2. ASSUME NEW j \in Jobs, job'[j].left # <<>>
      PROVE  ~ Starting'
  BY <1>2, NewIsThere DEF Readable, Starting
<1>3. ASSUME NEW j \in Jobs, job'[j].left # <<>>, j \notin disturbed'
      PROVE  /\ disk' = disk /\ phase' \in {"serve", "fetchRunners", "fetchCompares", "clean"}
             /\ j \notin disturbed
  BY <1>3
<1> QED  BY <1>1, <1>2, <1>3 DEF Readable

\* Every step keeps Readable and what undisturbed jobs have read.
LEMMA JobsStep ==
    ASSUME TypeOK, Phased, Disks, Snapshot, Readable, UndisturbedWhole, [Next]_vars
    PROVE  Readable' /\ UndisturbedWhole'
<1> USE DEF Reading
<1>1. ASSUME NEW j \in Jobs, job[j].left # <<>>
      PROVE  ~ Starting /\ (j \in disturbed \/ phase \in Reading)
  BY <1>1 DEF Readable
<1>2. CASE UNCHANGED <<job, disturbed, disk, phase, current>>
  BY <1>1, <1>2, JobsKept
<1>3. CASE Start
  <2>1. job' = job /\ disturbed' = disturbed /\ current' = current
    BY <1>3 DEF Start, jobs
  <2>2. \A j \in Jobs : job[j].left = <<>>
    BY <1>1, <1>3 DEF Start, Phased
  <2> QED  BY <2>1, <2>2, JobsKept
<1>4. CASE Receive
  <2>1. UNCHANGED <<job, disturbed, disk, current>> /\ phase' \in Reading
    BY <1>4 DEF Receive, files, jobs
  <2> QED  BY <2>1, JobsKept
<1>5. CASE Die
  BY <1>5 DEF Die, Readable, UndisturbedWhole, NoJob
<1>6. CASE FetchRunners \/ FetchCompares \/ FetchFails
  <2>1. UNCHANGED <<job, disturbed, disk, current>> /\ (phase' \in Reading \/ Starting)
    BY <1>6 DEF FetchRunners, FetchCompares, FetchFails, Fetch, files, jobs
  <2> QED  BY <1>1, <2>1, JobsKept
<1>7. CASE RemoveList \/ (\E i \in Items : RemoveItem(i)) \/ Cleaned
  <2>1. job' = job /\ disturbed' = disturbed \cup Running /\ current' = current
    BY <1>7 DEF RemoveList, RemoveItem, Remove, Cleaned
  <2> QED  BY <2>1, JobsKept DEF Running
<1>8. CASE SetupDir \/ WriteList \/ Load \/ \E i \in Items : SkipExisting(i) \/ Mkdir(i) \/ WriteAux(i) \/ WriteRun(i)
  <2>1. job' = job /\ disturbed' = disturbed /\ phase \notin Reading
    BY <1>8 DEF SetupDir, WriteList, Load, SkipExisting, Mkdir, WriteAux, WriteRun, Goroutine, jobs
  <2>2. \/ current' = current
        \/ current' = NewExecutor /\ list # NoList
    BY <1>8 DEF SetupDir, WriteList, Load, SkipExisting, Mkdir, WriteAux, WriteRun, Goroutine
  <2> QED  BY <1>1, <2>1, <2>2, JobsKept
<1>9. ASSUME NEW j \in Jobs, Read(j)
      PROVE  Readable' /\ UndisturbedWhole'
  <2> DEFINE k == Head(job[j].left)
  <2> DEFINE i == k[1]
  <2>1. /\ job[j] \in JobStates /\ job[j].left \in Seq(Items \X {"aux", "run"}) /\ job[j].left # <<>>
        /\ UNCHANGED <<disk, phase, current, disturbed>>
    BY <1>9 DEF Read, TypeOK, JobStates, files, setup
  <2>2. k \in Items \X {"aux", "run"} /\ k = job[j].left[1] /\ 1 \in DOMAIN job[j].left
    BY <2>1
  <2>3. /\ job'[j].left = IF File(k) = 0 THEN <<>> ELSE Tail(job[j].left)
        /\ job'[j].seen = [job[j].seen EXCEPT ![i] = @ \cup {File(k)}]
        /\ job'[j].old = job[j].old /\ job'[j].built = job[j].built
        /\ \A h \in Jobs \ {j} : job'[h] = job[h]
    BY <1>9, <2>1 DEF Read, File, TypeOK, JobStates
  <2>4. j \notin disturbed /\ i \notin job[j].old => File(k) = job[j].built[i] /\ File(k) # 0
    BY <2>1, <2>2 DEF Readable, File
  <2>5. ASSUME NEW m \in DOMAIN job'[j].left
        PROVE  m + 1 \in DOMAIN job[j].left /\ job'[j].left[m] = job[j].left[m + 1]
    BY <2>1, <2>3
  <2>6. Readable'
    <3>1. ASSUME NEW h \in Jobs, job'[h].left # <<>>
          PROVE  job[h].left # <<>>
      BY <2>1, <2>3, <3>1
    <3>2. ~ Starting' <=> ~ Starting
      BY <2>1 DEF Starting
    <3>3. ASSUME NEW h \in Jobs, job'[h].left # <<>>, h \notin disturbed'
          PROVE  phase' \in Reading /\ Whole(disk', job'[h])
      <4>1. phase \in Reading /\ Whole(disk, job[h])
        BY <2>1, <3>1, <3>3, ReadableWhole
      <4>2. CASE h # j
        BY <2>1, <2>3, <4>1, <4>2
      <4>3. CASE h = j
        <5>1. \A m \in DOMAIN job[j].left : Fine(disk, job[j].left[m], job[j].built, job[j].old)
          BY <4>1, <4>3 DEF Whole
        <5>2. \A m \in DOMAIN job'[j].left : Fine(disk, job'[j].left[m], job[j].built, job[j].old)
          BY <2>5, <5>1
        <5> QED  BY <2>1, <2>3, <4>1, <4>3, <5>2 DEF Whole
      <4> QED  BY <4>2, <4>3
    <3>4. \A h \in Jobs : job'[h].left # <<>> =>
            /\ ~ Starting'
            /\ h \notin disturbed' => phase' \in Reading /\ Whole(disk', job'[h])
      BY <1>1, <2>1, <3>1, <3>2, <3>3, ReadableWhole
    <3> QED  BY <3>4, ReadableWholeNext
  <2>7. UndisturbedWhole'
    BY <2>1, <2>2, <2>3, <2>4 DEF UndisturbedWhole, JobStates
  <2> QED  BY <2>6, <2>7
<1>10. ASSUME NEW j \in Jobs, NEW r \in Runners, NEW c \in Compares, Build(j, r, c)
       PROVE  Readable' /\ UndisturbedWhole'
  <2> DEFINE start == IF r \in current.builds THEN <<<<r, "aux">>>> ELSE <<>>
  <2> DEFINE left == start \o <<<<r, "run">>, <<c, "run">>, <<c, "aux">>>>
  <2>1. /\ job'[j].left = left /\ job'[j].built = current.of /\ job'[j].old = carried \cap {r, c}
        /\ job'[j].seen = [i \in Items |-> {}]
        /\ \A h \in Jobs \ {j} : job'[h] = job[h]
    BY <1>10 DEF Build, TypeOK
  <2>2. ~ Starting /\ {r, c} \subseteq current.items /\ UNCHANGED <<disk, phase, current, carried>>
    BY <1>10 DEF Build, files, setup, history
  <2>3. \A h \in Jobs \ {j} : h \in disturbed' <=> h \in disturbed
    BY <1>10 DEF Build
  <2>4. j \notin disturbed' => Serving
    BY <1>10, <2>2 DEF Build, TypeOK, Phased, Serving, Fetching
  <2>5. ASSUME NEW m \in DOMAIN left
        PROVE  \/ left[m] = <<r, "aux">> /\ r \in current.builds
               \/ left[m] = <<r, "run">> \/ left[m] = <<c, "run">> \/ left[m] = <<c, "aux">>
    OBVIOUS
  <2>6. ASSUME j \notin disturbed', NEW i \in {r, c} \ carried
        PROVE  /\ disk[i] = Expected(current.of, i) /\ Expected(current.of, i).dir
               /\ i \in Runners /\ i \in current.builds => Expected(current.of, i).aux # 0
    BY <2>2, <2>4, <2>6 DEF Disks, Snapshot, Items
  <2>7. ASSUME j \notin disturbed', NEW m \in DOMAIN left, left[m][1] \notin carried
        PROVE  File(left[m]) = current.of[left[m][1]] /\ File(left[m]) # 0
    <3>1. current.of \in [Items -> Script] /\ r \in Items /\ c \in Items
      BY DEF TypeOK, Executors, Items
    <3>2. CASE left[m] = <<r, "aux">> /\ r \in current.builds
      BY <2>6, <2>7, <3>1, <3>2, ExpectedScripts DEF File
    <3>3. CASE left[m] = <<r, "run">>
      BY <2>6, <2>7, <3>1, <3>3, ExpectedScripts DEF File
    <3>4. CASE left[m] = <<c, "run">>
      BY <2>6, <2>7, <3>1, <3>4, ExpectedScripts DEF File
    <3>5. CASE left[m] = <<c, "aux">>
      BY <2>6, <2>7, <3>1, <3>5, ExpectedScripts DEF File
    <3> QED  BY <2>5, <3>2, <3>3, <3>4, <3>5
  <2>8. j \notin disturbed' =>
          /\ phase' \in Reading
          /\ \A m \in DOMAIN left : left[m][1] \notin carried \cap {r, c} =>
                File(left[m]) = current.of[left[m][1]] /\ File(left[m]) # 0
    <3>1. \A m \in DOMAIN left : left[m][1] \in {r, c}
      BY <2>5
    <3> QED  BY <2>2, <2>4, <2>7, <3>1 DEF Serving, Fetching
  <2>9. Readable'
    <3>1. ~ Starting' <=> ~ Starting
      BY <2>2 DEF Starting
    <3>2. ASSUME NEW h \in Jobs \ {j}, job'[h].left # <<>>, h \notin disturbed'
          PROVE  phase' \in Reading /\ Whole(disk', job'[h])
      BY <2>1, <2>2, <2>3, <3>2, ReadableWhole
    <3>3. ASSUME j \notin disturbed'
          PROVE  phase' \in Reading /\ Whole(disk', job'[j])
      <4>1. \A m \in DOMAIN left : Fine(disk, left[m], current.of, carried \cap {r, c})
        BY <2>8, <3>3 DEF Fine, File
      <4> HIDE DEF left
      <4> QED  BY <2>1, <2>2, <2>8, <3>3, <4>1 DEF Whole
    <3> QED  BY <2>2, <3>1, <3>2, <3>3, ReadableWholeNext
  <2>10. UndisturbedWhole'
    BY <2>1, <2>3 DEF UndisturbedWhole
  <2> QED  BY <2>9, <2>10
<1>11. CASE UNCHANGED vars
  BY <1>2, <1>11 DEF vars, files, setup, jobs
<1>12. CASE Crash \/ LoadFatal \/ \E i \in Items : BuildFatal(i)
  BY <1>5, <1>12 DEF Crash, LoadFatal, BuildFatal
<1>13. CASE Save \/ Broadcast \/ Bind \/ Unbind
  BY <1>2, <1>13 DEF Save, Broadcast, Bind, Unbind, broker, files, setup, jobs, history
<1> QED
  BY <1>3, <1>4, <1>6, <1>7, <1>8, <1>9, <1>10, <1>11, <1>12, <1>13 DEF Next, Setup

(***************************************************************************)
(* Theorems.                                                               *)
(***************************************************************************)

\* The inductive invariant holds of every behaviour.
LEMMA Invariant == Spec => []IInv
<1>1. Init => IInv
  <2> SUFFICES ASSUME Init PROVE IInv
    OBVIOUS
  <2>1. Phased /\ Listed /\ Snapshot
    BY DEF Init, Phased, Listed, Snapshot, Serving, Fetching, Starting
  <2>2. Disks
    BY DEF Init, Disks, Serving, Fetching, Gone
  <2>3. Readable /\ UndisturbedWhole
    BY DEF Init, Readable, UndisturbedWhole, NoJob
  <2> QED  BY <2>1, <2>2, <2>3, InitTypes DEF IInv
<1>2. IInv /\ [Next]_vars => IInv'
  BY StepTypes, PhasedStep, DisksStep, ListedStep, SnapshotStep, JobsStep DEF IInv
<1> QED  BY <1>1, <1>2, PTL DEF Spec

\* A job that no refetch overlaps reads whole scripts of the version that its executor
\* was built for, unless they were on disk at the start.
THEOREM JobsReadWhole == Spec => []UndisturbedWhole
<1>1. IInv => UndisturbedWhole
  BY DEF IInv
<1> QED  BY <1>1, Invariant, PTL

\* A worker that has reloaded its configuration has exactly what it fetched, on disk and
\* in its snapshot.
THEOREM ReloadsWhole == Spec => []ReloadWhole
<1>1. IInv => ReloadWhole
  <2> SUFFICES ASSUME IInv, reloaded, phase \in {"serve", "fetchRunners", "fetchCompares"}, ~ Starting
               PROVE  LET f == current.of IN
                      /\ \A i \in Items : disk[i] = Expected(f, i)
                      /\ current.items = {i \in Items : Expected(f, i).dir}
                      /\ current.runName = [c \in Compares |-> IF Expected(f, c).dir THEN f[c] ELSE 0]
                      /\ current.builds = {r \in Runners : Expected(f, r).aux # 0}
    BY DEF ReloadWhole
  <2>1. Serving /\ carried = {}
    BY DEF IInv, Phased, Serving, Fetching
  <2> QED  BY <2>1 DEF IInv, Disks, Snapshot, RunNames
<1> QED  BY <1>1, Invariant, PTL
(***************************************************************************)
(* Versions only go up: in memory is nothing newer than the config service *)
(* has, and from the fetch on nothing older than is served.                *)
(***************************************************************************)

Fresh ==
    /\ \A i \in Items : current.of[i] <= version /\ fetched[i] <= version
    /\ ~ Starting =>
        /\ phase = "fetchCompares" => \A r \in Runners : current.of[r] <= fetched[r]
        /\ phase \in {"clean", "setupDir", "setup", "load"} =>
            \A i \in Items : current.of[i] <= fetched[i]

\* While a process serves, the version of no item in its snapshot goes back.
NeverBack == [][Starting \/ Starting' \/ \A i \in Items : current.of[i] <= current'.of[i]]_vars

\* What a snapshot is of.
LEMMA SnapshotOf == NoExecutor.of = Nothing /\ NewExecutor.of = fetched
BY DEF NoExecutor, NewExecutor

\* Fresh is kept by every step.
LEMMA FreshStep ==
    ASSUME TypeOK, Fresh, [Next]_vars
    PROVE  Fresh'
<1> USE DEF Fresh, Starting
<1>1. /\ version \in Nat /\ current.of \in [Items -> Nat] /\ fetched \in [Items -> Nat]
      /\ \A i \in Items : Nothing[i] = 0
      /\ Runners \subseteq Items /\ Compares \subseteq Items /\ Items = Runners \cup Compares
  BY ConfigAssumption DEF TypeOK, Versions, Executors, Script, Nothing, Items
<1>2. CASE Save
  BY <1>1, <1>2 DEF Save, setup
<1>3. CASE UNCHANGED <<version, current, fetched>> /\ (phase' = phase \/ phase' \in {"serve", "fetchRunners"})
  BY <1>1, <1>3
<1>4. CASE Broadcast \/ Start \/ Bind \/ Unbind \/ Receive \/ UNCHANGED vars
  BY <1>3, <1>4 DEF Broadcast, Start, Bind, Unbind, Receive, config, setup, vars
<1>5. CASE \E j \in Jobs : Read(j) \/ \E r \in Runners, c \in Compares : Build(j, r, c)
  BY <1>3, <1>5 DEF Read, Build, config, setup
<1>6. CASE Die
  BY <1>1, <1>6, SnapshotOf DEF Die, config
<1>7. CASE FetchRunners
  BY <1>1, <1>7 DEF FetchRunners, Fetch, config
<1>8. CASE FetchCompares
  <2>1. /\ fetched' = [i \in Items |-> IF i \in Compares THEN version ELSE fetched[i]]
        /\ phase = "fetchCompares" /\ UNCHANGED <<version, current>>
        /\ phase' \in {"setupDir", "clean"}
    BY <1>8 DEF FetchCompares, Fetch, config
  <2> QED  BY <1>1, <2>1
<1>9. CASE FetchFails
  BY <1>1, <1>9 DEF FetchFails, config
<1>10. CASE Load
  BY <1>1, <1>10, SnapshotOf DEF Load, config
<1>11. CASE \/ RemoveList \/ Cleaned \/ SetupDir \/ WriteList
            \/ \E i \in Items : RemoveItem(i) \/ SkipExisting(i) \/ Mkdir(i) \/ WriteAux(i) \/ WriteRun(i)
  <2>1. /\ UNCHANGED <<version, current, fetched>>
        /\ phase \in {"clean", "setupDir", "setup"} /\ phase' \in {"clean", "setupDir", "setup", "load"}
    BY <1>11 DEF RemoveList, RemoveItem, Remove, Cleaned, SetupDir, WriteList, SkipExisting, Mkdir,
                 WriteAux, WriteRun, Goroutine, config, setup
  <2> QED  BY <1>1, <2>1
<1> QED
  BY <1>2, <1>4, <1>5, <1>6, <1>7, <1>8, <1>9, <1>10, <1>11
  DEF Next, Setup, Crash, BuildFatal, LoadFatal

\* Whatever is saved and announced while a refetch goes on, and whichever calls fail, a worker
\* never swaps its executor for one of an older configuration.
THEOREM ServesNoOlder == Spec => NeverBack
<1>1. Init => Fresh
  BY SnapshotOf DEF Init, Fresh, Nothing, Items
<1>2. TypeOK /\ Fresh /\ [Next]_vars => Fresh'
  BY FreshStep
<1>3. ASSUME TypeOK, Fresh, [Next]_vars
      PROVE  [Starting \/ Starting' \/ \A i \in Items : current.of[i] <= current'.of[i]]_vars
  <2> DEFINE Onward == Starting \/ Starting' \/ \A i \in Items : current.of[i] <= current'.of[i]
  <2>1. CASE Load
    <3>1. current'.of = fetched
      BY <2>1, SnapshotOf DEF Load
    <3>2. Starting \/ \A i \in Items : current.of[i] <= fetched[i]
      BY <1>3, <2>1 DEF Load, Fresh
    <3>3. Onward
      BY <3>1, <3>2
    <3> QED  BY <3>3
  <2>2. CASE Die
    BY <2>2 DEF Die, Starting
  <2>3. CASE current' = current
    <3>1. \A i \in Items : current.of[i] \in Nat
      BY <1>3, ConfigAssumption DEF TypeOK, Executors, Script
    <3>2. Onward
      BY <2>3, <3>1
    <3> QED  BY <3>2
  <2> QED
    BY <1>3, <2>1, <2>2, <2>3
    DEF Next, Setup, Crash, BuildFatal, LoadFatal, Save, Broadcast, Start, Bind, Unbind, Receive,
        Read, Build, FetchRunners, FetchCompares, Fetch, FetchFails, RemoveList, RemoveItem, Remove,
        Cleaned, SetupDir, WriteList, SkipExisting, Mkdir, WriteAux, WriteRun, Goroutine, vars
<1> QED  BY <1>1, <1>2, <1>3, TypeCorrect, PTL DEF Spec, NeverBack
================================================================================
