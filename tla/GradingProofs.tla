------------------------------ MODULE GradingProofs ------------------------------
(***************************************************************************)
(* Proofs about Grading, for any submissions, groups, cases and solutions, *)
(* any sizes of the pool and any number of faults.                         *)
(*                                                                         *)
(* The goroutines of one submission are Coherent whatever step is taken:   *)
(* most steps leave them alone, and the others are listed in Kinds.  What  *)
(* is replied follows from that at the moment it is published.             *)
(***************************************************************************)
EXTENDS Grading, FiniteSetTheorems, TLAPS

(***************************************************************************)
(* Types.                                                                  *)
(***************************************************************************)

Types ==
    /\ worker \in {"up", "stopping", "down"}
    /\ msg \in [Submissions -> {"queued", "delivered", "acked"}]
    /\ handler \in [Submissions -> {"none", "received", "grading", "replied"}]
    /\ grp \in [Submissions -> [Groups -> {"pending", "running", "done", "failed"}]]
    /\ tc \in [Submissions -> [Cases -> CaseStates]]
    /\ credited \in [Submissions -> SUBSET Groups]
    /\ status \in [Submissions -> {"RUN_PASSED", "RUN_FAILED"}]
    /\ replies \in [Submissions -> Seq(Reply)]
    /\ dropped \subseteq Submissions
    /\ faults \in 0 .. MaxFaults

\* What is appended to the replies of a submission.
LEMMA RepliesTypes ==
    ASSUME Types, NEW s \in Submissions, NEW r \in Reply,
           replies' = [replies EXCEPT ![s] = Append(@, r)]
    PROVE  replies' \in [Submissions -> Seq(Reply)]
<1>1. replies[s] \in Seq(Reply)
  BY DEF Types
<1>2. Append(replies[s], r) \in Seq(Reply)
  BY <1>1
<1> QED  BY <1>2 DEF Types

\* The answers are replies.
LEMMA AnswerTypes ==
    ASSUME Types, NEW s \in Submissions
    PROVE  NoReply \in Reply /\ GraderError \in Reply /\ Verdict(s) \in Reply
BY DEF Types, NoReply, GraderError, Verdict, Reply

\* Publishing keeps the types of what it changes.
LEMMA PublishTypes ==
    ASSUME Types, NEW s \in Submissions, NEW r \in Reply, PublishAnswer(s, r)
    PROVE  /\ replies' \in [Submissions -> Seq(Reply)]
           /\ dropped' \subseteq Submissions
           /\ faults' \in 0 .. MaxFaults
<1>1. CASE replies' = [replies EXCEPT ![s] = Append(@, r)] /\ UNCHANGED <<dropped, faults>>
  BY <1>1, RepliesTypes DEF Types
<1>2. CASE PublishFails /\ dropped' = dropped \cup {s} /\ UNCHANGED replies
  BY <1>2, GradingAssumption DEF Types, PublishFails, Fault
<1> QED  BY <1>1, <1>2 DEF PublishAnswer

\* Types are kept by the steps of a handler.
LEMMA HandleTypes ==
    ASSUME Types, NEW s \in Submissions, Handle(s)
    PROVE  Types'
<1> USE GradingAssumption DEF grading
<1>1. CASE TaskNotFound(s)
  BY <1>1 DEF TaskNotFound, Types
<1>2. CASE TaskUnavailable(s)
  BY <1>2 DEF TaskUnavailable, Types, Fault
<1>3. CASE BuildFailed(s)
  BY <1>3, AnswerTypes, PublishTypes DEF BuildFailed, Types
<1>4. CASE StartGrade(s)
  <2>1. replies' \in [Submissions -> Seq(Reply)] /\ faults' \in 0 .. MaxFaults
    <3>1. CASE replies' = [replies EXCEPT ![s] = Append(@, NoReply)] /\ UNCHANGED faults
      BY <3>1, AnswerTypes, RepliesTypes DEF Types
    <3>2. CASE PublishFails /\ UNCHANGED replies
      BY <3>2 DEF Types, PublishFails, Fault
    <3> QED  BY <1>4, <3>1, <3>2 DEF StartGrade
  <2> QED  BY <1>4, <2>1 DEF StartGrade, Types
<1>5. CASE NoCompare(s)
  BY <1>5, AnswerTypes, PublishTypes DEF NoCompare, Types
<1>6. CASE EndGrade(s)
  BY <1>6, AnswerTypes, PublishTypes DEF EndGrade, Types
<1>7. CASE Ack(s)
  <2>1. NoGroups \in [Groups -> {"pending", "running", "done", "failed"}]
        /\ NoCases \in [Cases -> CaseStates]
    BY DEF NoGroups, NoCases, CaseStates
  <2> QED  BY <1>7, <2>1 DEF Ack, Types
<1> QED  BY <1>1, <1>2, <1>3, <1>4, <1>5, <1>6, <1>7 DEF Handle

\* Types are kept by a move of a case.
LEMMA MoveTypes ==
    ASSUME Types, NEW s \in Submissions, NEW t \in Cases, NEW to \in CaseStates,
           Move(s, t, to), Fault \/ UNCHANGED faults
    PROVE  Types'
BY GradingAssumption DEF Types, Move, Fault

\* Types are kept when the process ends.
LEMMA DieTypes ==
    ASSUME Types, Die, Fault \/ UNCHANGED faults
    PROVE  Types'
<1>1. NoGroups \in [Groups -> {"pending", "running", "done", "failed"}]
      /\ NoCases \in [Cases -> CaseStates]
  BY DEF NoGroups, NoCases, CaseStates
<1> QED  BY <1>1, GradingAssumption DEF Types, Die, Fault

\* Types are kept by the steps of a case.
LEMMA CaseTypes ==
    ASSUME Types, NEW s \in Submissions, NEW t \in Cases, Case(s, t)
    PROVE  Types'
<1> USE MoveTypes
<1>0. {"waitRun", "run", "waitCompare", "compare", "passed", "failed", "error"} \subseteq CaseStates
  BY DEF CaseStates
<1>1. CASE StartCase(s, t)
  BY <1>0, <1>1, GradingAssumption DEF StartCase, Types
<1>2. CASE BeginRun(s, t)
  BY <1>0, <1>2 DEF BeginRun
<1>3. CASE EndRun(s, t)
  BY <1>0, <1>3 DEF EndRun
<1>4. CASE BeginCompare(s, t)
  BY <1>0, <1>4 DEF BeginCompare
<1>5. CASE EndCompare(s, t)
  BY <1>0, <1>5 DEF EndCompare
<1>6. CASE InitFatal(s, t)
  BY <1>6, DieTypes DEF InitFatal
<1> QED  BY <1>1, <1>2, <1>3, <1>4, <1>5, <1>6 DEF Case

\* Types are kept by every step.
LEMMA TypesStep ==
    ASSUME Types, [Next]_vars
    PROVE  Types'
<1> USE GradingAssumption DEF grading
<1>1. ASSUME NEW s \in Submissions, Deliver(s)
      PROVE  Types'
  BY <1>1 DEF Deliver, Types
<1>2. ASSUME NEW s \in Submissions, NEW g \in Groups, Group(s, g)
      PROVE  Types'
  <2>1. CASE StartGroup(s, g)
    BY <2>1 DEF StartGroup, Types
  <2>2. CASE EndGroup(s, g)
    <3>1. PICK v \in {"failed", "done"} : grp' = [grp EXCEPT ![s][g] = v]
      BY <2>2 DEF EndGroup
    <3>2. grp' \in [Submissions -> [Groups -> {"pending", "running", "done", "failed"}]]
      BY <3>1 DEF Types
    <3>3. \/ credited' = credited
          \/ credited' = [credited EXCEPT ![s] = @ \cup {g}]
      BY <2>2 DEF EndGroup
    <3>4. status' = status \/ status' = [status EXCEPT ![s] = "RUN_FAILED"]
      BY <2>2 DEF EndGroup
    <3>5. credited' \in [Submissions -> SUBSET Groups]
      <4>1. credited[s] \cup {g} \in SUBSET Groups
        BY DEF Types
      <4> QED  BY <3>3, <4>1 DEF Types
    <3>6. status' \in [Submissions -> {"RUN_PASSED", "RUN_FAILED"}]
      BY <3>4 DEF Types
    <3>7. UNCHANGED <<worker, msg, handler, tc, replies, dropped, faults>>
      BY <2>2 DEF EndGroup
    <3> QED  BY <3>2, <3>5, <3>6, <3>7 DEF Types
  <2> QED  BY <1>2, <2>1, <2>2 DEF Group
<1>3. CASE Shutdown \/ Restart
  BY <1>3 DEF Shutdown, Restart, Types
<1>4. CASE Exit \/ Crash
  <2>1. Die /\ (Fault \/ UNCHANGED faults)
    BY <1>4 DEF Exit, Crash, Fault
  <2> QED  BY <2>1, DieTypes
<1>5. ASSUME NEW s \in Submissions, Handle(s) \/ \E t \in Cases : Case(s, t)
      PROVE  Types'
  BY <1>5, HandleTypes, CaseTypes
<1>6. CASE UNCHANGED vars
  BY <1>6 DEF vars, Types
<1> QED  BY <1>1, <1>2, <1>3, <1>4, <1>5, <1>6 DEF Next

(***************************************************************************)
(* The goroutines of a submission.                                         *)
(***************************************************************************)

\* The cases of a group follow its state; score is the groups that are done and passed;
\* the status says whether there are others; and a case that passed is solved.
Coherent(s) ==
    /\ \A g \in Groups : \A t \in CasesOf(g) :
        /\ grp[s][g] = "pending" => tc[s][t] = "pending"
        /\ grp[s][g] \in {"done", "failed"} => tc[s][t] \in Ended
        /\ g \in credited[s] => tc[s][t] = "passed"
    /\ \A g \in Groups :
        /\ grp[s][g] = "failed" => \E t \in CasesOf(g) : tc[s][t] = "error"
        /\ g \in credited[s] => grp[s][g] = "done"
        /\ grp[s][g] = "done" /\ g \notin credited[s] =>
                status[s] = "RUN_FAILED" /\ \E t \in CasesOf(g) : tc[s][t] = "failed"
    /\ status[s] = "RUN_FAILED" =>
        \E g \in Groups : grp[s][g] = "done" /\ \E t \in CasesOf(g) : tc[s][t] = "failed"
    /\ \A t \in Cases : tc[s][t] = "passed" => t \in Solves[s]

\* Case t of a running group goes on, or ends.
Moved(s, t) ==
    /\ grp[s][GroupOf[t]] = "running" /\ tc[s][t] \notin Ended
    /\ \E to \in CaseStates \ {"pending"} :
        /\ tc' = [tc EXCEPT ![s][t] = to]
        /\ to = "passed" => t \in Solves[s]
    /\ UNCHANGED <<grp, credited, status>>

\* The goroutines of s are gone, and with them what they added up.
Reset(s) ==
    /\ grp'[s] = NoGroups /\ tc'[s] = NoCases
    /\ credited'[s] = {} /\ status'[s] = "RUN_PASSED"

Same(s) ==
    grp'[s] = grp[s] /\ tc'[s] = tc[s] /\ credited'[s] = credited[s] /\ status'[s] = status[s]

\* A case that is neither pending nor ended is of a group that runs.
LEMMA ActiveRuns ==
    ASSUME Types, NEW s \in Submissions, Coherent(s), NEW t \in Cases, tc[s][t] \in Active
    PROVE  grp[s][GroupOf[t]] = "running" /\ tc[s][t] \notin Ended
<1>1. GroupOf[t] \in Groups /\ t \in CasesOf(GroupOf[t])
  BY GradingAssumption DEF CasesOf
<1>2. grp[s][GroupOf[t]] \in {"pending", "running", "done", "failed"}
  BY <1>1 DEF Types
<1>3. tc[s][t] \notin Ended /\ tc[s][t] # "pending"
  BY DEF Active
<1> QED  BY <1>1, <1>2, <1>3 DEF Coherent

\* The steps of a case, without the end of the process, are moves.
LEMMA CaseMoves ==
    ASSUME Types, NEW s \in Submissions, Coherent(s), NEW t \in Cases, Case(s, t),
           ~ InitFatal(s, t)
    PROVE  Moved(s, t)
<1>1. CASE StartCase(s, t)
  <2>1. "waitRun" \in CaseStates \ {"pending"}
    BY DEF CaseStates
  <2>2. grp[s][GroupOf[t]] = "running" /\ tc[s][t] \notin Ended
    BY <1>1 DEF StartCase, Ended
  <2>3. tc' = [tc EXCEPT ![s][t] = "waitRun"] /\ UNCHANGED <<grp, credited, status>>
    BY <1>1 DEF StartCase
  <2> QED  BY <2>1, <2>2, <2>3 DEF Moved
<1>2. ASSUME tc[s][t] \in {"waitRun", "run", "waitCompare", "compare"},
             NEW to \in CaseStates \ {"pending"}, Move(s, t, to), to = "passed" => t \in Solves[s]
      PROVE  Moved(s, t)
  <2>1. tc[s][t] \in Active
    BY <1>2 DEF Active, CaseStates, Ended
  <2> QED  BY <1>2, <2>1, ActiveRuns DEF Moved, Move
<1>3. {"waitRun", "run", "waitCompare", "compare", "passed", "failed", "error"}
        \subseteq CaseStates \ {"pending"}
  BY DEF CaseStates
<1>4. CASE BeginRun(s, t)
  BY <1>2, <1>3, <1>4 DEF BeginRun
<1>5. CASE EndRun(s, t)
  <2>1. PICK to \in {"waitCompare", "failed", "error"} : Move(s, t, to)
    BY <1>5 DEF EndRun
  <2> QED  BY <1>2, <1>3, <1>5, <2>1 DEF EndRun
<1>6. CASE BeginCompare(s, t)
  BY <1>2, <1>3, <1>6 DEF BeginCompare
<1>7. CASE EndCompare(s, t)
  <2>1. PICK to \in {"passed", "failed", "error"} : Move(s, t, to) /\ (to = "passed" => t \in Solves[s])
    BY <1>7 DEF EndCompare
  <2> QED  BY <1>2, <1>3, <1>7, <2>1 DEF EndCompare
<1> QED  BY <1>1, <1>4, <1>5, <1>6, <1>7 DEF Case

\* What a step does to the goroutines: nothing, a move of a case, the start or the end
\* of a group, or it ends those of one submission or of all.
Kinds ==
    \/ UNCHANGED grading
    \/ \E s \in Submissions, t \in Cases : Moved(s, t)
    \/ \E s \in Submissions, g \in Groups : StartGroup(s, g) \/ EndGroup(s, g)
    \/ \E s \in Submissions : Ack(s)
    \/ Die

\* Every step of the specification is of one of these kinds.
LEMMA StepKinds ==
    ASSUME Types, \A s \in Submissions : Coherent(s), [Next]_vars
    PROVE  Kinds
<1>1. ASSUME NEW s \in Submissions, Handle(s)
      PROVE  Kinds
  BY <1>1 DEF Handle, TaskNotFound, TaskUnavailable, BuildFailed, StartGrade, NoCompare, EndGrade, Kinds
<1>2. ASSUME NEW s \in Submissions, NEW t \in Cases, Case(s, t)
      PROVE  Kinds
  BY <1>2, CaseMoves DEF InitFatal, Kinds
<1>3. ASSUME NEW s \in Submissions, Deliver(s)
      PROVE  Kinds
  BY <1>3 DEF Deliver, Kinds
<1>4. ASSUME NEW s \in Submissions, NEW g \in Groups, Group(s, g)
      PROVE  Kinds
  BY <1>4 DEF Group, Kinds
<1>5. CASE Shutdown \/ Restart
  BY <1>5 DEF Shutdown, Restart, Kinds
<1>6. CASE Exit \/ Crash
  BY <1>6 DEF Exit, Crash, Kinds
<1>7. CASE UNCHANGED vars
  BY <1>7 DEF vars, grading, Kinds
<1> QED  BY <1>1, <1>2, <1>3, <1>4, <1>5, <1>6, <1>7 DEF Next

\* Coherent is about the goroutines alone.
LEMMA SameCoherent ==
    ASSUME NEW s \in Submissions, Coherent(s), Same(s)
    PROVE  Coherent(s)'
BY DEF Coherent, Same

\* A submission whose goroutines are gone is coherent.
LEMMA ResetCoherent ==
    ASSUME NEW s \in Submissions, Reset(s)
    PROVE  Coherent(s)'
BY DEF Coherent, Reset, NoGroups, NoCases, CasesOf

\* A case that goes on keeps its submission coherent: its group is running.
LEMMA MoveCoherent ==
    ASSUME Types, NEW s \in Submissions, Coherent(s), NEW t \in Cases, Moved(s, t)
    PROVE  Coherent(s)'
<1>1. PICK to \in CaseStates \ {"pending"} :
        tc' = [tc EXCEPT ![s][t] = to] /\ (to = "passed" => t \in Solves[s])
  BY DEF Moved
<1>2. grp'[s] = grp[s] /\ credited'[s] = credited[s] /\ status'[s] = status[s]
      /\ grp[s][GroupOf[t]] = "running" /\ tc[s][t] \notin Ended
  BY DEF Moved
<1>3. tc'[s][t] = to /\ \A u \in Cases \ {t} : tc'[s][u] = tc[s][u]
  BY <1>1 DEF Types
<1>4. GroupOf[t] \in Groups /\ \A g \in Groups : t \in CasesOf(g) => g = GroupOf[t]
  BY GradingAssumption DEF CasesOf
<1>5. \A g \in Groups : CasesOf(g) \subseteq Cases
  BY DEF CasesOf
<1>6. \A g \in Groups : grp[s][g] # "running" =>
        \A u \in CasesOf(g) : u \in Cases \ {t}
  BY <1>2, <1>4, <1>5
<1>7. GroupOf[t] \notin credited[s]
  BY <1>2, <1>4 DEF Coherent
<1>8. \A g \in Groups : \A u \in CasesOf(g) : g \in credited[s] => u # t
  BY <1>4, <1>7
<1> QED  BY <1>1, <1>2, <1>3, <1>5, <1>6, <1>8 DEF Coherent

\* So does a group that starts, with all of its cases waiting,
LEMMA StartGroupCoherent ==
    ASSUME Types, NEW s \in Submissions, Coherent(s), NEW g \in Groups, StartGroup(s, g)
    PROVE  Coherent(s)'
<1>1. /\ grp'[s][g] = "running" /\ grp[s][g] = "pending"
      /\ \A h \in Groups \ {g} : grp'[s][h] = grp[s][h]
      /\ tc' = tc /\ credited' = credited /\ status' = status
  BY DEF StartGroup, Types
<1>2. g \notin credited[s]
  BY <1>1 DEF Coherent
<1> QED  BY <1>1, <1>2 DEF Coherent

\* and one that ends, which adds its score if all of its cases passed.
LEMMA EndGroupCoherent ==
    ASSUME Types, NEW s \in Submissions, Coherent(s), NEW g \in Groups, EndGroup(s, g)
    PROVE  Coherent(s)'
<1>0. grp[s][g] = "running" /\ tc' = tc /\ \A t \in CasesOf(g) : tc[s][t] \in Ended
  BY DEF EndGroup
<1>1. g \notin credited[s]
  BY <1>0 DEF Coherent
<1>2. ASSUME NEW v, grp' = [grp EXCEPT ![s][g] = v]
      PROVE  grp'[s][g] = v /\ \A h \in Groups \ {g} : grp'[s][h] = grp[s][h]
  BY <1>2 DEF Types
<1>3. CASE /\ \E t \in CasesOf(g) : tc[s][t] = "error"
           /\ grp' = [grp EXCEPT ![s][g] = "failed"]
           /\ UNCHANGED <<credited, status>>
  <2>1. grp'[s][g] = "failed" /\ \A h \in Groups \ {g} : grp'[s][h] = grp[s][h]
    BY <1>2, <1>3
  <2> QED  BY <1>0, <1>1, <1>3, <2>1 DEF Coherent
<1>4. CASE /\ \A t \in CasesOf(g) : tc[s][t] = "passed"
           /\ grp' = [grp EXCEPT ![s][g] = "done"]
           /\ credited' = [credited EXCEPT ![s] = @ \cup {g}]
           /\ UNCHANGED status
  <2>1. grp'[s][g] = "done" /\ \A h \in Groups \ {g} : grp'[s][h] = grp[s][h]
    BY <1>2, <1>4
  <2>2. credited'[s] = credited[s] \cup {g}
    BY <1>4 DEF Types
  <2> QED  BY <1>0, <1>1, <1>4, <2>1, <2>2 DEF Coherent
<1>5. CASE /\ \E t \in CasesOf(g) : tc[s][t] = "failed"
           /\ grp' = [grp EXCEPT ![s][g] = "done"]
           /\ status' = [status EXCEPT ![s] = "RUN_FAILED"]
           /\ UNCHANGED credited
  <2>1. grp'[s][g] = "done" /\ \A h \in Groups \ {g} : grp'[s][h] = grp[s][h]
    BY <1>2, <1>5
  <2>2. status'[s] = "RUN_FAILED"
    BY <1>5 DEF Types
  <2> QED  BY <1>0, <1>1, <1>5, <2>1, <2>2 DEF Coherent
<1> QED  BY <1>3, <1>4, <1>5 DEF EndGroup

\* A submission that a step is not about keeps its goroutines.
LEMMA OthersSame ==
    ASSUME Types, NEW s \in Submissions, NEW x \in Submissions, x # s,
           \/ \E t \in Cases : Moved(s, t)
           \/ \E g \in Groups : StartGroup(s, g) \/ EndGroup(s, g)
           \/ Ack(s)
    PROVE  Same(x)
<1>1. ASSUME NEW t \in Cases, Moved(s, t)
      PROVE  Same(x)
  BY <1>1 DEF Moved, Same, Types
<1>2. ASSUME NEW g \in Groups, StartGroup(s, g)
      PROVE  Same(x)
  BY <1>2 DEF StartGroup, Same, Types
<1>3. ASSUME NEW g \in Groups, EndGroup(s, g)
      PROVE  Same(x)
  <2>1. PICK v \in {"failed", "done"} : grp' = [grp EXCEPT ![s][g] = v]
    BY <1>3 DEF EndGroup
  <2>2. credited'[x] = credited[x] /\ status'[x] = status[x] /\ tc' = tc
    BY <1>3 DEF EndGroup, Types
  <2> QED  BY <2>1, <2>2 DEF Same, Types
<1>4. CASE Ack(s)
  BY <1>4 DEF Ack, Same, Types
<1> QED  BY <1>1, <1>2, <1>3, <1>4

\* Ack resets its submission, and the end of the process all of them.
LEMMA Resets ==
    ASSUME Types, NEW s \in Submissions, Ack(s) \/ Die
    PROVE  Reset(s)
BY DEF Types, Ack, Die, Reset

\* The goroutines stay coherent.
LEMMA CoherentStep ==
    ASSUME Types, \A s \in Submissions : Coherent(s), [Next]_vars
    PROVE  \A s \in Submissions : Coherent(s)'
<1> SUFFICES ASSUME NEW x \in Submissions
             PROVE  Coherent(x)'
  OBVIOUS
<1>1. CASE UNCHANGED grading
  BY <1>1, SameCoherent DEF grading, Same
<1>2. ASSUME NEW s \in Submissions, NEW t \in Cases, Moved(s, t)
      PROVE  Coherent(x)'
  BY <1>2, MoveCoherent, OthersSame, SameCoherent
<1>3. ASSUME NEW s \in Submissions, NEW g \in Groups, StartGroup(s, g) \/ EndGroup(s, g)
      PROVE  Coherent(x)'
  BY <1>3, StartGroupCoherent, EndGroupCoherent, OthersSame, SameCoherent
<1>4. ASSUME NEW s \in Submissions, Ack(s)
      PROVE  Coherent(x)'
  BY <1>4, Resets, ResetCoherent, OthersSame, SameCoherent
<1>5. CASE Die
  BY <1>5, Resets, ResetCoherent
<1> QED  BY <1>1, <1>2, <1>3, <1>4, <1>5, StepKinds DEF Kinds

(***************************************************************************)
(* The handler and its goroutines.                                         *)
(***************************************************************************)

\* A handler has a delivered message, no goroutines before it grades, and none that
\* goes on when it has replied.
Phased(s) ==
    /\ msg[s] = "delivered" <=> handler[s] # "none"
    /\ handler[s] \in {"none", "received"} =>
        /\ grp[s] = NoGroups /\ tc[s] = NoCases
        /\ credited[s] = {} /\ status[s] = "RUN_PASSED"
    /\ handler[s] = "replied" => \A g \in Groups : grp[s][g] # "running"

\* A group that runs is of a handler that grades.
LEMMA RunsInGrading ==
    ASSUME Types, NEW s \in Submissions, Phased(s), NEW g \in Groups, grp[s][g] = "running"
    PROVE  handler[s] = "grading"
BY DEF Types, Phased, NoGroups

\* Each of the handler's own steps keeps Phased for its submission.
LEMMA HandlePhased ==
    ASSUME Types, NEW s \in Submissions, Phased(s), Deliver(s) \/ Handle(s)
    PROVE  Phased(s)'
<1> USE DEF grading
<1>1. CASE Deliver(s)
  BY <1>1 DEF Deliver, Phased, Types
<1>2. CASE TaskNotFound(s) \/ TaskUnavailable(s) \/ BuildFailed(s) \/ StartGrade(s)
  BY <1>2 DEF TaskNotFound, TaskUnavailable, BuildFailed, StartGrade, Phased, Types, NoGroups
<1>3. CASE NoCompare(s)
  BY <1>3 DEF NoCompare, Phased, Types, NoGroups
<1>4. CASE EndGrade(s)
  BY <1>4 DEF EndGrade, Phased, Types
<1>5. CASE Ack(s)
  BY <1>5 DEF Ack, Phased, Types
<1> QED  BY <1>1, <1>2, <1>3, <1>4, <1>5 DEF Handle

\* It is about one submission.
LEMMA SamePhased ==
    ASSUME NEW s \in Submissions, Phased(s), Same(s), msg'[s] = msg[s], handler'[s] = handler[s]
    PROVE  Phased(s)'
BY DEF Phased, Same

\* A step of a handler is not about other submissions.
LEMMA HandleOthers ==
    ASSUME Types, NEW s \in Submissions, NEW x \in Submissions, x # s, Deliver(s) \/ Handle(s)
    PROVE  Same(x) /\ msg'[x] = msg[x] /\ handler'[x] = handler[x] /\ replies'[x] = replies[x]
           /\ (x \in dropped' <=> x \in dropped)
<1> USE DEF grading, Same
<1>1. CASE Deliver(s)
  BY <1>1 DEF Deliver, Types
<1>2. CASE TaskNotFound(s) \/ TaskUnavailable(s)
  BY <1>2 DEF TaskNotFound, TaskUnavailable, Types
<1>3. ASSUME NEW r, PublishAnswer(s, r)
      PROVE  replies'[x] = replies[x] /\ (x \in dropped' <=> x \in dropped)
  BY <1>3 DEF PublishAnswer, Types
<1>4. CASE BuildFailed(s) \/ NoCompare(s) \/ EndGrade(s)
  BY <1>3, <1>4 DEF BuildFailed, NoCompare, EndGrade, Types
<1>5. CASE StartGrade(s)
  BY <1>5 DEF StartGrade, Types
<1>6. CASE Ack(s)
  BY <1>6 DEF Ack, Types
<1> QED  BY <1>1, <1>2, <1>4, <1>5, <1>6 DEF Handle

\* A step of a group or of a case leaves handlers, messages and replies alone, and
\* keeps Phased.
LEMMA GoroutinePhased ==
    ASSUME Types, \A s \in Submissions : Coherent(s) /\ Phased(s), NEW s \in Submissions,
           \/ \E g \in Groups : Group(s, g)
           \/ \E t \in Cases : Case(s, t) /\ ~ InitFatal(s, t)
    PROVE  /\ UNCHANGED <<worker, msg, handler, replies, dropped>>
           /\ \A x \in Submissions : Phased(x)'
<1>1. handler[s] = "grading" /\ \A x \in Submissions \ {s} : Same(x)
  <2>1. ASSUME NEW g \in Groups, StartGroup(s, g)
        PROVE  handler[s] = "grading"
    BY <2>1 DEF StartGroup
  <2>2. ASSUME NEW g \in Groups, EndGroup(s, g)
        PROVE  handler[s] = "grading"
    BY <2>2, RunsInGrading DEF EndGroup
  <2>3. ASSUME NEW t \in Cases, Case(s, t), ~ InitFatal(s, t)
        PROVE  handler[s] = "grading" /\ Moved(s, t)
    <3>1. Moved(s, t)
      BY <2>3, CaseMoves
    <3>2. GroupOf[t] \in Groups
      BY GradingAssumption
    <3> QED  BY <3>1, <3>2, RunsInGrading DEF Moved
  <2> QED  BY <2>1, <2>2, <2>3, OthersSame DEF Group
<1>2. UNCHANGED <<worker, msg, handler, replies, dropped>>
  <2>1. ASSUME NEW g \in Groups, Group(s, g)
        PROVE  UNCHANGED <<worker, msg, handler, replies, dropped>>
    BY <2>1 DEF Group, StartGroup, EndGroup
  <2>2. ASSUME NEW t \in Cases, Case(s, t), ~ InitFatal(s, t)
        PROVE  UNCHANGED <<worker, msg, handler, replies, dropped>>
    BY <2>2 DEF Case, StartCase, BeginRun, EndRun, BeginCompare, EndCompare, Move
  <2> QED  BY <2>1, <2>2
<1>3. Phased(s)'
  BY <1>1, <1>2 DEF Phased
<1>4. ASSUME NEW x \in Submissions, x # s
      PROVE  Phased(x)'
  BY <1>1, <1>2, <1>4, SamePhased
<1> QED  BY <1>2, <1>3, <1>4

\* The end of the process leaves no handler and no goroutine.
LEMMA DiePhased ==
    ASSUME Types, NEW s \in Submissions, Phased(s), Die
    PROVE  Phased(s)'
BY DEF Types, Die, Phased

\* Phased is kept by every step.
LEMMA PhasedStep ==
    ASSUME Types, \A s \in Submissions : Coherent(s) /\ Phased(s), [Next]_vars
    PROVE  \A s \in Submissions : Phased(s)'
<1> SUFFICES ASSUME NEW x \in Submissions
             PROVE  Phased(x)'
  OBVIOUS
<1>1. ASSUME NEW s \in Submissions, Deliver(s) \/ Handle(s)
      PROVE  Phased(x)'
  BY <1>1, HandlePhased, HandleOthers, SamePhased
<1>2. ASSUME NEW s \in Submissions, NEW g \in Groups, Group(s, g)
      PROVE  Phased(x)'
  BY <1>2, GoroutinePhased
<1>3. ASSUME NEW s \in Submissions, NEW t \in Cases, Case(s, t)
      PROVE  Phased(x)'
  BY <1>3, GoroutinePhased, DiePhased DEF InitFatal
<1>4. CASE Shutdown \/ Restart \/ UNCHANGED vars
  BY <1>4 DEF Shutdown, Restart, vars, grading, Phased
<1>5. CASE Exit \/ Crash
  BY <1>5, DiePhased DEF Exit, Crash
<1> QED  BY <1>1, <1>2, <1>3, <1>4, <1>5 DEF Next

\* No goroutine is left that holds a box or waits for one.
LEMMA Orphans ==
    ASSUME Types, \A s \in Submissions : Coherent(s) /\ Phased(s)
    PROVE  NoOrphans
<1> SUFFICES ASSUME NEW s \in Submissions, handler[s] # "grading", NEW t \in Cases, tc[s][t] \in Active
             PROVE  FALSE
  BY DEF NoOrphans
<1>1. grp[s][GroupOf[t]] = "running" /\ GroupOf[t] \in Groups
  BY ActiveRuns, GradingAssumption
<1> QED  BY <1>1, RunsInGrading

(***************************************************************************)
(* Blame.                                                                  *)
(***************************************************************************)

\* Without faults nothing is cancelled, and a case fails only if it is not solved.
Blameless ==
    faults = 0 =>
        /\ worker = "up"
        /\ \A s \in Submissions : \A t \in Cases :
            tc[s][t] # "error" /\ (tc[s][t] = "failed" => t \notin Solves[s])

\* Without a fault no goroutine's context is done.
LEMMA NotCancelled ==
    ASSUME Types, Blameless, faults = 0, NEW s \in Submissions, Coherent(s), NEW t \in Cases
    PROVE  ~ CtxDone(s, t)
BY DEF Types, Blameless, Coherent, CtxDone, CasesOf

\* Faults are counted up.
LEMMA FaultsStep ==
    ASSUME Types, [Next]_vars
    PROVE  faults \in Nat /\ (faults' = faults \/ faults' = faults + 1)
<1>1. faults \in Nat
  BY GradingAssumption DEF Types
<1>2. ASSUME NEW s \in Submissions, Deliver(s) \/ Handle(s)
      PROVE  faults' = faults \/ faults' = faults + 1
  BY <1>2 DEF Deliver, Handle, TaskNotFound, TaskUnavailable, BuildFailed, StartGrade, NoCompare,
              EndGrade, Ack, PublishAnswer, PublishFails, Fault
<1>3. ASSUME NEW s \in Submissions, NEW g \in Groups, Group(s, g)
      PROVE  faults' = faults
  BY <1>3 DEF Group, StartGroup, EndGroup
<1>4. ASSUME NEW s \in Submissions, NEW t \in Cases, Case(s, t)
      PROVE  faults' = faults \/ faults' = faults + 1
  <2>1. CASE StartCase(s, t) \/ BeginRun(s, t) \/ BeginCompare(s, t) \/ InitFatal(s, t)
    BY <2>1 DEF StartCase, BeginRun, BeginCompare, InitFatal
  <2>2. CASE EndRun(s, t)
    BY <2>2 DEF EndRun, Fault
  <2>3. CASE EndCompare(s, t)
    BY <2>3 DEF EndCompare, Fault
  <2> QED  BY <1>4, <2>1, <2>2, <2>3 DEF Case
<1>5. CASE Shutdown \/ Exit \/ Crash \/ Restart \/ UNCHANGED vars
  BY <1>1, <1>5 DEF Shutdown, Exit, Crash, Restart, vars
<1> QED  BY <1>1, <1>2, <1>3, <1>4, <1>5 DEF Next

\* What a case that moves comes to, without a fault.
LEMMA BlamelessMove ==
    ASSUME Types, Blameless, faults = 0, faults' = 0,
           NEW s \in Submissions, Coherent(s), NEW t \in Cases, Case(s, t)
    PROVE  /\ worker' = worker
           /\ \E to \in CaseStates \ {"error"} :
                tc' = [tc EXCEPT ![s][t] = to] /\ (to = "failed" => t \notin Solves[s])
<1> USE NotCancelled
<1>0. {"waitRun", "run", "waitCompare", "compare", "passed", "failed"} \subseteq CaseStates \ {"error"}
  BY DEF CaseStates
<1>1. CASE StartCase(s, t)
  BY <1>0, <1>1 DEF StartCase
<1>2. CASE BeginRun(s, t)
  BY <1>0, <1>2 DEF BeginRun, Move
<1>3. CASE EndRun(s, t)
  <2>1. \/ Move(s, t, "waitCompare")
        \/ Move(s, t, "failed") /\ t \notin Solves[s]
    BY <1>3 DEF EndRun, Fault
  <2> QED  BY <1>0, <2>1 DEF Move
<1>4. CASE BeginCompare(s, t)
  BY <1>0, <1>4 DEF BeginCompare, Move
<1>5. CASE EndCompare(s, t)
  <2>1. \/ Move(s, t, "passed")
        \/ Move(s, t, "failed") /\ t \notin Solves[s]
    BY <1>5 DEF EndCompare, Fault
  <2> QED  BY <1>0, <2>1 DEF Move
<1>6. CASE InitFatal(s, t)
  BY <1>6 DEF InitFatal
<1> QED  BY <1>1, <1>2, <1>3, <1>4, <1>5, <1>6 DEF Case

\* Blameless is kept by every step: a case goes wrong only by a fault or its program.
LEMMA BlamelessStep ==
    ASSUME Types, \A s \in Submissions : Coherent(s), Blameless, [Next]_vars
    PROVE  Blameless'
<1> SUFFICES ASSUME faults' = 0
             PROVE  /\ worker' = "up"
                    /\ \A s \in Submissions : \A t \in Cases :
                        tc'[s][t] # "error" /\ (tc'[s][t] = "failed" => t \notin Solves[s])
  BY DEF Blameless
<1>0. /\ faults = 0 /\ worker = "up"
      /\ \A s \in Submissions : \A t \in Cases :
           tc[s][t] # "error" /\ (tc[s][t] = "failed" => t \notin Solves[s])
  <2>1. faults = 0
    BY FaultsStep
  <2> QED  BY <2>1 DEF Blameless
<1>1. ASSUME NEW s \in Submissions, Deliver(s) \/ (Handle(s) /\ ~ Ack(s))
      PROVE  worker' = worker /\ tc' = tc
  BY <1>1 DEF Deliver, Handle, TaskNotFound, TaskUnavailable, BuildFailed, StartGrade, NoCompare,
              EndGrade, grading
<1>2. ASSUME NEW s \in Submissions, Ack(s)
      PROVE  worker' = worker /\ tc' = [tc EXCEPT ![s] = NoCases]
  BY <1>2 DEF Ack
<1>3. ASSUME NEW s \in Submissions, NEW g \in Groups, Group(s, g)
      PROVE  worker' = worker /\ tc' = tc
  BY <1>3 DEF Group, StartGroup, EndGroup
<1>4. ASSUME NEW s \in Submissions, NEW t \in Cases, Case(s, t)
      PROVE  /\ worker' = "up"
             /\ \A x \in Submissions : \A u \in Cases :
                 tc'[x][u] # "error" /\ (tc'[x][u] = "failed" => u \notin Solves[x])
  <2>1. PICK to \in CaseStates \ {"error"} :
          tc' = [tc EXCEPT ![s][t] = to] /\ (to = "failed" => t \notin Solves[s])
    BY <1>0, <1>4, BlamelessMove
  <2>2. worker' = worker
    BY <1>0, <1>4, BlamelessMove
  <2>3. \A x \in Submissions : \A u \in Cases : tc'[x][u] = tc[x][u] \/ (x = s /\ u = t /\ tc'[x][u] = to)
    BY <2>1 DEF Types
  <2> QED  BY <1>0, <2>1, <2>2, <2>3
<1>5. CASE UNCHANGED vars \/ Restart
  BY <1>0, <1>5 DEF vars, Restart
<1>6. ~ (Shutdown \/ Exit \/ Crash)
  BY <1>0 DEF Shutdown, Exit, Crash
<1>7. ASSUME NEW s \in Submissions, tc' = [tc EXCEPT ![s] = NoCases]
      PROVE  \A x \in Submissions : \A u \in Cases :
                 tc'[x][u] # "error" /\ (tc'[x][u] = "failed" => u \notin Solves[x])
  BY <1>0, <1>7 DEF Types, NoCases
<1>8. ASSUME NEW s \in Submissions, Deliver(s) \/ Handle(s)
      PROVE  /\ worker' = "up"
             /\ \A x \in Submissions : \A u \in Cases :
                 tc'[x][u] # "error" /\ (tc'[x][u] = "failed" => u \notin Solves[x])
  BY <1>0, <1>1, <1>2, <1>7, <1>8
<1> QED  BY <1>0, <1>3, <1>4, <1>5, <1>6, <1>8 DEF Next

(***************************************************************************)
(* The replies.                                                            *)
(***************************************************************************)

TerminalOf(q) == {i \in DOMAIN q : q[i].status # "RUNNING"}
RangeOf(q) == {q[i] : i \in DOMAIN q}

\* One more reply.
LEMMA AppendReply ==
    ASSUME NEW q \in Seq(Reply), NEW r \in Reply
    PROVE  /\ Len(q) \in Nat /\ Len(Append(q, r)) = Len(q) + 1
           /\ TerminalOf(q) \subseteq 1 .. Len(q)
           /\ RangeOf(Append(q, r)) = RangeOf(q) \cup {r}
           /\ r.status = "RUNNING" => TerminalOf(Append(q, r)) = TerminalOf(q)
           /\ r.status # "RUNNING" => TerminalOf(Append(q, r)) = TerminalOf(q) \cup {Len(q) + 1}
<1> DEFINE p == Append(q, r)
<1>1. /\ Len(q) \in Nat /\ DOMAIN q = 1 .. Len(q)
      /\ Len(p) = Len(q) + 1 /\ DOMAIN p = 1 .. Len(q) + 1
      /\ \A i \in 1 .. Len(q) : p[i] = q[i]
      /\ p[Len(q) + 1] = r
  OBVIOUS
<1> HIDE DEF p
<1>2. \A i : i \in 1 .. Len(q) + 1 <=> i \in 1 .. Len(q) \/ i = Len(q) + 1
  BY <1>1
<1>3. RangeOf(p) \subseteq RangeOf(q) \cup {r}
  BY <1>1, <1>2 DEF RangeOf
<1>4. RangeOf(q) \cup {r} \subseteq RangeOf(p)
  BY <1>1, <1>2 DEF RangeOf
<1>5. \A i \in 1 .. Len(q) : i # Len(q) + 1
  BY <1>1
<1>6. r.status = "RUNNING" => TerminalOf(p) = TerminalOf(q)
  BY <1>1, <1>2, <1>5 DEF TerminalOf
<1>7. r.status # "RUNNING" => TerminalOf(p) = TerminalOf(q) \cup {Len(q) + 1}
  BY <1>1, <1>2, <1>5 DEF TerminalOf
<1> QED  BY <1>1, <1>3, <1>4, <1>6, <1>7 DEF TerminalOf, p

Answered(s) == handler[s] = "replied" \/ msg[s] = "acked"

\* An answer that is published: an error, or the verdict of a grade that has ended.
AnswerOf(s, r) ==
    /\ r \in Reply /\ r.status # "RUNNING"
    /\ r # GraderError =>
        r = Verdict(s) /\ \A g \in Groups : grp[s][g] \in {"done", "failed"}

\* Whether something has been cancelled that a death of the process follows from.
Spoiled == worker = "stopping" \/ \E s \in Submissions : \E t \in Cases : tc[s][t] = "error"

\* What a step does to the replies of a submission: nothing, RUNNING is sent, or it is
\* answered; or the process ends.
Replying(s) ==
    \/ /\ replies'[s] = replies[s]
       /\ Answered(s) => Answered(s)'
       /\ Answered(s)' => Answered(s) \/ s \in dropped'
    \/ /\ replies'[s] = Append(replies[s], NoReply)
       /\ ~ Answered(s) /\ ~ Answered(s)'
    \/ /\ \E r \in Reply : AnswerOf(s, r) /\ replies'[s] = Append(replies[s], r)
       /\ ~ Answered(s) /\ Answered(s)'
    \/ Die /\ (Spoiled \/ faults' = faults + 1)

\* An error and the verdict of a grade that has ended are answers.
LEMMA VerdictAnswers ==
    ASSUME Types, NEW s \in Submissions
    PROVE  /\ AnswerOf(s, GraderError)
           /\ (\A g \in Groups : grp[s][g] \in {"done", "failed"}) => AnswerOf(s, Verdict(s))
BY AnswerTypes DEF AnswerOf, Verdict, GraderError, Types

\* Publishing an answer, when the handler has been left for it.
LEMMA PublishReplying ==
    ASSUME Types, NEW s \in Submissions, Phased(s), handler[s] \in {"received", "grading"},
           NEW r \in Reply, AnswerOf(s, r), PublishAnswer(s, r),
           handler' = [handler EXCEPT ![s] = "replied"], msg' = msg
    PROVE  Replying(s)
<1>1. ~ Answered(s) /\ Answered(s)'
  BY DEF Types, Answered, Phased
<1>2. CASE replies' = [replies EXCEPT ![s] = Append(@, r)]
  <2>1. replies'[s] = Append(replies[s], r)
    BY <1>2 DEF Types
  <2> QED  BY <1>1, <2>1 DEF Replying
<1>3. CASE s \in dropped' /\ UNCHANGED replies
  BY <1>1, <1>3 DEF Replying
<1> QED  BY <1>2, <1>3 DEF PublishAnswer

\* The steps of a handler reply in one of these ways.
LEMMA HandleReplying ==
    ASSUME Types, NEW s \in Submissions, Phased(s), Deliver(s) \/ Handle(s)
    PROVE  Replying(s)
<1> USE AnswerTypes, VerdictAnswers, PublishReplying
<1>1. CASE Deliver(s)
  BY <1>1 DEF Deliver, Replying, Answered, Types, Phased
<1>2. CASE TaskNotFound(s)
  BY <1>2 DEF TaskNotFound, Replying, Answered, Types
<1>3. CASE TaskUnavailable(s)
  BY <1>3 DEF TaskUnavailable, Replying, Answered, Types, Phased
<1>4. CASE BuildFailed(s)
  BY <1>4 DEF BuildFailed
<1>5. CASE StartGrade(s)
  <2>1. ~ Answered(s) /\ ~ Answered(s)'
    BY <1>5 DEF StartGrade, Answered, Phased, Types
  <2>2. replies'[s] = replies[s] \/ replies'[s] = Append(replies[s], NoReply)
    BY <1>5 DEF StartGrade, Types
  <2> QED  BY <2>1, <2>2 DEF Replying
<1>6. CASE NoCompare(s)
  BY <1>6 DEF NoCompare
<1>7. CASE EndGrade(s)
  BY <1>7 DEF EndGrade
<1>8. CASE Ack(s)
  BY <1>8 DEF Ack, Replying, Answered, Types
<1> QED  BY <1>1, <1>2, <1>3, <1>4, <1>5, <1>6, <1>7, <1>8 DEF Handle

\* A step that leaves handlers and replies alone.
LEMMA QuietReplying ==
    ASSUME NEW s \in Submissions,
           replies'[s] = replies[s], handler'[s] = handler[s], msg'[s] = msg[s]
    PROVE  Replying(s)
BY DEF Replying, Answered

\* A context is done only when something was cancelled.
LEMMA CancelledSpoils ==
    ASSUME NEW s \in Submissions, Coherent(s), NEW t \in Cases, CtxDone(s, t)
    PROVE  Spoiled
BY DEF Coherent, CtxDone, Spoiled, CasesOf

\* Every step replies to every submission in one of these ways.
LEMMA ReplyingStep ==
    ASSUME Types, \A s \in Submissions : Coherent(s) /\ Phased(s), [Next]_vars
    PROVE  \A s \in Submissions : Replying(s)
<1> SUFFICES ASSUME NEW x \in Submissions
             PROVE  Replying(x)
  OBVIOUS
<1>1. ASSUME NEW s \in Submissions, Deliver(s) \/ Handle(s)
      PROVE  Replying(x)
  BY <1>1, HandleReplying, HandleOthers, QuietReplying
<1>2. ASSUME NEW s \in Submissions,
             \/ \E g \in Groups : Group(s, g)
             \/ \E t \in Cases : Case(s, t) /\ ~ InitFatal(s, t)
      PROVE  Replying(x)
  <2>1. UNCHANGED <<msg, handler, replies>>
    BY <1>2, GoroutinePhased
  <2> QED  BY <2>1, QuietReplying
<1>3. ASSUME NEW s \in Submissions, NEW t \in Cases, InitFatal(s, t)
      PROVE  Replying(x)
  BY <1>3, CancelledSpoils DEF InitFatal, Replying
<1>4. CASE Shutdown \/ Restart \/ UNCHANGED vars
  BY <1>4, QuietReplying DEF Shutdown, Restart, vars
<1>5. CASE Exit \/ Crash
  BY <1>5 DEF Exit, Crash, Replying, Spoiled
<1> QED  BY <1>1, <1>2, <1>3, <1>4, <1>5 DEF Next

\* Only the answer of a broker that refused it, or of a task not found, is dropped, and
\* that for good.
LEMMA DroppedStep ==
    ASSUME [Next]_vars
    PROVE  dropped \subseteq dropped'
<1>1. ASSUME NEW s \in Submissions, Deliver(s) \/ Handle(s)
      PROVE  dropped \subseteq dropped'
  BY <1>1 DEF Deliver, Handle, TaskNotFound, TaskUnavailable, BuildFailed, StartGrade, NoCompare,
              EndGrade, Ack, PublishAnswer
<1>2. ASSUME NEW s \in Submissions, NEW g \in Groups, Group(s, g)
      PROVE  dropped' = dropped
  BY <1>2 DEF Group, StartGroup, EndGroup
<1>3. ASSUME NEW s \in Submissions, NEW t \in Cases, Case(s, t)
      PROVE  dropped' = dropped
  <2>1. CASE StartCase(s, t) \/ BeginRun(s, t) \/ BeginCompare(s, t)
    BY <2>1 DEF StartCase, BeginRun, BeginCompare, Move
  <2>2. CASE EndRun(s, t)
    BY <2>2 DEF EndRun, Move
  <2>3. CASE EndCompare(s, t)
    BY <2>3 DEF EndCompare, Move
  <2>4. CASE InitFatal(s, t)
    BY <2>4 DEF InitFatal, Die
  <2> QED  BY <1>3, <2>1, <2>2, <2>3, <2>4 DEF Case
<1>4. CASE Shutdown \/ Exit \/ Crash \/ Restart \/ UNCHANGED vars
  BY <1>4 DEF Shutdown, Exit, Crash, Restart, Die, vars
<1> QED  BY <1>1, <1>2, <1>3, <1>4 DEF Next

\* Who was answered has a terminal status, or the answer was dropped.
Told(s) == Answered(s) => TerminalOf(replies[s]) # {} \/ s \in dropped

\* Whoever is answered is told, or the answer was dropped.
LEMMA ToldStep ==
    ASSUME Types, \A s \in Submissions : Coherent(s) /\ Phased(s) /\ Told(s), [Next]_vars
    PROVE  \A s \in Submissions : Told(s)'
<1> SUFFICES ASSUME NEW s \in Submissions
             PROVE  Told(s)'
  OBVIOUS
<1>1. Replying(s) /\ dropped \subseteq dropped' /\ Told(s) /\ replies[s] \in Seq(Reply)
  BY ReplyingStep, DroppedStep DEF Types
<1>2. CASE /\ replies'[s] = replies[s]
           /\ Answered(s)' => Answered(s) \/ s \in dropped'
  BY <1>1, <1>2 DEF Told
<1>3. CASE ~ Answered(s)'
  BY <1>3 DEF Told
<1>4. CASE \E r \in Reply : AnswerOf(s, r) /\ replies'[s] = Append(replies[s], r)
  <2>1. PICK r \in Reply : AnswerOf(s, r) /\ replies'[s] = Append(replies[s], r)
    BY <1>4
  <2>2. TerminalOf(replies'[s]) = TerminalOf(replies[s]) \cup {Len(replies[s]) + 1}
    BY <1>1, <2>1, AppendReply DEF AnswerOf
  <2> QED  BY <2>2 DEF Told
<1>5. CASE Die
  BY <1>1, <1>5 DEF Die, Told, Answered, Types
<1> QED  BY <1>1, <1>2, <1>3, <1>4, <1>5 DEF Replying

(***************************************************************************)
(* The verdict.                                                            *)
(***************************************************************************)

\* What CreditSound and NoBlame say of one reply.
Fair(s, r) ==
    /\ r.credited \subseteq Solved(s)
    /\ r.status = "RUN_PASSED" => r.credited = Groups
    /\ faults = 0 /\ r.status = "RUN_FAILED" => r.credited = Solved(s) /\ Solved(s) # Groups

\* A grade that has ended has a fair verdict.
LEMMA VerdictFair ==
    ASSUME Types, NEW s \in Submissions, Coherent(s), Blameless,
           \A g \in Groups : grp[s][g] \in {"done", "failed"}
    PROVE  Fair(s, Verdict(s))
<1>1. CASE \E g \in Groups : grp[s][g] = "failed"
  BY <1>1 DEF Verdict, GraderError, Fair
<1>2. CASE \A g \in Groups : grp[s][g] = "done"
  <2>1. Verdict(s) = [status |-> status[s], credited |-> credited[s]]
    BY <1>2 DEF Verdict
  <2>2. Verdict(s).status = status[s] /\ Verdict(s).credited = credited[s]
    BY <2>1
  <2>3. \A g \in Groups : CasesOf(g) \subseteq Cases
    BY DEF CasesOf
  <2>4. credited[s] \subseteq Groups /\ credited[s] \subseteq Solved(s)
    BY <2>3 DEF Types, Coherent, Solved
  <2>5. status[s] = "RUN_PASSED" => credited[s] = Groups
    BY <1>2, <2>4 DEF Coherent
  <2>6. ASSUME faults = 0, status[s] = "RUN_FAILED"
        PROVE  credited[s] = Solved(s) /\ Solved(s) # Groups
    <3>1. ASSUME NEW g \in Groups, NEW t \in CasesOf(g), tc[s][t] = "failed"
          PROVE  g \notin Solved(s)
      BY <2>3, <2>6, <3>1 DEF Blameless, Solved
    <3>2. \A g \in Groups : g \notin credited[s] => g \notin Solved(s)
      BY <1>2, <3>1 DEF Coherent
    <3>3. \E g \in Groups : g \notin Solved(s)
      BY <2>6, <3>1 DEF Coherent
    <3> QED  BY <2>4, <3>2, <3>3 DEF Solved
  <2> QED  BY <2>2, <2>4, <2>5, <2>6 DEF Fair
<1> QED  BY <1>1, <1>2

AllFair(s) == \A r \in RangeOf(replies[s]) : Fair(s, r)

\* Every reply that is published is fair, and those that were are kept.
LEMMA FairStep ==
    ASSUME Types, Blameless, \A s \in Submissions : Coherent(s) /\ Phased(s) /\ AllFair(s), [Next]_vars
    PROVE  \A s \in Submissions : AllFair(s)'
<1> SUFFICES ASSUME NEW s \in Submissions
             PROVE  AllFair(s)'
  OBVIOUS
<1>1. Replying(s) /\ AllFair(s) /\ replies[s] \in Seq(Reply)
  BY ReplyingStep DEF Types
<1>2. faults' = 0 => faults = 0
  BY FaultsStep
<1>3. ASSUME NEW r, Fair(s, r)
      PROVE  Fair(s, r)'
  BY <1>2, <1>3 DEF Fair, Solved, CasesOf
<1>4. CASE replies'[s] = replies[s]
  BY <1>1, <1>3, <1>4 DEF AllFair
<1>5. ASSUME NEW r \in Reply, Fair(s, r), replies'[s] = Append(replies[s], r)
      PROVE  AllFair(s)'
  <2>1. RangeOf(replies'[s]) = RangeOf(replies[s]) \cup {r}
    BY <1>1, <1>5, AppendReply
  <2> QED  BY <1>1, <1>3, <1>5, <2>1 DEF AllFair
<1>6. CASE replies'[s] = Append(replies[s], NoReply)
  BY <1>5, <1>6, AnswerTypes DEF Fair, NoReply
<1>7. CASE \E r \in Reply : AnswerOf(s, r) /\ replies'[s] = Append(replies[s], r)
  <2>1. PICK r \in Reply : AnswerOf(s, r) /\ replies'[s] = Append(replies[s], r)
    BY <1>7
  <2>2. Fair(s, GraderError)
    BY DEF Fair, GraderError
  <2>3. Fair(s, r)
    BY <2>1, <2>2, VerdictFair DEF AnswerOf
  <2> QED  BY <1>5, <2>1, <2>3
<1>8. CASE Die
  BY <1>4, <1>8 DEF Die
<1> QED  BY <1>1, <1>4, <1>6, <1>7, <1>8 DEF Replying

(***************************************************************************)
(* One verdict for each fault, and one.                                    *)
(***************************************************************************)

\* A verdict is paid for: the first is free, and each other one takes a fault, of which
\* one that has cancelled something, and not yet ended the process, is kept in hand.
Paid(s) ==
    LET n == Cardinality(TerminalOf(replies[s])) IN
    /\ n <= faults + 1
    /\ Spoiled \/ ~ Answered(s) => n <= faults
    /\ Spoiled /\ ~ Answered(s) => n + 1 <= faults
    /\ faults = 0 => TerminalOf(replies[s]) \subseteq {Len(replies[s])}

\* A step of a case that cancels its siblings takes a fault, if nothing was cancelled before.
LEMMA SpoiledMove ==
    ASSUME Types, NEW s \in Submissions, Coherent(s), NEW t \in Cases, Case(s, t), Spoiled'
    PROVE  Spoiled \/ faults' = faults + 1
<1>1. ASSUME NEW to, to # "error", Move(s, t, to)
      PROVE  Spoiled
  <2>1. \A x \in Submissions : \A u \in Cases : tc'[x][u] = "error" => tc[x][u] = "error"
    BY <1>1 DEF Move, Types
  <2> QED  BY <1>1, <2>1 DEF Move, Spoiled
<1>2. CASE StartCase(s, t) \/ BeginRun(s, t) \/ BeginCompare(s, t)
  BY <1>1, <1>2 DEF StartCase, BeginRun, BeginCompare, Move
<1>3. CASE EndRun(s, t)
  BY <1>1, <1>3 DEF EndRun, Fault
<1>4. CASE EndCompare(s, t)
  BY <1>1, <1>4, CancelledSpoils DEF EndCompare, Fault
<1>5. CASE InitFatal(s, t)
  BY <1>5, CancelledSpoils DEF InitFatal
<1> QED  BY <1>2, <1>3, <1>4, <1>5 DEF Case

\* So does every step that cancels something.
LEMMA SpoiledStep ==
    ASSUME Types, \A s \in Submissions : Coherent(s), [Next]_vars, Spoiled'
    PROVE  Spoiled \/ faults' = faults + 1
<1>1. ASSUME NEW s \in Submissions, Deliver(s) \/ (Handle(s) /\ ~ Ack(s))
      PROVE  Spoiled
  <2>1. worker' = worker /\ tc' = tc
    BY <1>1 DEF Deliver, Handle, TaskNotFound, TaskUnavailable, BuildFailed, StartGrade, NoCompare,
                EndGrade, grading
  <2> QED  BY <2>1 DEF Spoiled
<1>2. ASSUME NEW s \in Submissions, Ack(s)
      PROVE  Spoiled
  <2>1. worker' = worker /\ tc' = [tc EXCEPT ![s] = NoCases]
    BY <1>2 DEF Ack
  <2>2. \A x \in Submissions : \A u \in Cases : tc'[x][u] = "error" => tc[x][u] = "error"
    BY <2>1 DEF Types, NoCases
  <2> QED  BY <2>1, <2>2 DEF Spoiled
<1>3. ASSUME NEW s \in Submissions, NEW g \in Groups, Group(s, g)
      PROVE  Spoiled
  BY <1>3 DEF Group, StartGroup, EndGroup, Spoiled
<1>4. ASSUME NEW s \in Submissions, NEW t \in Cases, Case(s, t)
      PROVE  Spoiled \/ faults' = faults + 1
  BY <1>4, SpoiledMove
<1>5. CASE Shutdown \/ Exit \/ Crash
  BY <1>5 DEF Shutdown, Exit, Crash, Spoiled
<1>6. CASE UNCHANGED vars \/ Restart
  BY <1>6 DEF vars, Restart, Spoiled, grading
<1>7. ASSUME NEW s \in Submissions, Deliver(s) \/ Handle(s)
      PROVE  Spoiled
  BY <1>1, <1>2, <1>7
<1> QED  BY <1>3, <1>4, <1>5, <1>6, <1>7 DEF Next

\* A process that ended has nothing cancelled.
LEMMA DieUnspoils ==
    ASSUME Die
    PROVE  ~ Spoiled'
BY DEF Die, Spoiled, NoCases

\* The terminal replies of a submission can be counted.
LEMMA TerminalFinite ==
    ASSUME Types, NEW s \in Submissions
    PROVE  /\ Len(replies[s]) \in Nat
           /\ TerminalOf(replies[s]) \subseteq 1 .. Len(replies[s])
           /\ IsFiniteSet(TerminalOf(replies[s]))
           /\ Cardinality(TerminalOf(replies[s])) \in Nat
           /\ Cardinality(TerminalOf(replies[s])) = 0 => TerminalOf(replies[s]) = {}
<1>1. replies[s] \in Seq(Reply)
  BY DEF Types
<1>2. Len(replies[s]) \in Nat /\ TerminalOf(replies[s]) \subseteq 1 .. Len(replies[s])
  BY <1>1 DEF TerminalOf
<1>3. IsFiniteSet(1 .. Len(replies[s]))
  BY <1>2, FS_Interval
<1>4. IsFiniteSet(TerminalOf(replies[s]))
  BY <1>2, <1>3, FS_Subset
<1> QED  BY <1>2, <1>4, FS_CardinalityType, FS_EmptySet

\* What is paid for stays so if there is no new verdict.
LEMMA PaidSame ==
    ASSUME Types, NEW s \in Submissions, Paid(s), faults \in Nat,
           Cardinality(TerminalOf(replies[s])) \in Nat,
           faults' = faults \/ faults' = faults + 1,
           replies'[s] = replies[s],
           Spoiled' => Spoiled \/ faults' = faults + 1,
           \/ Answered(s) => Answered(s)'
           \/ ~ Spoiled' /\ (Spoiled \/ faults' = faults + 1)
    PROVE  Paid(s)'
<1> DEFINE n == Cardinality(TerminalOf(replies[s]))
           T == TerminalOf(replies[s])
           L == Len(replies[s])
<1>1. /\ n \in Nat
      /\ n <= faults + 1
      /\ Spoiled \/ ~ Answered(s) => n <= faults
      /\ Spoiled /\ ~ Answered(s) => n + 1 <= faults
      /\ faults = 0 => T \subseteq {L}
  BY DEF Paid
<1>2. n' = n /\ T' = T /\ L' = L
  OBVIOUS
<1> HIDE DEF n, T, L
<1>3. n <= faults' + 1 /\ (faults' = 0 => T \subseteq {L})
  BY <1>1
<1>4. Spoiled' \/ ~ Answered(s)' => n <= faults'
  BY <1>1
<1>5. Spoiled' /\ ~ Answered(s)' => n + 1 <= faults'
  BY <1>1
<1>6. /\ n' <= faults' + 1
      /\ Spoiled' \/ ~ Answered(s)' => n' <= faults'
      /\ Spoiled' /\ ~ Answered(s)' => n' + 1 <= faults'
      /\ faults' = 0 => T' \subseteq {L'}
  BY <1>2, <1>3, <1>4, <1>5
<1> QED  BY <1>6 DEF Paid, n, T, L

\* Every verdict that is published is paid for.
LEMMA PaidStep ==
    ASSUME Types, \A s \in Submissions : Coherent(s) /\ Phased(s) /\ Paid(s), [Next]_vars
    PROVE  \A s \in Submissions : Paid(s)'
<1> SUFFICES ASSUME NEW s \in Submissions
             PROVE  Paid(s)'
  OBVIOUS
<1> DEFINE T == TerminalOf(replies[s])
           n == Cardinality(T)
           L == Len(replies[s])
<1>1. /\ Paid(s) /\ Replying(s) /\ replies[s] \in Seq(Reply)
      /\ faults \in Nat /\ (faults' = faults \/ faults' = faults + 1)
      /\ Spoiled' => Spoiled \/ faults' = faults + 1
      /\ n \in Nat /\ L \in Nat /\ IsFiniteSet(T) /\ T \subseteq 1 .. L /\ (n = 0 => T = {})
  BY ReplyingStep, FaultsStep, SpoiledStep, TerminalFinite DEF Types
<1>2. CASE /\ replies'[s] = replies[s]
           /\ Answered(s) => Answered(s)'
  BY <1>1, <1>2, PaidSame
<1>3. CASE Die /\ (Spoiled \/ faults' = faults + 1)
  <2>1. ~ Spoiled' /\ replies'[s] = replies[s]
    BY <1>3, DieUnspoils DEF Die
  <2> QED  BY <1>1, <1>3, <2>1, PaidSame
<1>4. /\ n <= faults + 1
      /\ Spoiled \/ ~ Answered(s) => n <= faults
      /\ Spoiled /\ ~ Answered(s) => n + 1 <= faults
  BY <1>1 DEF Paid
<1>5. CASE /\ replies'[s] = Append(replies[s], NoReply)
           /\ ~ Answered(s) /\ ~ Answered(s)'
  <2>1. T' = T
    BY <1>1, <1>5, AnswerTypes, AppendReply DEF NoReply
  <2>2. n' = n
    BY <2>1
  <2> HIDE DEF n
  <2>3. /\ n <= faults' + 1 /\ n <= faults'
        /\ Spoiled' => n + 1 <= faults'
        /\ faults' = 0 => n = 0
    BY <1>1, <1>4, <1>5
  <2>4. faults' = 0 => T' = {}
    BY <1>1, <2>1, <2>3
  <2> USE DEF n
  <2>5. /\ Cardinality(TerminalOf(replies'[s])) <= faults' + 1
        /\ Cardinality(TerminalOf(replies'[s])) <= faults'
        /\ Spoiled' => Cardinality(TerminalOf(replies'[s])) + 1 <= faults'
        /\ faults' = 0 => TerminalOf(replies'[s]) \subseteq {Len(replies'[s])}
    BY <2>2, <2>3, <2>4
  <2> QED  BY <2>5 DEF Paid
<1>6. CASE /\ \E r \in Reply : AnswerOf(s, r) /\ replies'[s] = Append(replies[s], r)
           /\ ~ Answered(s) /\ Answered(s)'
  <2>1. PICK r \in Reply : AnswerOf(s, r) /\ replies'[s] = Append(replies[s], r)
    BY <1>6
  <2>2. T' = T \cup {L + 1} /\ L' = L + 1
    BY <1>1, <2>1, AppendReply DEF AnswerOf
  <2>3. L + 1 \notin T
    BY <1>1
  <2>4. n' = n + 1
    BY <1>1, <2>2, <2>3, FS_AddElement
  <2> HIDE DEF n, T, L
  <2>5. /\ n + 1 <= faults' + 1
        /\ Spoiled' => n + 1 <= faults'
        /\ faults' = 0 => n = 0
    BY <1>1, <1>4, <1>6
  <2>6. faults' = 0 => T' \subseteq {L'}
    BY <1>1, <2>2, <2>5
  <2>7. /\ n' <= faults' + 1
        /\ Spoiled' => n' <= faults'
        /\ faults' = 0 => T' \subseteq {L'}
    BY <2>4, <2>5, <2>6
  <2> QED  BY <1>6, <2>7 DEF Paid, n, T, L
<1> QED  BY <1>1, <1>2, <1>3, <1>5, <1>6 DEF Replying

(***************************************************************************)
(* The pool.                                                               *)
(***************************************************************************)

InUse == {c \in Submissions \X Cases : tc[c[1]][c[2]] \in HasBox}

Boxed == Cardinality(InUse) <= GradePoolSize

\* The boxes in use can be counted.
LEMMA InUseFinite == IsFiniteSet(InUse) /\ Cardinality(InUse) \in Nat /\ GradePoolSize \in Nat
<1>1. IsFiniteSet(Submissions \X Cases)
  BY GradingAssumption, FS_Product
<1>2. IsFiniteSet(InUse)
  BY <1>1, FS_Subset DEF InUse
<1> QED  BY <1>2, FS_CardinalityType, GradingAssumption DEF GradePoolSize

\* A step after which no more boxes are in use keeps the bound.
LEMMA InUseShrinks ==
    ASSUME Boxed, InUse' \subseteq InUse
    PROVE  Boxed'
<1>1. Cardinality(InUse') <= Cardinality(InUse) /\ Cardinality(InUse') \in Nat
  BY InUseFinite, FS_Subset, FS_CardinalityType
<1>2. GradePoolSize' = GradePoolSize
  BY DEF GradePoolSize
<1> QED  BY <1>1, <1>2, InUseFinite DEF Boxed

\* A move to a state without a box, or from one with a box.
LEMMA MoveShrinks ==
    ASSUME Types, NEW s \in Submissions, NEW t \in Cases, NEW to,
           tc' = [tc EXCEPT ![s][t] = to], to \notin HasBox
    PROVE  InUse' \subseteq InUse
<1>1. \A x \in Submissions : \A u \in Cases : tc'[x][u] = tc[x][u] \/ tc'[x][u] = to
  BY DEF Types
<1> QED  BY <1>1 DEF InUse

\* A box is taken only when one is free.
LEMMA TakeBox ==
    ASSUME Types, Boxed, NEW s \in Submissions, NEW t \in Cases, NEW to,
           tc' = [tc EXCEPT ![s][t] = to], Free > 0
    PROVE  Boxed'
<1>1. \A x \in Submissions : \A u \in Cases : tc'[x][u] = tc[x][u] \/ (x = s /\ u = t)
  BY DEF Types
<1>2. InUse' \subseteq InUse \cup {<<s, t>>}
  BY <1>1 DEF InUse
<1>3. IsFiniteSet(InUse \cup {<<s, t>>}) /\ Cardinality(InUse \cup {<<s, t>>}) \in Nat
      /\ (\/ Cardinality(InUse \cup {<<s, t>>}) = Cardinality(InUse)
          \/ Cardinality(InUse \cup {<<s, t>>}) = Cardinality(InUse) + 1)
  BY InUseFinite, FS_AddElement, FS_CardinalityType
<1>4. Cardinality(InUse') <= Cardinality(InUse \cup {<<s, t>>}) /\ Cardinality(InUse') \in Nat
  BY <1>2, <1>3, FS_Subset, FS_CardinalityType
<1>5. Cardinality(InUse) < GradePoolSize
  <2>1. GradePoolSize - Cardinality(InUse) > 0
    BY DEF Free, InUse
  <2> QED  BY <2>1, InUseFinite
<1>6. GradePoolSize' = GradePoolSize
  BY DEF GradePoolSize
<1> QED  BY <1>3, <1>4, <1>5, <1>6, InUseFinite DEF Boxed

\* A case takes a box only when one is free.
LEMMA BoxedCase ==
    ASSUME Types, Boxed, NEW s \in Submissions, NEW t \in Cases, Case(s, t)
    PROVE  Boxed'
<1>1. CASE StartCase(s, t)
  <2>1. tc' = [tc EXCEPT ![s][t] = "waitRun"] /\ "waitRun" \notin HasBox
    BY <1>1 DEF StartCase, HasBox
  <2> QED  BY <2>1, MoveShrinks, InUseShrinks
<1>2. CASE BeginRun(s, t)
  BY <1>2, TakeBox DEF BeginRun, Move
<1>3. CASE EndRun(s, t)
  <2>1. PICK to \in {"waitCompare", "failed", "error"} : Move(s, t, to)
    BY <1>3 DEF EndRun
  <2> QED  BY <2>1, MoveShrinks, InUseShrinks DEF Move, HasBox
<1>4. CASE BeginCompare(s, t)
  BY <1>4, TakeBox DEF BeginCompare, Move
<1>5. CASE EndCompare(s, t)
  <2>1. PICK to \in {"passed", "failed", "error"} : Move(s, t, to)
    BY <1>5 DEF EndCompare
  <2> QED  BY <2>1, MoveShrinks, InUseShrinks DEF Move, HasBox
<1>6. CASE InitFatal(s, t)
  <2>1. InUse' \subseteq InUse
    BY <1>6 DEF InitFatal, Die, InUse, NoCases, HasBox
  <2> QED  BY <2>1, InUseShrinks
<1> QED  BY <1>1, <1>2, <1>3, <1>4, <1>5, <1>6 DEF Case

\* No step takes more boxes than the pool has.
LEMMA BoxedStep ==
    ASSUME Types, Boxed, [Next]_vars
    PROVE  Boxed'
<1>1. ASSUME tc' = tc
      PROVE  InUse' \subseteq InUse
  BY <1>1 DEF InUse
<1>2. ASSUME NEW s \in Submissions, Deliver(s) \/ (Handle(s) /\ ~ Ack(s))
      PROVE  InUse' \subseteq InUse
  BY <1>1, <1>2 DEF Deliver, Handle, TaskNotFound, TaskUnavailable, BuildFailed, StartGrade,
                    NoCompare, EndGrade, grading
<1>3. ASSUME NEW s \in Submissions, Ack(s)
      PROVE  InUse' \subseteq InUse
  <2>1. tc' = [tc EXCEPT ![s] = NoCases]
    BY <1>3 DEF Ack
  <2>2. \A x \in Submissions : \A u \in Cases : tc'[x][u] \in HasBox => tc[x][u] \in HasBox
    BY <2>1 DEF Types, NoCases, HasBox
  <2> QED  BY <2>2 DEF InUse
<1>4. ASSUME NEW s \in Submissions, NEW g \in Groups, Group(s, g)
      PROVE  InUse' \subseteq InUse
  BY <1>1, <1>4 DEF Group, StartGroup, EndGroup
<1>5. ASSUME Exit \/ Crash
      PROVE  InUse' \subseteq InUse
  BY <1>5 DEF Exit, Crash, Die, InUse, NoCases, HasBox
<1>6. ASSUME Shutdown \/ Restart \/ UNCHANGED vars
      PROVE  InUse' \subseteq InUse
  BY <1>1, <1>6 DEF Shutdown, Restart, vars, grading
<1>7. ASSUME NEW s \in Submissions, Deliver(s) \/ Handle(s)
      PROVE  Boxed'
  BY <1>2, <1>3, <1>7, InUseShrinks
<1> QED  BY <1>4, <1>5, <1>6, <1>7, BoxedCase, InUseShrinks DEF Next

(***************************************************************************)
(* The theorems.                                                           *)
(***************************************************************************)

IInv ==
    /\ Types /\ Boxed /\ Blameless
    /\ \A s \in Submissions :
        Coherent(s) /\ Phased(s) /\ Told(s) /\ AllFair(s) /\ Paid(s)

\* The invariant holds at first,
LEMMA InitInvariant == Init => IInv
<1> SUFFICES ASSUME Init
             PROVE  IInv
  OBVIOUS
<1>1. Types
  <2>1. NoGroups \in [Groups -> {"pending", "running", "done", "failed"}]
        /\ NoCases \in [Cases -> CaseStates] /\ <<>> \in Seq(Reply)
    BY DEF NoGroups, NoCases, CaseStates
  <2> QED  BY <2>1, GradingAssumption DEF Init, Types
<1>2. Boxed
  <2>1. InUse = {}
    BY DEF Init, InUse, NoCases, HasBox
  <2> QED  BY <2>1, InUseFinite, FS_EmptySet DEF Boxed
<1>3. Blameless
  BY DEF Init, Blameless, NoCases
<1>4. ASSUME NEW s \in Submissions
      PROVE  Coherent(s) /\ Phased(s) /\ Told(s)
  BY DEF Init, Coherent, Phased, Told, Answered, NoCases, NoGroups, CasesOf
<1>5. ASSUME NEW s \in Submissions
      PROVE  AllFair(s) /\ Paid(s)
  <2>1. RangeOf(replies[s]) = {} /\ TerminalOf(replies[s]) = {}
    BY DEF Init, RangeOf, TerminalOf
  <2>2. ~ Spoiled
    BY DEF Init, Spoiled, NoCases
  <2>3. Cardinality(TerminalOf(replies[s])) = 0 /\ faults = 0
    BY <2>1, FS_EmptySet DEF Init
  <2> QED  BY <2>1, <2>2, <2>3 DEF AllFair, Paid
<1> QED  BY <1>1, <1>2, <1>3, <1>4, <1>5 DEF IInv

\* every step keeps it,
LEMMA StepInvariant == IInv /\ [Next]_vars => IInv'
<1> SUFFICES ASSUME IInv, [Next]_vars
             PROVE  IInv'
  OBVIOUS
<1>1. Types' /\ Boxed' /\ Blameless'
  BY TypesStep, BoxedStep, BlamelessStep DEF IInv
<1>2. \A s \in Submissions : Coherent(s)' /\ Phased(s)'
  BY CoherentStep, PhasedStep DEF IInv
<1>3. \A s \in Submissions : Told(s)' /\ AllFair(s)' /\ Paid(s)'
  BY ToldStep, FairStep, PaidStep DEF IInv
<1> QED  BY <1>1, <1>2, <1>3 DEF IInv

\* and so it holds always.
LEMMA Invariant == Spec => []IInv
BY InitInvariant, StepInvariant, PTL DEF Spec

\* Types are kept, and no more boxes are in use than the grade pool has.
THEOREM TypeCorrect == Spec => []TypeOK
<1>1. IInv => TypeOK
  <2> SUFFICES ASSUME IInv
               PROVE  Free \in 0 .. GradePoolSize
    BY DEF IInv, Types, TypeOK
  <2>1. Free = GradePoolSize - Cardinality(InUse)
    BY DEF Free, InUse
  <2>2. Cardinality(InUse) <= GradePoolSize
    BY DEF IInv, Boxed
  <2> QED  BY <2>1, <2>2, InUseFinite
<1> QED  BY <1>1, Invariant, PTL

\* A submission leaves the queue only with a terminal status on its reply queue,
\* unless its task was not found or the broker refused the answer.
THEOREM AcknowledgedAnswered == Spec => []AckedAnswered
<1>1. IInv => AckedAnswered
  BY DEF IInv, Told, Answered, AckedAnswered, Terminal, TerminalOf
<1> QED  BY <1>1, Invariant, PTL

\* Score is given only for groups all of whose cases are solved, and RUN_PASSED only
\* with the score of every group, whatever crashes, errors and cancellations there are.
THEOREM CreditIsSound == Spec => []CreditSound
<1>1. IInv => CreditSound
  BY DEF IInv, AllFair, Fair, CreditSound, Published, RangeOf
<1> QED  BY <1>1, Invariant, PTL

\* Without faults nobody is blamed: contention for boxes, however many submissions are
\* graded at the same time, fails no case and costs no group its score.
THEOREM NobodyBlamed == Spec => []NoBlame
<1>1. IInv => NoBlame
  BY DEF IInv, AllFair, Fair, NoBlame, Published, RangeOf
<1> QED  BY <1>1, Invariant, PTL

\* A submission gets one terminal status, and at most one more for each fault.
THEOREM VerdictsBounded == Spec => []OneVerdict
<1>1. IInv => OneVerdict
  <2> SUFFICES ASSUME IInv, NEW s \in Submissions
               PROVE  /\ Cardinality(Terminal(s)) <= 1 + faults
                      /\ faults = 0 => Terminal(s) \subseteq {Len(replies[s])}
    BY DEF OneVerdict
  <2>1. Terminal(s) = TerminalOf(replies[s])
    BY DEF Terminal, TerminalOf
  <2>2. /\ Cardinality(TerminalOf(replies[s])) <= faults + 1
        /\ faults = 0 => TerminalOf(replies[s]) \subseteq {Len(replies[s])}
    BY DEF IInv, Paid
  <2>3. faults + 1 = 1 + faults
    BY GradingAssumption DEF IInv, Types
  <2> QED  BY <2>1, <2>2, <2>3
<1> QED  BY <1>1, Invariant, PTL

\* The answer is published only when every goroutine of the submission is through.
THEOREM NoOrphansLeft == Spec => []NoOrphans
<1>1. IInv => NoOrphans
  BY Orphans DEF IInv
<1> QED  BY <1>1, Invariant, PTL

(***************************************************************************)
(* The grade queue implements AnsweredQueue.                               *)
(***************************************************************************)

\* Where AnsweredQueue has a submission.
Place ==
    [s \in Submissions |->
        IF msg[s] # "delivered" THEN msg[s]
        ELSE IF handler[s] = "replied" THEN "answered" ELSE "working"]

\* The steps of a submission in AnsweredQueue, in terms of Place.
LEMMA QueueNext ==
    ASSUME NEW s \in Submissions,
           \/ /\ Place[s] = "queued" /\ Place' = [Place EXCEPT ![s] = "working"]
              /\ Cardinality({r \in Submissions : Place[r] \in {"working", "answered"}}) < GradeQueueAmount
              /\ UNCHANGED <<replies, dropped>>
           \/ /\ Place[s] = "working" /\ Place' = Place /\ dropped' = dropped
              /\ replies' = [replies EXCEPT ![s] = Append(@, NoReply)]
           \/ /\ Place[s] = "working" /\ Place' = [Place EXCEPT ![s] = "answered"] /\ dropped' = dropped
              /\ \E r \in RightVerdicts(s) : replies' = [replies EXCEPT ![s] = Append(@, r)]
           \/ /\ Place[s] = "working" /\ Place' = [Place EXCEPT ![s] = "answered"]
              /\ dropped' = dropped \cup {s} /\ replies' = replies
           \/ /\ Place[s] = "answered" /\ Place' = [Place EXCEPT ![s] = "acked"]
              /\ UNCHANGED <<replies, dropped>>
    PROVE  Queue!Next
<1>1. Queue!Next <=>
        \/ \E m \in Submissions :
             Queue!Deliver(m) \/ Queue!Report(m) \/ Queue!Answer(m) \/ Queue!Lose(m) \/ Queue!Ack(m)
        \/ \E S \in SUBSET Submissions : Queue!Return(S)
  BY DEF Queue!Next
<1>2. ASSUME NEW from, NEW to, Place[s] = from, Place' = [Place EXCEPT ![s] = to]
      PROVE  Queue!Go(s, from, to)
  BY <1>2 DEF Queue!Go, Place
<1>3. Queue!Out = {r \in Submissions : Place[r] \in {"working", "answered"}}
  BY DEF Queue!Out, Place
<1>4. ASSUME Place[s] = "working", Place' = Place, dropped' = dropped,
             replies' = [replies EXCEPT ![s] = Append(@, NoReply)]
      PROVE  Queue!Report(s)
  BY <1>4 DEF Queue!Report, Queue!Give, Place
<1>5. ASSUME Place[s] = "working", Place' = [Place EXCEPT ![s] = "answered"], dropped' = dropped,
             NEW r \in RightVerdicts(s), replies' = [replies EXCEPT ![s] = Append(@, r)]
      PROVE  Queue!Answer(s)
  <2>1. Queue!Go(s, "working", "answered")
    BY <1>2, <1>5
  <2>2. Queue!Give(s, r) /\ r \in [x \in Submissions |-> RightVerdicts(x)][s]
    BY <1>5 DEF Queue!Give
  <2> QED  BY <1>5, <2>1, <2>2 DEF Queue!Answer
<1>6. Queue!Cardinality(Queue!Out) = Cardinality({r \in Submissions : Place[r] \in {"working", "answered"}})
  BY <1>3 DEF Queue!Cardinality, Cardinality
<1> HIDE DEF Place
<1>7. CASE /\ Place[s] = "queued" /\ Place' = [Place EXCEPT ![s] = "working"]
           /\ Cardinality({r \in Submissions : Place[r] \in {"working", "answered"}}) < GradeQueueAmount
           /\ UNCHANGED <<replies, dropped>>
  BY <1>1, <1>2, <1>6, <1>7 DEF Queue!Deliver
<1> QED
  BY <1>1, <1>2, <1>4, <1>5, <1>7 DEF Queue!Lose, Queue!Ack

\* The place of a submission whose message or handler alone changes.
LEMMA PlaceGoes ==
    ASSUME NEW s \in Submissions, NEW to, Place'[s] = to,
           \A x \in Submissions : x # s => msg'[x] = msg[x] /\ handler'[x] = handler[x]
    PROVE  Place' = [Place EXCEPT ![s] = to]
<1>1. Place = [x \in Submissions |-> Place[x]] /\ Place' = [x \in Submissions |-> Place'[x]]
  BY DEF Place
<1>2. \A x \in Submissions : x # s => Place'[x] = Place[x]
  BY DEF Place
<1> HIDE DEF Place
<1> QED  BY <1>1, <1>2

\* An error is right for every submission, and the verdict of a grade that has ended for its own.
LEMMA VerdictRight ==
    ASSUME Types, NEW s \in Submissions, Coherent(s), Blameless
    PROVE  /\ GraderError \in RightVerdicts(s)
           /\ (\A g \in Groups : grp[s][g] \in {"done", "failed"}) => Verdict(s) \in RightVerdicts(s)
<1>1. GraderError \in RightVerdicts(s)
  BY AnswerTypes DEF RightVerdicts, GraderError
<1>2. ASSUME \A g \in Groups : grp[s][g] \in {"done", "failed"}, Verdict(s) # GraderError
      PROVE  Verdict(s) \in RightVerdicts(s)
  <2>1. Verdict(s) \in Reply /\ Fair(s, Verdict(s)) /\ Verdict(s).status # "RUNNING"
    BY <1>2, AnswerTypes, VerdictFair, VerdictAnswers DEF AnswerOf
  <2>2. Verdict(s).status = status[s] /\ Verdict(s).credited = credited[s]
    BY <1>2 DEF Verdict
  <2>3. status[s] = "RUN_FAILED" => credited[s] # Groups
    <3>1. ASSUME NEW g \in Groups, NEW t \in CasesOf(g), tc[s][t] = "failed"
          PROVE  g \notin credited[s]
      BY <3>1 DEF Coherent
    <3> QED  BY <3>1 DEF Coherent
  <2> QED  BY <2>1, <2>2, <2>3 DEF RightVerdicts, Fair
<1> QED  BY <1>1, <1>2

\* Publishing an answer gives it, or loses it.
LEMMA PublishQueue ==
    ASSUME Types, NEW s \in Submissions, Phased(s), handler[s] \in {"received", "grading"},
           NEW r \in RightVerdicts(s), PublishAnswer(s, r),
           handler' = [handler EXCEPT ![s] = "replied"], msg' = msg
    PROVE  Queue!Next
<1>1. Place[s] = "working" /\ Place'[s] = "answered"
  BY DEF Types, Phased, Place
<1>2. \A x \in Submissions : x # s => msg'[x] = msg[x] /\ handler'[x] = handler[x]
  BY DEF Types
<1>3. Place' = [Place EXCEPT ![s] = "answered"]
  BY <1>1, <1>2, PlaceGoes
<1>4. \/ replies' = [replies EXCEPT ![s] = Append(@, r)] /\ dropped' = dropped
      \/ replies' = replies /\ dropped' = dropped \cup {s}
  BY DEF PublishAnswer
<1> HIDE DEF Place
<1> QED  BY <1>1, <1>3, <1>4, QueueNext

\* The steps of a handler, and the delivery to it, are steps of AnsweredQueue.
LEMMA HandleQueue ==
    ASSUME Types, NEW s \in Submissions, Coherent(s), Blameless,
           \A x \in Submissions : Phased(x), Deliver(s) \/ Handle(s)
    PROVE  [Queue!Next]_Queue!vars
<1>1. \A x \in Submissions : x # s => msg'[x] = msg[x] /\ handler'[x] = handler[x]
  BY HandleOthers
<1>2. CASE Deliver(s)
  <2>1. Place[s] = "queued" /\ Place'[s] = "working"
    BY <1>2 DEF Deliver, Types, Phased, Place
  <2>2. {r \in Submissions : Place[r] \in {"working", "answered"}}
          = {r \in Submissions : msg[r] = "delivered"}
    BY DEF Types, Place
  <2>3. UNCHANGED <<replies, dropped>>
    BY <1>2 DEF Deliver
  <2>4. Cardinality({r \in Submissions : Place[r] \in {"working", "answered"}}) < GradeQueueAmount
    BY <1>2, <2>2 DEF Deliver
  <2>5. Place' = [Place EXCEPT ![s] = "working"]
    BY <1>1, <2>1, PlaceGoes
  <2> HIDE DEF Place
  <2> QED  BY <2>1, <2>3, <2>4, <2>5, QueueNext
<1>3. CASE TaskNotFound(s)
  <2>1. Place[s] = "working" /\ Place'[s] = "answered"
    BY <1>3 DEF TaskNotFound, Types, Phased, Place
  <2>2. Place' = [Place EXCEPT ![s] = "answered"]
    BY <1>1, <2>1, PlaceGoes
  <2>3. dropped' = dropped \cup {s} /\ replies' = replies
    BY <1>3 DEF TaskNotFound
  <2> HIDE DEF Place
  <2> QED  BY <2>1, <2>2, <2>3, QueueNext
<1>4. CASE TaskUnavailable(s)
  <2>1. s \in Queue!Out /\ msg'[s] = "queued" /\ UNCHANGED <<replies, dropped>>
    BY <1>4 DEF TaskUnavailable, Types, Phased, Queue!Out
  <2>2. Queue!Return({s})
    BY <1>1, <2>1 DEF Queue!Return, Queue!Out
  <2> QED  BY <2>2 DEF Queue!Next
<1>5. CASE BuildFailed(s) \/ NoCompare(s) \/ EndGrade(s)
  <2>1. /\ handler[s] \in {"received", "grading"}
        /\ handler' = [handler EXCEPT ![s] = "replied"] /\ msg' = msg
    BY <1>5 DEF BuildFailed, NoCompare, EndGrade
  <2>2. \E r \in RightVerdicts(s) : PublishAnswer(s, r)
    BY <1>5, VerdictRight DEF BuildFailed, NoCompare, EndGrade
  <2> QED  BY <2>1, <2>2, PublishQueue
<1>6. CASE StartGrade(s)
  <2>1. Place[s] = "working" /\ Place'[s] = "working"
    BY <1>6 DEF StartGrade, Types, Phased, Place
  <2>2. Place' = [Place EXCEPT ![s] = "working"]
    BY <1>1, <2>1, PlaceGoes
  <2>3. Place' = Place
    BY <2>1, <2>2 DEF Place
  <2>4. /\ dropped' = dropped
        /\ replies' = [replies EXCEPT ![s] = Append(@, NoReply)] \/ replies' = replies
    BY <1>6 DEF StartGrade
  <2>5. CASE replies' = replies
    BY <2>3, <2>4, <2>5 DEF Queue!vars, Place
  <2> HIDE DEF Place
  <2> QED  BY <2>1, <2>3, <2>4, <2>5, QueueNext
<1>7. CASE Ack(s)
  <2>1. Place[s] = "answered" /\ Place'[s] = "acked"
    BY <1>7 DEF Ack, Types, Phased, Place
  <2>2. Place' = [Place EXCEPT ![s] = "acked"]
    BY <1>1, <2>1, PlaceGoes
  <2>3. UNCHANGED <<replies, dropped>>
    BY <1>7 DEF Ack
  <2> HIDE DEF Place
  <2> QED  BY <2>1, <2>2, <2>3, QueueNext
<1> QED  BY <1>2, <1>3, <1>4, <1>5, <1>6, <1>7 DEF Handle

\* The end of the process returns all that is out.
LEMMA DieQueue ==
    ASSUME Types, Die
    PROVE  Queue!Next
<1>1. PICK S \in SUBSET Submissions : S = {r \in Submissions : msg[r] = "delivered"}
  OBVIOUS
<1>2. Queue!Return(S)
  BY <1>1 DEF Types, Die, Queue!Return, Queue!Out
<1> QED  BY <1>1, <1>2 DEF Queue!Next

\* Every step is a step of AnsweredQueue, or changes nothing it knows of.
LEMMA QueueStep ==
    ASSUME IInv, [Next]_vars
    PROVE  [Queue!Next]_Queue!vars
<1> USE DEF IInv
<1>1. ASSUME UNCHANGED <<msg, handler, replies, dropped>>
      PROVE  UNCHANGED Queue!vars
  BY <1>1 DEF Queue!vars
<1>2. ASSUME NEW s \in Submissions, Deliver(s) \/ Handle(s)
      PROVE  [Queue!Next]_Queue!vars
  BY <1>2, HandleQueue
<1>3. ASSUME NEW s \in Submissions,
             \/ \E g \in Groups : Group(s, g)
             \/ \E t \in Cases : Case(s, t) /\ ~ InitFatal(s, t)
      PROVE  [Queue!Next]_Queue!vars
  BY <1>1, <1>3, GoroutinePhased
<1>4. ASSUME NEW s \in Submissions, NEW t \in Cases, InitFatal(s, t)
      PROVE  [Queue!Next]_Queue!vars
  BY <1>4, DieQueue DEF InitFatal
<1>5. CASE Shutdown \/ Restart \/ UNCHANGED vars
  BY <1>1, <1>5 DEF Shutdown, Restart, vars
<1>6. CASE Exit \/ Crash
  BY <1>6, DieQueue DEF Exit, Crash
<1> QED  BY <1>2, <1>3, <1>4, <1>5, <1>6 DEF Next

\* Whatever errors, cancellations and crashes there are, each delivery of a submission
\* comes to one verdict at most, which is right for it, is lost only where dropped says so, and
\* comes before the acknowledgement; and whoever is acknowledged is told nothing more.
THEOREM QueueRefinement == Spec => QueueSpec
<1>1. Init => Queue!Init
  BY DEF Init, Queue!Init
<1>2. IInv /\ [Next]_vars => [Queue!Next]_Queue!vars
  BY QueueStep
<1> QED  BY <1>1, <1>2, Invariant, PTL DEF Spec, QueueSpec, Queue!Spec
==================================================================================
