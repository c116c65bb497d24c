----------------------------- MODULE MCScriptTests -----------------------------
(***************************************************************************)
(* ScriptTests for TLC: a runner test whose build fails, and compare tests *)
(* of which one prints too much and one is incomplete.                     *)
(*                                                                         *)
(* The modules without state are checked in the same run: there are        *)
(* initial states of their own, without successors, each with one input as *)
(* its sample.                                                             *)
(***************************************************************************)
EXTENDS ScriptTests, CaseVerdict, Settings, GradeResults

MCRunnerTests == {"broken"}
MCCompareTests == {"equal", "loud", "nameless"}
MCTests == MCRunnerTests \cup MCCompareTests
MCIncomplete == {"nameless"}
MCHasBuild == {"broken", "equal"}
MCHuge == {"loud"}
MCBuildEnds == [t \in MCTests |-> IF t = "broken" THEN "failed" ELSE "ok"]
MCRunEnds == [t \in MCTests |-> IF t = "loud" THEN "failed" ELSE "ok"]

VARIABLE sample  \* an input of one of the modules without state, and which of them

NoSample == [of |-> "none", value |-> 0]

\* Sequences of at most n members of S.
Upto(n, S) == UNION {[1 .. m -> S] : m \in 0 .. n}

MCInit ==
    \/ Init /\ sample = NoSample
    \/ /\ Init /\ queue["compare_test"] = <<"equal", "loud", "nameless">>
       /\ \/ \E c \in Outcomes : Possible(c) /\ sample = [of |-> "outcome", value |-> c]
          \/ \E l \in [Fields -> -1 .. 1] : sample = [of |-> "limits", value |-> l]
          \/ \E s \in Upto(4, 0 .. 4) : sample = [of |-> "chunks", value |-> s]
          \/ \E g \in Upto(3, Upto(2, 0 .. 3)) : sample = [of |-> "memory", value |-> g]
          \/ \E r \in [summary : 0 .. 3, rest : Upto(2, 0 .. 4), detail : Upto(2, 0 .. 4)] :
                sample = [of |-> "sizes", value |-> r]

MCNext == sample = NoSample /\ Next /\ UNCHANGED sample

MCSpec == MCInit /\ [][MCNext]_<<vars, sample>> /\ Fairness

\* PassedIsEarned of each outcome of a test case: only a program whose comparison ended
\* passes, with a failure of the compare script itself as the only exception.
PassesEarned == sample.of = "outcome" => PassedIsEarned(sample.value)

\* ErrorIsTheGraders of each outcome: no program makes an error of the submission.
ErrorsTheGraders == sample.of = "outcome" => ErrorIsTheGraders(sample.value)

\* RunAndGradeAgree of each outcome: both executors take the same programs for good.
ExecutorsAgree == sample.of = "outcome" => RunAndGradeAgree(sample.value)

\* NeverUnbounded of limits that are negative, zero and positive.
LimitsBounded == sample.of = "limits" => NeverUnbounded(sample.value)

\* CaptureExact of an output in up to four chunks.
CapturesExact == sample.of = "chunks" => CaptureExact(sample.value)

\* AverageBetween of up to three groups of up to two cases.
AveragesBetween == sample.of = "memory" => AverageBetween(sample.value)

\* BoundedBest of results of up to two cases.
ResultsBounded == sample.of = "sizes" => BoundedBest(sample.value)
================================================================================
