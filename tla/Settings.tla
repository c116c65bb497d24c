-------------------------------- MODULE Settings --------------------------------
(***************************************************************************)
(* The limits under which a program runs: WithSafeLimits                   *)
(* (domain/models/limit.go), which the handlers of run and grade apply,    *)
(* and getLimitArgs (domain/services/isolate.go), which hands them to      *)
(* isolate.  Numbers stand for the fields of Limit in their own units.     *)
(***************************************************************************)
EXTENDS Integers

Fields == {"CPUTime", "CPUExtraTime", "WallTime", "Memory", "Stack", "MaxOpenFiles", "MaxFileSize"}

Safe == [CPUTime |-> 5, CPUExtraTime |-> 3, WallTime |-> 5, Memory |-> 524288,
         Stack |-> 262144, MaxOpenFiles |-> 10, MaxFileSize |-> 5120]

\* Mutant: only negative limits are replaced.
WithSafeLimitsNegative(l) == [f \in Fields |-> IF l[f] < 0 THEN Safe[f] ELSE l[f]]

WithSafeLimits(l) == [f \in Fields |-> IF l[f] <= 0 THEN Safe[f] ELSE l[f]]

\* The options isolate gets, with their values: it is left without limit where the
\* field is 0.
LimitArgs(l) == [f \in {g \in Fields : l[g] # 0} |-> l[f]]

--------------------------------------------------------------------------------

\* The comment of WithSafeLimits: "ensuring isolate never runs unbounded".  Whatever
\* limits a task has, isolate gets every option with a positive value, and its own
\* where it has one.
NeverUnbounded(l) ==
    LET args == LimitArgs(WithSafeLimits(l)) IN
    /\ DOMAIN args = Fields
    /\ \A f \in Fields : args[f] > 0 /\ (l[f] > 0 => args[f] = l[f])
================================================================================
