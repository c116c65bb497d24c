---------------------------- MODULE MCConfigReload ----------------------------
(***************************************************************************)
(* ConfigReload for TLC: a runner that is given a build script, then taken *)
(* away, and a compare that gets a program, a failing build, or none.      *)
(***************************************************************************)
EXTENDS ConfigReload

MCRunners == {"r"}
MCCompares == {"c"}
MCJobs == {"j"}
MCKind == <<[r |-> "plain", c |-> "program"],
            [r |-> "built", c |-> "failing"],
            [r |-> "none", c |-> "noProgram"],
            [r |-> "built", c |-> "program"]>>
================================================================================
