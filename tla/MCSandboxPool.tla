---------------------------- MODULE MCSandboxPool ----------------------------
(***************************************************************************)
(* SandboxPool for TLC: more goroutines than boxes in each pool.  The      *)
(* goroutines of a queue are alike.                                        *)
(***************************************************************************)
EXTENDS SandboxPool, TLC

Symmetry == Permutations(RunClients) \cup Permutations(GradeClients)
==============================================================================
