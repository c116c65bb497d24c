------------------------------- MODULE MCGrading -------------------------------
(***************************************************************************)
(* Grading for TLC.  The task has a group of two cases and one of a single *)
(* case, of which one submission solves all and the other fails one, on a  *)
(* pool of two boxes; or two groups that each can fill that pool.          *)
(***************************************************************************)
EXTENDS Grading

MCSubmissions == {"right", "half"}

MCGroups == {"g1", "g2"}
MCCases == {"a", "b", "c"}
MCGroupOf == [t \in MCCases |-> IF t = "c" THEN "g2" ELSE "g1"]
MCSolves == [s \in MCSubmissions |-> IF s = "right" THEN MCCases ELSE {"a", "c"}]

MCOne == {"right"}
MCWideCases == {"a", "b", "c", "d"}
MCWideGroupOf == [t \in MCWideCases |-> IF t \in {"c", "d"} THEN "g2" ELSE "g1"]
MCWideSolves == [s \in MCOne |-> MCWideCases]
================================================================================
