------------------------------ MODULE MCRunProtocol ------------------------------
(***************************************************************************)
(* RunProtocol for TLC: a program that passes, one that does not compile,  *)
(* or one that passes with an output too large to be published.            *)
(***************************************************************************)
EXTENDS RunProtocol

MCRequests == {"good", "bad"}
MCOutcome == [r \in MCRequests |-> IF r = "good" THEN "RUN_PASSED" ELSE "COMPILE_FAILED"]
MCLeaving == {"good"}

MCOne == {"big"}
MCOneOutcome == [r \in MCOne |-> "TOO_LARGE"]
==================================================================================
