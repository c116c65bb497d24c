-------------------------- MODULE MCGenerateTestCases --------------------------
(***************************************************************************)
(* GenerateTestCases for TLC: three test cases, two at a time, whose       *)
(* orders are out of order, equal, or too far apart for int32; and one     *)
(* with an output that is too large.                                       *)
(***************************************************************************)
EXTENDS GenerateTestCases

MCOrders == {<<1, -2, 1>>, <<3, -3, 0>>}
MCAnswer == <<"whole", "message", "whole">>

MCOneOrder == {<<0>>}
MCOneAnswer == <<"tooLarge">>
================================================================================
