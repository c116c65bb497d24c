------------------------------- MODULE BoxLease -------------------------------
(***************************************************************************)
(* What the sandbox pools promise to the goroutines that use them: a box   *)
(* is leased to one goroutine at a time, a goroutine has one box at a      *)
(* time, each from the pool it draws from, and a lease ends when its       *)
(* holder gives the box back or when the process dies and all leases with  *)
(* it.  domain/services/isolate.go implements it with buffered channels.   *)
(***************************************************************************)

CONSTANT Allowed  \* the pairs <<box, client>> such that client draws from box's pool

VARIABLE lease    \* the pairs <<box, client>> leased now

Init == lease = {}

Grant(b, c) ==
    /\ <<b, c>> \in Allowed
    /\ \A l \in lease : l[1] # b /\ l[2] # c
    /\ lease' = lease \cup {<<b, c>>}

GiveBack(b, c) ==
    /\ <<b, c>> \in lease
    /\ lease' = lease \ {<<b, c>>}

LoseAll == lease' = {}

Next == (\E l \in Allowed : Grant(l[1], l[2]) \/ GiveBack(l[1], l[2])) \/ LoseAll

Spec == Init /\ [][Next]_lease
===============================================================================
