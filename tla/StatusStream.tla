------------------------------ MODULE StatusStream ------------------------------
(***************************************************************************)
(* What a client of Run sees (cmd/master/master.go): QUEUED first, then    *)
(* RUNNING - again, when the execution had to start again - and at most    *)
(* one terminal status, after which there is nothing.                      *)
(***************************************************************************)
EXTENDS Sequences

CONSTANTS Requests, Terminal

VARIABLE stream  \* per request, the statuses sent

Init == stream = [r \in Requests |-> <<>>]

Ended(r) == stream[r] # <<>> /\ stream[r][Len(stream[r])] \in Terminal

Send(r, s) == stream' = [stream EXCEPT ![r] = Append(@, s)]

Queued(r) == stream[r] = <<>> /\ Send(r, "QUEUED")

Running(r) == stream[r] # <<>> /\ ~ Ended(r) /\ Send(r, "RUNNING")

End(r) == stream[r] # <<>> /\ ~ Ended(r) /\ \E s \in Terminal : Send(r, s)

Next == \E r \in Requests : Queued(r) \/ Running(r) \/ End(r)

Spec == Init /\ [][Next]_stream
=================================================================================
