----------------------------- MODULE AnsweredQueue -----------------------------
(***************************************************************************)
(* What a queue of the broker and its consumer promise for each message,   *)
(* seen from outside: it is delivered again until it is acknowledged, each *)
(* delivery comes to one final answer at most, only answers that are right *)
(* for the message are given, and after the acknowledgement nothing        *)
(* happens to it any more.  An answer may be lost instead, and that is     *)
(* known of the message.                                                   *)
(***************************************************************************)
EXTENDS Integers, Sequences, FiniteSets

CONSTANTS
    Messages,
    Prefetch,  \* how many messages may be out at a time
    Interim,   \* answers before the final one
    Final      \* per message: the final answers that are right for it

VARIABLES
    place,    \* per message: "queued", "working", "answered", "acked"
    answers,  \* per message, the answers given
    lost      \* messages of which a final answer was lost

vars == <<place, answers, lost>>

Out == {m \in Messages : place[m] \in {"working", "answered"}}

Init ==
    /\ place = [m \in Messages |-> "queued"]
    /\ answers = [m \in Messages |-> <<>>]
    /\ lost = {}

Go(m, from, to) ==
    /\ place[m] = from
    /\ place' = [place EXCEPT ![m] = to]

Give(m, a) == answers' = [answers EXCEPT ![m] = Append(@, a)]

Deliver(m) ==
    /\ Go(m, "queued", "working")
    /\ Cardinality(Out) < Prefetch
    /\ UNCHANGED <<answers, lost>>

Report(m) ==
    /\ place[m] = "working"
    /\ \E a \in Interim : Give(m, a)
    /\ UNCHANGED <<place, lost>>

Answer(m) ==
    /\ Go(m, "working", "answered")
    /\ \E a \in Final[m] : Give(m, a)
    /\ UNCHANGED lost

Lose(m) ==
    /\ Go(m, "working", "answered")
    /\ lost' = lost \cup {m}
    /\ UNCHANGED answers

\* The consumer fails for a message, or ends with all it has.
Return(S) ==
    /\ S \subseteq Out
    /\ place' = [m \in Messages |-> IF m \in S THEN "queued" ELSE place[m]]
    /\ UNCHANGED <<answers, lost>>

Ack(m) ==
    /\ Go(m, "answered", "acked")
    /\ UNCHANGED <<answers, lost>>

Next ==
    \/ \E m \in Messages : Deliver(m) \/ Report(m) \/ Answer(m) \/ Lose(m) \/ Ack(m)
    \/ \E S \in SUBSET Messages : Return(S)

Spec == Init /\ [][Next]_vars
================================================================================
