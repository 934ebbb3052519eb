----------------------------- MODULE LossyFifo -----------------------------
(***************************************************************************)
(* What a RingBuf promises: a LossyQueue, of which it is remembered what   *)
(* has been delivered and what has been lost.                              *)
(***************************************************************************)
EXTENDS LossyQueue

CONSTANT Events

VARIABLES
    out,    \* the events that have been delivered, in order
    lost    \* the events that never will be

fifoVars == <<queue, out, lost>>

Init ==
    /\ queue = << >>
    /\ out = << >>
    /\ lost = {}

Next ==
    \/ \E e \in Events : Put(e) /\ UNCHANGED <<out, lost>>
    \/ Deliver /\ out' = Append(out, Head(queue)) /\ UNCHANGED lost
    \/ \E i \in DOMAIN queue :
           Lose(i) /\ lost' = lost \cup {queue[i]} /\ UNCHANGED out

Spec == Init /\ [][Next]_fifoVars

=============================================================================
