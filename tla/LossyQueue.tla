---------------------------- MODULE LossyQueue -----------------------------
(***************************************************************************)
(* A queue that may lose any of its events but never reorders, repeats or  *)
(* invents one.  This is all that the tracing thread knows of the ring     *)
(* buffer, the reader thread and the channel between it and the eBPF       *)
(* programs.                                                               *)
(***************************************************************************)
EXTENDS SequencesExt

VARIABLE queue  \* the events on their way

Put(e) == queue' = Append(queue, e)

Deliver == queue # << >> /\ queue' = Tail(queue)

Lose(i) == i \in DOMAIN queue /\ queue' = RemoveAt(queue, i)

=============================================================================
