------------------------------ MODULE RingBuf ------------------------------
(***************************************************************************)
(* collections::RingBuf: a reader thread that copies the records of an     *)
(* eBPF ring buffer into a bounded tokio channel, and the owner of the     *)
(* RingBuf, which receives from that channel and finally drops it.         *)
(*                                                                         *)
(*   producers --Reserve/Submit--> ring --Callback--> chan --Recv--> owner *)
(*                                                                         *)
(* The reader runs libbpf's ring_buffer__poll: it waits until the ring is  *)
(* not empty or POLL_TIMEOUT has passed, then hands every committed record *)
(* at the head of the ring to the callback, and stores the consumer        *)
(* position only after the callback has returned.  It goes on for as long  *)
(* as there are committed records, also ones that arrive meanwhile.        *)
(***************************************************************************)
EXTENDS EventRing

CONSTANTS
    Capacity,    \* userspace_capacity
    MapIsRingBuf,\* whether the map given to new has type BPF_MAP_TYPE_RINGBUF
    DroppedMod   \* the counter `dropped` wraps at this value, 2^64 in the code

ASSUME CapacityAssumption == Capacity \in Nat
ASSUME MapAssumption == MapIsRingBuf \in BOOLEAN
ASSUME DroppedModAssumption == DroppedMod \in Nat \ {0}

VARIABLES
    chan,    \* the records buffered in the channel
    dropped, \* the AtomicU64 of records dropped on a full channel
    stop,    \* the AtomicBool that tells the reader to stop
    closed,  \* whether the receiving half has been closed
    reader,  \* where the reader thread is
    owner    \* where the owner is in the life of its RingBuf

vars == <<ring, chan, dropped, stop, closed, reader, owner>>

\* Mutants: the sending half outlives a thread that failed to open the ring
\* buffer, or the channel counts as ended while the reader is between two polls.
EndedIfStopped == reader = "stopped"
EndedBetweenPolls == reader \notin {"opening", "processing", "releasing"}

\* The reader holds the sending half of the channel until it is in one of these.
ReaderEnded == reader \in {"failed", "stopped"}

ReaderStates == {"none", "opening", "checking", "polling", "processing",
                 "releasing", "failed", "stopped"}
OwnerStates == {"unborn", "rejected", "active", "closing", "joining",
                "draining", "gone"}

Init ==
    /\ EmptyRing
    /\ chan = << >>
    /\ dropped = 0
    /\ stop = FALSE
    /\ closed = FALSE
    /\ reader = "none"
    /\ owner = "unborn"

-----------------------------------------------------------------------------
(***************************************************************************)
(* The eBPF side.                                                          *)
(***************************************************************************)

Emit(p, e) ==
    /\ Reserve(p, e)
    /\ UNCHANGED <<chan, dropped, stop, closed, reader, owner>>

Commit(p) ==
    /\ Submit(p)
    /\ UNCHANGED <<chan, dropped, stop, closed, reader, owner>>

-----------------------------------------------------------------------------
(***************************************************************************)
(* The owner.                                                              *)
(***************************************************************************)

\* RingBuf::new validates its arguments and spawns the reader thread.
New ==
    /\ owner = "unborn"
    /\ MapIsRingBuf
    /\ Capacity # 0
    /\ owner' = "active"
    /\ reader' = "opening"
    /\ UNCHANGED <<ring, chan, dropped, stop, closed>>

\* RingBuf::new returns an error: an argument is invalid or, whatever the
\* arguments are, the thread cannot be spawned.
NewRejects ==
    /\ owner = "unborn"
    /\ owner' = "rejected"
    /\ UNCHANGED <<ring, chan, dropped, stop, closed, reader>>

\* recv, blocking_recv or try_recv return the oldest buffered record.
Recv ==
    /\ owner = "active"
    /\ chan # << >>
    /\ chan' = Tail(chan)
    /\ UNCHANGED <<ring, dropped, stop, closed, reader, owner>>

\* Mutant: the drop relies on the reader noticing the closed channel.
DropStopForgotten ==
    /\ owner = "active"
    /\ owner' = "closing"
    /\ UNCHANGED <<ring, chan, dropped, stop, closed, reader>>

\* Drop, first step: the reader is asked to stop.
DropStop ==
    /\ owner = "active"
    /\ stop' = TRUE
    /\ owner' = "closing"
    /\ UNCHANGED <<ring, chan, dropped, closed, reader>>

\* Drop, second step: the receiving half is closed.
DropClose ==
    /\ owner = "closing"
    /\ closed' = TRUE
    /\ owner' = "joining"
    /\ UNCHANGED <<ring, chan, dropped, stop, reader>>

\* Drop, third step: join returns once the reader thread has ended.
DropJoin ==
    /\ owner = "joining"
    /\ ReaderEnded
    /\ owner' = "draining"
    /\ UNCHANGED <<ring, chan, dropped, stop, closed, reader>>

\* The fields are dropped: the receiver pops and frees what is still buffered.
DropDrain ==
    /\ owner = "draining"
    /\ chan # << >>
    /\ chan' = Tail(chan)
    /\ UNCHANGED <<ring, dropped, stop, closed, reader, owner>>

DropDone ==
    /\ owner = "draining"
    /\ chan = << >>
    /\ owner' = "gone"
    /\ UNCHANGED <<ring, chan, dropped, stop, closed, reader>>

-----------------------------------------------------------------------------
(***************************************************************************)
(* The reader thread.                                                      *)
(***************************************************************************)

Open ==
    /\ reader = "opening"
    /\ reader' = "checking"
    /\ UNCHANGED <<ring, chan, dropped, stop, closed, owner>>

\* The map cannot be added or the ring buffer cannot be built: the thread
\* returns, which drops the sending half.
OpenFails ==
    /\ reader = "opening"
    /\ reader' = "failed"
    /\ UNCHANGED <<ring, chan, dropped, stop, closed, owner>>

\* The condition of the reader's loop.
CheckStop ==
    /\ reader = "checking"
    /\ reader' = IF stop THEN "stopped" ELSE "polling"
    /\ UNCHANGED <<ring, chan, dropped, stop, closed, owner>>

\* Mutant: the busy bit is not looked at.
HeadPresent == ~ EmptyRing

\* There is a record at the head of the ring, and it is committed.
HeadReady == ~ EmptyRing /\ ~ ring[1].busy

\* poll waits for POLL_TIMEOUT without being woken by a committed record.
PollTimeout ==
    /\ reader = "polling"
    /\ ~ HeadReady
    /\ reader' = "checking"
    /\ UNCHANGED <<ring, chan, dropped, stop, closed, owner>>

\* Mutant: the reader is only woken when the ring is full.
PollReadyWhenFull ==
    /\ reader = "polling"
    /\ Len(ring) = RingSlots
    /\ reader' = "processing"
    /\ UNCHANGED <<ring, chan, dropped, stop, closed, owner>>

\* The kernel reports the ring readable whenever it is not empty, even if the
\* record at its head is still busy.
PollReady ==
    /\ reader = "polling"
    /\ ~ EmptyRing
    /\ reader' = "processing"
    /\ UNCHANGED <<ring, chan, dropped, stop, closed, owner>>

\* Mutants of the three outcomes: an unbounded channel, one that is not first in
\* first out, one that evicts its oldest record, a counter that saturates, and a
\* callback that takes every error for a closed channel.
SendOkUnbounded ==
    /\ ~ closed
    /\ chan' = Append(chan, Head(ring).ev)
    /\ UNCHANGED <<dropped, stop>>

SendOkInFront ==
    /\ ~ closed
    /\ Len(chan) < Capacity
    /\ chan' = << Head(ring).ev >> \o chan
    /\ UNCHANGED <<dropped, stop>>

SendFullEvicts ==
    /\ ~ closed
    /\ Len(chan) >= Capacity
    /\ chan' = Append(Tail(chan), Head(ring).ev)
    /\ dropped' = (dropped + 1) % DroppedMod
    /\ UNCHANGED stop

SendFullSaturates ==
    /\ ~ closed
    /\ Len(chan) >= Capacity
    /\ dropped' = IF dropped + 1 < DroppedMod THEN dropped + 1 ELSE dropped
    /\ UNCHANGED <<chan, stop>>

SendClosedOnAnyError ==
    /\ closed \/ Len(chan) >= Capacity
    /\ stop' = TRUE
    /\ UNCHANGED <<chan, dropped>>

\* The three outcomes of try_send in the callback.
SendOk ==
    /\ ~ closed
    /\ Len(chan) < Capacity
    /\ chan' = Append(chan, Head(ring).ev)
    /\ UNCHANGED <<dropped, stop>>

SendFull ==
    /\ ~ closed
    /\ Len(chan) >= Capacity
    /\ dropped' = (dropped + 1) % DroppedMod
    /\ UNCHANGED <<chan, stop>>

SendClosed ==
    /\ closed
    /\ stop' = TRUE
    /\ UNCHANGED <<chan, dropped>>

\* The callback is called for the committed record at the head of the ring.
CallbackOn ==
    /\ reader = "processing"
    /\ HeadReady
    /\ reader' = "releasing"
    /\ UNCHANGED <<ring, closed, owner>>

Callback == CallbackOn /\ (SendOk \/ SendFull \/ SendClosed)

\* Mutant: the consumer position is not moved.
ReleaseNothing ==
    /\ reader = "releasing"
    /\ reader' = "processing"
    /\ UNCHANGED <<ring, chan, dropped, stop, closed, owner>>

\* The callback has returned 0, so the consumer position is moved.
Release ==
    /\ reader = "releasing"
    /\ ring' = Tail(ring)
    /\ reader' = "processing"
    /\ UNCHANGED <<chan, dropped, stop, closed, owner>>

\* poll returns: the ring is empty or the record at its head is busy.
PollReturns ==
    /\ reader = "processing"
    /\ ~ HeadReady
    /\ reader' = "checking"
    /\ UNCHANGED <<ring, chan, dropped, stop, closed, owner>>

-----------------------------------------------------------------------------

Reader ==
    \/ Open \/ OpenFails \/ CheckStop \/ PollTimeout \/ PollReady
    \/ Callback \/ Release \/ PollReturns

Dropping == DropClose \/ DropJoin \/ DropDrain \/ DropDone

Next ==
    \/ \E p \in Producers, e \in Events : Emit(p, e)
    \/ \E p \in Producers : Commit(p)
    \/ New \/ NewRejects \/ Recv \/ DropStop \/ Dropping
    \/ Reader

Spec == Init /\ [][Next]_vars

\* The reader thread is scheduled, a drop that has begun runs on, and an eBPF
\* program that has reserved a record terminates and so submits it.  Nobody is
\* obliged to emit, to receive or to drop.
FairSpec ==
    /\ Spec
    /\ WF_vars(Reader)
    /\ WF_vars(Dropping)
    /\ \A p \in Producers : WF_vars(Commit(p))

-----------------------------------------------------------------------------

\* The types, with the bounds of the two buffers.
TypeOK ==
    /\ RingTypeOK
    /\ chan \in Seq(Events)
    /\ Len(chan) <= Capacity
    /\ dropped \in 0 .. (DroppedMod - 1)
    /\ stop \in BOOLEAN
    /\ closed \in BOOLEAN
    /\ reader \in ReaderStates
    /\ owner \in OwnerStates

\* While the owner holds its RingBuf, a reader that got the ring buffer open
\* keeps reading: neither the stop flag nor a closed channel ends it behind
\* the owner's back (ring_buf.rs: "The reader thread stops once the RingBuf is
\* dropped").
ReaderStopsOnlyOnDrop ==
    owner = "active" => reader # "stopped" /\ ~ stop /\ ~ closed

\* Dropping a RingBuf returns.  Drop joins the reader, and the comment there
\* says the reader notices the flag at least every POLL_TIMEOUT.
DropReturns == owner = "closing" ~> owner = "gone"

\* What the code does guarantee: once the eBPF programs have stopped emitting for
\* good, every drop that begins or has begun returns,
\* whatever the two threads were doing and however full the channel is.
DropReturnsWhenQuiet ==
    (<>[][\A p \in Producers, e \in Events : ~ Emit(p, e)]_vars) => DropReturns

\* RingBuf::new says that it returns an error if the ring buffer cannot be
\* opened, so nobody ever holds a RingBuf whose reader failed to open it.
NewReportsOpenFailure == reader = "failed" => owner = "rejected"

=============================================================================
