-------------------------- MODULE RingBufHistory ---------------------------
(***************************************************************************)
(* RingBuf with the history of every event: events are numbered in the     *)
(* order in which their records are reserved, and history variables        *)
(* remember what became of each.  No history variable influences what the  *)
(* program does, except that Events bounds how often the producers emit.   *)
(***************************************************************************)
EXTENDS RingBuf, FiniteSets

ASSUME EventsAssumption == Events \subseteq Nat \ {0}

VARIABLES
    reserved,  \* how many records have been reserved
    received,  \* the events the owner has received, in order
    lostFull,  \* the events lost because the channel was full
    discarded, \* the events lost because the RingBuf was being dropped
    ended      \* whether recv has returned None

history == <<reserved, received, lostFull, discarded, ended>>
hvars == <<vars, history>>

HInit ==
    /\ Init
    /\ reserved = 0
    /\ received = << >>
    /\ lostFull = {}
    /\ discarded = {}
    /\ ended = FALSE

-----------------------------------------------------------------------------

HEmit(p) ==
    /\ reserved + 1 \in Events
    /\ Emit(p, reserved + 1)
    /\ reserved' = reserved + 1
    /\ UNCHANGED <<received, lostFull, discarded, ended>>

HRecv ==
    /\ Recv
    /\ received' = Append(received, Head(chan))
    /\ UNCHANGED <<reserved, lostFull, discarded, ended>>

\* recv returns None: the channel is empty and its sending half is gone.
RecvNone ==
    /\ owner = "active"
    /\ chan = << >>
    /\ ReaderEnded
    /\ ended' = TRUE
    /\ UNCHANGED <<vars, reserved, received, lostFull, discarded>>

HSendOk == CallbackOn /\ SendOk /\ UNCHANGED history

HSendFull ==
    /\ CallbackOn
    /\ SendFull
    /\ lostFull' = lostFull \cup {ring[1].ev}
    /\ UNCHANGED <<reserved, received, discarded, ended>>

HSendClosed ==
    /\ CallbackOn
    /\ SendClosed
    /\ discarded' = discarded \cup {ring[1].ev}
    /\ UNCHANGED <<reserved, received, lostFull, ended>>

HDropDrain ==
    /\ DropDrain
    /\ discarded' = discarded \cup {Head(chan)}
    /\ UNCHANGED <<reserved, received, lostFull, ended>>

\* The steps that decide nothing about any event.
HReaderOther ==
    /\ \/ Open \/ OpenFails \/ CheckStop \/ PollTimeout \/ PollReady
       \/ Release \/ PollReturns
    /\ UNCHANGED history

HDropOther == (DropClose \/ DropJoin \/ DropDone) /\ UNCHANGED history

HOwnerOther == (New \/ NewRejects \/ DropStop) /\ UNCHANGED history

HCommit(p) == Commit(p) /\ UNCHANGED history

HReader == HSendOk \/ HSendFull \/ HSendClosed \/ HReaderOther

HNext ==
    \/ \E p \in Producers : HEmit(p) \/ HCommit(p)
    \/ HRecv \/ RecvNone
    \/ HReader
    \/ HOwnerOther \/ HDropDrain \/ HDropOther

HSpec == HInit /\ [][HNext]_hvars

\* The tracing thread receives in a loop until recv returns None
\* (tracing/mod.rs: while let Some(record) = ring_buf.blocking_recv()), on top
\* of the fairness of FairSpec.
HFairSpec ==
    /\ HSpec
    /\ WF_hvars(HReader)
    /\ WF_hvars(HDropDrain \/ HDropOther)
    /\ WF_hvars(HRecv \/ RecvNone)
    /\ \A p \in Producers : WF_hvars(HCommit(p))

-----------------------------------------------------------------------------

EventsOf(records) == [i \in DOMAIN records |-> records[i].ev]

\* The events the reader has still to handle.  Between the callback and the
\* move of the consumer position the record at the head is not among them.
Unread == IF reader = "releasing" THEN Tail(EventsOf(ring)) ELSE EventsOf(ring)

Elements(s) == {s[i] : i \in DOMAIN s}

Increasing(s) == \A i, j \in DOMAIN s : i < j => s[i] < s[j]

\* The owner receives the events in the order in which their records were
\* reserved and none twice, whatever order they were submitted in, and those
\* still on their way will follow in that order too.
InOrder == Increasing(received \o chan \o Unread)

\* Every event whose record was reserved is in exactly one place: received, on
\* its way, lost on a full channel or discarded by the drop.
NothingVanishes ==
    LET onItsWay == Elements(received \o chan \o Unread)
    IN  /\ 1 .. reserved = onItsWay \cup lostFull \cup discarded
        /\ onItsWay \cap lostFull = {}
        /\ onItsWay \cap discarded = {}
        /\ lostFull \cap discarded = {}

\* RingBuf::dropped is the number of events lost on a full channel, modulo the
\* width of the counter.
DroppedIsExact == dropped = Cardinality(lostFull) % DroppedMod

\* As long as the owner holds its RingBuf no event is lost without being
\* counted: an event is only discarded once the drop has closed the channel.
NoSilentLoss == discarded # {} => owner \notin {"active", "closing"}

\* A record that its producer is still filling in has not been copied.
NoTornRecord ==
    \A i \in DOMAIN ring : ring[i].busy =>
        ring[i].ev \notin Elements(received \o chan) \cup lostFull \cup discarded

\* The receiver never sees another event after recv has returned None: the
\* stream it serves has really ended.
NoneIsFinal == [][ended => UNCHANGED <<received, chan>>]_hvars

\* Every event is read by a reader that has the ring buffer open: no record is
\* stuck in the ring until another one arrives, not even behind one that was
\* reserved earlier and submitted later.
EveryRecordIsRead ==
    \A e \in Events :
        e \in Elements(Unread) ~> e \notin Elements(Unread) \/ ReaderEnded \/ owner # "active"

\* A receiver does not wait forever for a reader that could not open the map:
\* recv tells it by returning None, unless the RingBuf is dropped first.
OpenFailureEndsStream == reader = "failed" ~> ended \/ owner # "active"

\* A RingBuf is a lossy queue.
Fifo == INSTANCE LossyFifo WITH
            queue <- chan \o Unread,
            out <- received,
            lost <- lostFull \cup discarded

ImplementsLossyFifo == Fifo!Spec

=============================================================================
