--------------------------- MODULE RingBufProofs ---------------------------
(***************************************************************************)
(* What TLAPS proves about RingBuf and RingBufHistory, for all values of   *)
(* the constants.                                                          *)
(***************************************************************************)
EXTENDS RingBufHistory, FiniteSetTheorems, SequenceTheorems, TLAPS

-----------------------------------------------------------------------------
(***************************************************************************)
(* The ring alone.                                                         *)
(***************************************************************************)

LEMMA ReserveTypeOK ==
    ASSUME RingTypeOK, NEW p \in Producers, NEW e \in Events, Reserve(p, e)
    PROVE  RingTypeOK'
<1> DEFINE r == [ev |-> e, by |-> p, busy |-> TRUE]
<1>1. r \in Record /\ ring' = Append(ring, r)
  BY DEF Reserve, Record
<1>2. ring' \in Seq(Record) /\ Len(ring') = Len(ring) + 1
  BY <1>1 DEF RingTypeOK
<1>3. Len(ring') <= RingSlots
  BY <1>2, RingSlotsAssumption DEF Reserve, RingTypeOK
<1>4. ASSUME NEW i \in DOMAIN ring', NEW j \in DOMAIN ring', NEW q \in Producers,
             Reserved(q, i)', Reserved(q, j)'
      PROVE  i = j
  BY <1>1, <1>4 DEF RingTypeOK, Reserved, Reserve
<1> QED
  BY <1>2, <1>3, <1>4 DEF RingTypeOK

LEMMA ClearBusy ==
    ASSUME NEW r \in Record
    PROVE  /\ [r EXCEPT !.busy = FALSE] \in Record
           /\ [r EXCEPT !.busy = FALSE].ev = r.ev
  BY DEF Record

LEMMA SubmitTypeOK ==
    ASSUME RingTypeOK, NEW p \in Producers, Submit(p)
    PROVE  RingTypeOK'
<1>1. PICK k \in DOMAIN ring :
          Reserved(p, k) /\ ring' = [ring EXCEPT ![k].busy = FALSE]
  BY DEF Submit
<1>2. ring[k] \in Record /\ [ring[k] EXCEPT !.busy = FALSE] \in Record
  BY ClearBusy DEF RingTypeOK
<1>3. ring' = [ring EXCEPT ![k] = [ring[k] EXCEPT !.busy = FALSE]]
  BY <1>1
<1>4. ring' \in Seq(Record) /\ Len(ring') = Len(ring)
  BY <1>2, <1>3, ExceptSeq DEF RingTypeOK
<1>5. \A i \in DOMAIN ring : ring'[i].busy => ring'[i] = ring[i]
  BY <1>3, <1>2 DEF RingTypeOK, Record
<1> QED
  BY <1>4, <1>5 DEF RingTypeOK, Reserved

LEMMA TailTypeOK ==
    ASSUME RingTypeOK, ring # << >>, ring' = Tail(ring)
    PROVE  RingTypeOK'
<1>1. ring' \in Seq(Record) /\ Len(ring') = Len(ring) - 1
  BY DEF RingTypeOK
<1>2. \A i \in DOMAIN ring' : i + 1 \in DOMAIN ring /\ ring'[i] = ring[i + 1]
  BY DEF RingTypeOK
<1> QED
  BY <1>1, <1>2, RingSlotsAssumption DEF RingTypeOK, Reserved

LEMMA UnchangedTypeOK == ASSUME RingTypeOK, UNCHANGED ring PROVE RingTypeOK'
  BY DEF RingTypeOK, Reserved

-----------------------------------------------------------------------------
(***************************************************************************)
(* Types.                                                                  *)
(***************************************************************************)

\* While the reader moves the consumer position, the record it has copied is
\* still at the head of the ring: only the reader takes records out.
CopiedIsHead == reader = "releasing" => HeadReady

TypeInv == TypeOK /\ CopiedIsHead

LEMMA CopiedIsHeadStep ==
    ASSUME TypeInv, [Next]_vars
    PROVE  CopiedIsHead'
<1> USE DEF CopiedIsHead, HeadReady, EmptyRing
<1>0. ring \in Seq(Record)
  BY DEF TypeInv, TypeOK, RingTypeOK
<1>1. ASSUME NEW p \in Producers, NEW e \in Events, Emit(p, e) PROVE CopiedIsHead'
  BY <1>0, <1>1 DEF Emit, Reserve, TypeInv
<1>2. ASSUME NEW p \in Producers, Commit(p) PROVE CopiedIsHead'
  <2>1. PICK k \in DOMAIN ring :
            Reserved(p, k) /\ ring' = [ring EXCEPT ![k].busy = FALSE]
    BY <1>2 DEF Commit, Submit
  <2>2. SUFFICES ASSUME reader = "releasing" PROVE HeadReady'
    BY <1>2 DEF Commit
  <2>3. k # 1 /\ ring # << >>
    BY <2>1, <2>2 DEF TypeInv, Reserved
  <2>4. ring'[1] = ring[1] /\ DOMAIN ring' = DOMAIN ring
    BY <1>0, <2>1, <2>3
  <2> QED
    BY <1>0, <2>2, <2>3, <2>4 DEF TypeInv
<1>3. CASE New \/ NewRejects \/ Recv \/ DropStop \/ Dropping
  BY <1>3 DEF New, NewRejects, Recv, DropStop, Dropping, DropClose, DropJoin,
              DropDrain, DropDone, TypeInv
<1>4. CASE Open \/ OpenFails \/ CheckStop \/ PollTimeout \/ PollReady \/ PollReturns \/ Release
  BY <1>4 DEF Open, OpenFails, CheckStop, PollTimeout, PollReady, PollReturns, Release
<1>5. CASE Callback
  BY <1>5 DEF Callback, CallbackOn
<1>6. CASE UNCHANGED vars
  BY <1>6 DEF vars, TypeInv
<1> QED
  BY <1>1, <1>2, <1>3, <1>4, <1>5, <1>6 DEF Next, Reader

\* Every step of the RingBuf preserves the types and the bounds.
LEMMA TypeStep == ASSUME TypeInv, [Next]_vars PROVE TypeInv'
<1> USE DEF TypeOK, ReaderStates, OwnerStates
<1> SUFFICES TypeOK'
  BY CopiedIsHeadStep DEF TypeInv
<1>0. TypeOK /\ CopiedIsHead
  BY DEF TypeInv
<1>1. ASSUME NEW p \in Producers, NEW e \in Events, Emit(p, e) PROVE TypeOK'
  BY <1>0, <1>1, ReserveTypeOK DEF Emit
<1>2. ASSUME NEW p \in Producers, Commit(p) PROVE TypeOK'
  BY <1>0, <1>2, SubmitTypeOK DEF Commit
<1>3. CASE New \/ NewRejects \/ DropStop \/ DropClose \/ DropJoin \/ DropDone
  BY <1>0, <1>3, UnchangedTypeOK
     DEF New, NewRejects, DropStop, DropClose, DropJoin, DropDone
<1>4. CASE Recv \/ DropDrain
  BY <1>0, <1>4, UnchangedTypeOK, CapacityAssumption DEF Recv, DropDrain
<1>5. CASE Open \/ OpenFails \/ CheckStop \/ PollTimeout \/ PollReady \/ PollReturns
  BY <1>0, <1>5, UnchangedTypeOK
     DEF Open, OpenFails, CheckStop, PollTimeout, PollReady, PollReturns
<1>6. CASE Callback
  <2>1. RingTypeOK'
    BY <1>0, <1>6, UnchangedTypeOK DEF Callback, CallbackOn
  <2>2. ring \in Seq(Record) /\ ring # << >>
    BY <1>0, <1>6 DEF Callback, CallbackOn, HeadReady, EmptyRing, RingTypeOK
  <2>3. Head(ring) \in Record
    BY <2>2
  <2>4. Head(ring).ev \in Events
    BY <2>3 DEF Record
  <2>5. CASE SendOk
    BY <1>0, <1>6, <2>1, <2>4, <2>5, CapacityAssumption DEF Callback, CallbackOn, SendOk
  <2>6. CASE SendFull
    BY <1>0, <1>6, <2>1, <2>6, DroppedModAssumption DEF Callback, CallbackOn, SendFull
  <2>7. CASE SendClosed
    BY <1>0, <1>6, <2>1, <2>7 DEF Callback, CallbackOn, SendClosed
  <2> QED
    BY <1>6, <2>5, <2>6, <2>7 DEF Callback
<1>7. CASE Release
  <2>1. ring # << >>
    BY <1>0, <1>7 DEF Release, CopiedIsHead, HeadReady, EmptyRing
  <2> QED
    BY <1>0, <1>7, <2>1, TailTypeOK DEF Release
<1>8. CASE UNCHANGED vars
  BY <1>0, <1>8, UnchangedTypeOK DEF vars
<1> QED
  BY <1>1, <1>2, <1>3, <1>4, <1>5, <1>6, <1>7, <1>8 DEF Next, Reader, Dropping

LEMMA TypeInit == ASSUME Init PROVE TypeInv
<1>1. RingTypeOK
  BY RingSlotsAssumption DEF Init, RingTypeOK, EmptyRing
<1>2. chan \in Seq(Events) /\ Len(chan) <= Capacity
  BY CapacityAssumption DEF Init
<1>3. dropped \in 0 .. (DroppedMod - 1)
  BY DroppedModAssumption DEF Init
<1> QED
  BY <1>1, <1>2, <1>3 DEF Init, TypeInv, TypeOK, CopiedIsHead, ReaderStates, OwnerStates

\* The types hold in every behaviour, and with them the bounds: the ring and the
\* channel never hold more than they are made for, and no eBPF program has two
\* records reserved at once.
THEOREM TypeCorrect == Spec => []TypeOK
<1>1. Init => TypeInv
  BY TypeInit
<1>2. TypeInv => TypeOK
  BY DEF TypeInv
<1> QED
  BY <1>1, <1>2, TypeStep, PTL DEF Spec

-----------------------------------------------------------------------------
(***************************************************************************)
(* The life of the RingBuf.                                                *)
(***************************************************************************)

\* There is no reader before New, the channel is closed exactly from DropClose
\* on, and until the drop nothing has told the reader to stop.
LifeInv ==
    /\ owner \in {"unborn", "rejected"} => reader = "none" /\ ~ stop
    /\ closed <=> owner \in {"joining", "draining", "gone"}
    /\ owner = "active" => ~ stop /\ reader # "stopped"

LEMMA LifeStep == ASSUME LifeInv, [Next]_vars PROVE LifeInv'
<1> USE DEF LifeInv
<1>1. ASSUME NEW p \in Producers, NEW e \in Events, Emit(p, e) PROVE LifeInv'
  BY <1>1 DEF Emit
<1>2. ASSUME NEW p \in Producers, Commit(p) PROVE LifeInv'
  BY <1>2 DEF Commit
<1>3. CASE New \/ NewRejects \/ Recv \/ DropStop
  BY <1>3 DEF New, NewRejects, Recv, DropStop
<1>4. CASE Dropping
  BY <1>4 DEF Dropping, DropClose, DropJoin, DropDrain, DropDone
<1>5. CASE Open \/ OpenFails \/ CheckStop \/ PollTimeout \/ PollReady \/ PollReturns \/ Release
  BY <1>5 DEF Open, OpenFails, CheckStop, PollTimeout, PollReady, PollReturns, Release
<1>6. CASE Callback
  BY <1>6 DEF Callback, CallbackOn, SendOk, SendFull, SendClosed
<1>7. CASE UNCHANGED vars
  BY <1>7 DEF vars
<1> QED
  BY <1>1, <1>2, <1>3, <1>4, <1>5, <1>6, <1>7 DEF Next, Reader

\* While the owner holds its RingBuf, neither the stop flag nor a closed channel
\* ends a reader that has the ring buffer open.
THEOREM ReaderOutlivesOwner == Spec => []ReaderStopsOnlyOnDrop
<1>1. Init => LifeInv
  BY DEF Init, LifeInv
<1>2. LifeInv => ReaderStopsOnlyOnDrop
  BY DEF LifeInv, ReaderStopsOnlyOnDrop
<1> QED
  BY <1>1, <1>2, LifeStep, PTL DEF Spec

-----------------------------------------------------------------------------
(***************************************************************************)
(* How each step changes the sequence of events the reader has to handle.  *)
(***************************************************************************)

LEMMA EventsOfType ==
    ASSUME NEW r \in Seq(Record)
    PROVE  /\ EventsOf(r) \in Seq(Events)
           /\ Len(EventsOf(r)) = Len(r)
           /\ \A i \in 1 .. Len(r) : EventsOf(r)[i] = r[i].ev
<1>1. DOMAIN r = 1 .. Len(r) /\ Len(r) \in Nat
  OBVIOUS
<1>2. ASSUME NEW i \in 1 .. Len(r) PROVE r[i].ev \in Events
  <2>1. r[i] \in Record
    OBVIOUS
  <2> QED
    BY <2>1 DEF Record
<1> QED
  BY <1>1, <1>2 DEF EventsOf

LEMMA UnreadType == ASSUME TypeInv PROVE Unread \in Seq(Events)
<1>1. EventsOf(ring) \in Seq(Events) /\ Len(EventsOf(ring)) = Len(ring)
  BY EventsOfType DEF TypeInv, TypeOK, RingTypeOK
<1>2. CASE reader = "releasing"
  <2>1. EventsOf(ring) # << >>
    BY <1>1, <1>2 DEF TypeInv, TypeOK, RingTypeOK, CopiedIsHead, HeadReady, EmptyRing
  <2> QED
    BY <1>1, <1>2, <2>1 DEF Unread
<1>3. CASE reader # "releasing"
  BY <1>1, <1>3 DEF Unread
<1> QED
  BY <1>2, <1>3

LEMMA EmitUnread ==
    ASSUME TypeInv, NEW p \in Producers, NEW e \in Events, Emit(p, e)
    PROVE  Unread' = Append(Unread, e)
<1>1. RingTypeOK /\ RingTypeOK' /\ reader' = reader
  BY ReserveTypeOK DEF TypeInv, TypeOK, Emit
<1>2. /\ EventsOf(ring) \in Seq(Events) /\ Len(EventsOf(ring)) = Len(ring)
      /\ EventsOf(ring') \in Seq(Events) /\ Len(EventsOf(ring')) = Len(ring')
  BY <1>1, EventsOfType DEF RingTypeOK
<1>3. EventsOf(ring') = Append(EventsOf(ring), e)
  <2> DEFINE r == [ev |-> e, by |-> p, busy |-> TRUE]
  <2>1. ring \in Seq(Record) /\ r \in Record /\ ring' = Append(ring, r) /\ r.ev = e
    BY DEF TypeInv, TypeOK, RingTypeOK, Emit, Reserve, Record
  <2>2. Len(ring') = Len(ring) + 1 /\ ring'[Len(ring) + 1] = r
        /\ \A i \in 1 .. Len(ring) : ring'[i] = ring[i]
    BY <2>1
  <2>3. \A i \in 1 .. Len(ring') : EventsOf(ring')[i] = ring'[i].ev
    BY <1>1, EventsOfType DEF RingTypeOK
  <2>4. \A i \in 1 .. Len(ring) : EventsOf(ring)[i] = ring[i].ev
    BY <1>1, EventsOfType DEF RingTypeOK
  <2> HIDE DEF r
  <2> QED
    BY <1>2, <2>1, <2>2, <2>3, <2>4
<1>4. CASE reader = "releasing"
  <2>1. EventsOf(ring) # << >>
    BY <1>2, <1>4 DEF TypeInv, TypeOK, RingTypeOK, CopiedIsHead, HeadReady, EmptyRing
  <2>2. Tail(Append(EventsOf(ring), e)) = Append(Tail(EventsOf(ring)), e)
    BY <1>2, <2>1, HeadTailAppend
  <2> QED
    BY <1>1, <1>3, <1>4, <2>2 DEF Unread
<1>5. CASE reader # "releasing"
  BY <1>1, <1>3, <1>5 DEF Unread
<1> QED
  BY <1>4, <1>5

LEMMA CommitUnread ==
    ASSUME TypeInv, NEW p \in Producers, Commit(p)
    PROVE  Unread' = Unread
<1>1. RingTypeOK /\ reader' = reader /\ ring \in Seq(Record)
  BY DEF TypeInv, TypeOK, RingTypeOK, Commit
<1>2. PICK k \in DOMAIN ring : ring' = [ring EXCEPT ![k].busy = FALSE]
  BY DEF Commit, Submit
<1>3. ring[k] \in Record /\ [ring[k] EXCEPT !.busy = FALSE].ev = ring[k].ev
  BY <1>1, ClearBusy
<1>4. ring' = [ring EXCEPT ![k] = [ring[k] EXCEPT !.busy = FALSE]]
  BY <1>2
<1>5. DOMAIN ring' = DOMAIN ring /\ \A i \in DOMAIN ring : ring'[i].ev = ring[i].ev
  BY <1>1, <1>3, <1>4
<1>6. EventsOf(ring') = EventsOf(ring)
  BY <1>5 DEF EventsOf
<1> QED
  BY <1>1, <1>6 DEF Unread

LEMMA CallbackUnread ==
    ASSUME TypeInv, CallbackOn
    PROVE  /\ Unread # << >>
           /\ Head(Unread) = ring[1].ev
           /\ Head(ring) = ring[1]
           /\ Unread' = Tail(Unread)
<1>1. /\ ring \in Seq(Record) /\ ring # << >> /\ ring' = ring
      /\ reader = "processing" /\ reader' = "releasing"
  BY DEF TypeInv, TypeOK, RingTypeOK, CallbackOn, HeadReady, EmptyRing
<1>2. /\ EventsOf(ring) \in Seq(Events) /\ Len(EventsOf(ring)) = Len(ring)
      /\ \A i \in 1 .. Len(ring) : EventsOf(ring)[i] = ring[i].ev
  BY EventsOfType DEF TypeInv, TypeOK, RingTypeOK
<1>3. EventsOf(ring) # << >> /\ Head(EventsOf(ring)) = ring[1].ev
  BY <1>1, <1>2
<1>4. EventsOf(ring') = EventsOf(ring)
  BY <1>1 DEF EventsOf
<1> QED
  BY <1>1, <1>3, <1>4 DEF Unread

LEMMA ReleaseUnread ==
    ASSUME TypeInv, Release
    PROVE  Unread' = Unread
<1>1. /\ ring \in Seq(Record) /\ ring # << >> /\ ring' = Tail(ring)
      /\ reader = "releasing" /\ reader' = "processing"
  BY DEF TypeInv, TypeOK, RingTypeOK, Release, CopiedIsHead, HeadReady, EmptyRing
<1>2. RingTypeOK /\ RingTypeOK'
  BY <1>1, TailTypeOK DEF TypeInv, TypeOK
<1>3. /\ EventsOf(ring) \in Seq(Events) /\ Len(EventsOf(ring)) = Len(ring)
      /\ EventsOf(ring') \in Seq(Events) /\ Len(EventsOf(ring')) = Len(ring')
      /\ \A i \in 1 .. Len(ring) : EventsOf(ring)[i] = ring[i].ev
      /\ \A i \in 1 .. Len(ring') : EventsOf(ring')[i] = ring'[i].ev
  BY <1>2, EventsOfType DEF RingTypeOK
<1>4. Len(ring') = Len(ring) - 1 /\ \A i \in 1 .. Len(ring') : ring'[i] = ring[i + 1]
  BY <1>1
<1>5. EventsOf(ring') = Tail(EventsOf(ring))
  <2>1. /\ EventsOf(ring) # << >>
        /\ Tail(EventsOf(ring)) \in Seq(Events)
        /\ Len(Tail(EventsOf(ring))) = Len(EventsOf(ring)) - 1
        /\ \A i \in 1 .. Len(EventsOf(ring)) - 1 : Tail(EventsOf(ring))[i] = EventsOf(ring)[i + 1]
    BY <1>1, <1>3
  <2>2. \A i \in 1 .. Len(EventsOf(ring')) : EventsOf(ring')[i] = Tail(EventsOf(ring))[i]
    BY <1>1, <1>3, <1>4, <2>1
  <2> QED
    BY <1>3, <1>4, <2>1, <2>2, SeqEqual
<1> QED
  BY <1>1, <1>5 DEF Unread

LEMMA SameUnread ==
    ASSUME UNCHANGED ring, reader # "releasing", reader' # "releasing"
    PROVE  Unread' = Unread
  BY DEF Unread, EventsOf

LEMMA IdleUnread == ASSUME UNCHANGED <<ring, reader>> PROVE Unread' = Unread
  BY DEF Unread, EventsOf

-----------------------------------------------------------------------------
(***************************************************************************)
(* Increasing sequences of numbers and the sets of their elements.         *)
(***************************************************************************)

Less(A, B) == \A a \in A, b \in B : a < b

LEMMA ElementsType ==
    ASSUME NEW s \in Seq(Events)
    PROVE  Elements(s) \subseteq Nat \ {0} /\ Elements(s) \subseteq Events
<1>1. \A i \in DOMAIN s : s[i] \in Events
  OBVIOUS
<1> QED
  BY <1>1, EventsAssumption DEF Elements

LEMMA AppendElement ==
    ASSUME NEW s \in Seq(Events), NEW e \in Events
    PROVE  /\ Elements(Append(s, e)) = Elements(s) \cup {e}
           /\ Increasing(s) /\ Less(Elements(s), {e}) => Increasing(Append(s, e))
<1> DEFINE t == Append(s, e)
<1>1. /\ t \in Seq(Events) /\ Len(t) = Len(s) + 1 /\ t[Len(s) + 1] = e
      /\ \A i \in 1 .. Len(s) : t[i] = s[i]
      /\ Len(s) \in Nat
  OBVIOUS
<1>2. DOMAIN t = 1 .. Len(s) + 1 /\ DOMAIN s = 1 .. Len(s)
  BY <1>1
<1> HIDE DEF t
<1>3. Elements(t) \subseteq Elements(s) \cup {e}
  BY <1>1, <1>2 DEF Elements
<1>4. Elements(s) \cup {e} \subseteq Elements(t)
  BY <1>1, <1>2 DEF Elements
<1>5. ASSUME Increasing(s), Less(Elements(s), {e}) PROVE Increasing(t)
  <2> SUFFICES ASSUME NEW i \in 1 .. Len(s) + 1, NEW k \in 1 .. Len(s) + 1, i < k
               PROVE  t[i] < t[k]
    BY <1>2 DEF Increasing
  <2>1. i \in 1 .. Len(s) /\ t[i] = s[i] /\ s[i] \in Elements(s)
    BY <1>1, <1>2 DEF Elements
  <2> QED
    BY <1>1, <1>2, <1>5, <2>1 DEF Increasing, Less
<1> QED
  BY <1>3, <1>4, <1>5 DEF t

LEMMA RemoveHead ==
    ASSUME NEW s \in Seq(Events), s # << >>
    PROVE  /\ Head(s) \in Events /\ Tail(s) \in Seq(Events)
           /\ Elements(s) = {Head(s)} \cup Elements(Tail(s))
           /\ Increasing(s) => Increasing(Tail(s)) /\ Less({Head(s)}, Elements(Tail(s)))
<1> DEFINE t == Tail(s)
<1>1. /\ t \in Seq(Events) /\ Len(t) = Len(s) - 1 /\ Len(s) \in Nat \ {0}
      /\ Head(s) = s[1] /\ s[1] \in Events
      /\ \A i \in 1 .. Len(t) : t[i] = s[i + 1]
  OBVIOUS
<1>2. DOMAIN t = 1 .. Len(s) - 1 /\ DOMAIN s = 1 .. Len(s)
  BY <1>1
<1> HIDE DEF t
<1>3. Elements(s) \subseteq {s[1]} \cup Elements(t)
  <2> SUFFICES ASSUME NEW i \in 1 .. Len(s), i # 1 PROVE s[i] \in Elements(t)
    BY <1>2 DEF Elements
  <2>1. i - 1 \in 1 .. Len(s) - 1 /\ t[i - 1] = s[i]
    BY <1>1
  <2> QED
    BY <1>2, <2>1 DEF Elements
<1>4. \A i \in 1 .. Len(s) - 1 : i + 1 \in 1 .. Len(s) /\ t[i] = s[i + 1]
  BY <1>1
<1>5. {s[1]} \cup Elements(t) \subseteq Elements(s)
  BY <1>1, <1>2, <1>4 DEF Elements
<1>6. ASSUME Increasing(s) PROVE Increasing(t) /\ Less({s[1]}, Elements(t))
  <2>1. Increasing(t)
    BY <1>1, <1>2, <1>4, <1>6, SMTT(30) DEF Increasing
  <2>2. \A i \in DOMAIN t : s[1] < t[i]
    BY <1>1, <1>2, <1>4, <1>6, SMTT(30) DEF Increasing
  <2> QED
    BY <2>1, <2>2 DEF Less, Elements
<1> QED
  BY <1>1, <1>3, <1>5, <1>6 DEF t

-----------------------------------------------------------------------------
(***************************************************************************)
(* The inductive invariant behind InOrder and NothingVanishes.  The three  *)
(* sequences an event passes through are increasing and follow each other; *)
(* what is lost is lost in order too, so it lies below what is unread.     *)
(***************************************************************************)

HistoryTypeOK ==
    /\ reserved \in Nat
    /\ received \in Seq(Events)
    /\ lostFull \subseteq Events
    /\ discarded \subseteq Events
    /\ ended \in BOOLEAN

SequencesIncrease == Increasing(received) /\ Increasing(chan) /\ Increasing(Unread)

Handled == Elements(received) \cup Elements(chan) \cup lostFull \cup discarded

StagesFollow ==
    /\ Less(Elements(received), Elements(chan))
    /\ Less(Handled, Elements(Unread))

AllAccounted == Handled \cup Elements(Unread) = 1 .. reserved

LostOnce ==
    /\ lostFull \cap discarded = {}
    /\ (lostFull \cup discarded) \cap (Elements(received) \cup Elements(chan)) = {}

OrderInv ==
    HistoryTypeOK /\ SequencesIncrease /\ StagesFollow /\ AllAccounted /\ LostOnce

\* A callback moves the oldest unread event h to one of the places of Handled.
LEMMA CallbackSets ==
    ASSUME TypeInv, OrderInv, CallbackOn
    PROVE  \E h \in Events :
             /\ h = Head(ring).ev /\ h = ring[1].ev
             /\ Increasing(Unread')
             /\ Elements(Unread) = {h} \cup Elements(Unread')
             /\ Less({h}, Elements(Unread'))
             /\ Less(Handled, {h})
             /\ Less(Handled, Elements(Unread'))
             /\ h \notin Handled
<1>1. /\ Unread # << >> /\ Head(Unread) = ring[1].ev /\ Head(ring) = ring[1]
      /\ Unread' = Tail(Unread)
  BY CallbackUnread
<1>2. /\ Head(Unread) \in Events
      /\ Increasing(Unread')
      /\ Elements(Unread) = {Head(Unread)} \cup Elements(Unread')
      /\ Less({Head(Unread)}, Elements(Unread'))
  BY <1>1, UnreadType, RemoveHead DEF OrderInv, SequencesIncrease
<1>3. /\ Less(Handled, {Head(Unread)})
      /\ Less(Handled, Elements(Unread'))
  BY <1>2 DEF OrderInv, StagesFollow, Less
<1>4. Head(Unread) \notin Handled
  <2>1. \A h \in Events : ~ (h < h)
    BY EventsAssumption
  <2> QED
    BY <1>2, <1>3, <2>1 DEF Less
<1> QED
  BY <1>1, <1>2, <1>3, <1>4

LEMMA OrderStep ==
    ASSUME TypeInv, LifeInv, OrderInv, HNext
    PROVE  OrderInv'
<1> USE DEF OrderInv
<1>0. /\ chan \in Seq(Events) /\ Unread \in Seq(Events) /\ received \in Seq(Events)
      /\ reserved \in Nat
  BY UnreadType DEF TypeInv, TypeOK, HistoryTypeOK
<1>1. ASSUME NEW p \in Producers, HEmit(p) PROVE OrderInv'
  <2>1. /\ reserved' = reserved + 1 /\ reserved + 1 \in Events
        /\ UNCHANGED <<chan, received, lostFull, discarded, ended>>
    BY <1>1 DEF HEmit, Emit
  <2>2. Unread' = Append(Unread, reserved + 1)
    BY <1>1, <2>1, EmitUnread DEF HEmit
  <2>3. Less(Handled \cup Elements(Unread), {reserved + 1})
    BY <1>0 DEF AllAccounted, Less
  <2>4. Elements(Unread') = Elements(Unread) \cup {reserved + 1} /\ Increasing(Unread')
    BY <1>0, <2>1, <2>2, <2>3, AppendElement DEF SequencesIncrease, Less
  <2>5. Handled' = Handled
    BY <2>1 DEF Handled
  <2>6. StagesFollow'
    BY <2>1, <2>3, <2>4, <2>5 DEF StagesFollow, Less
  <2>7. 1 .. reserved' = (1 .. reserved) \cup {reserved + 1}
    BY <1>0, <2>1
  <2>8. AllAccounted'
    BY <2>4, <2>5, <2>7 DEF AllAccounted
  <2> QED
    BY <1>0, <2>1, <2>4, <2>6, <2>8 DEF HistoryTypeOK, SequencesIncrease, LostOnce
<1>2. ASSUME UNCHANGED <<chan, history>>, Unread' = Unread PROVE OrderInv'
  BY <1>2 DEF history, HistoryTypeOK, SequencesIncrease, StagesFollow, Handled,
              AllAccounted, LostOnce
<1>3. CASE HRecv
  <2>1. /\ chan # << >> /\ chan' = Tail(chan) /\ received' = Append(received, Head(chan))
        /\ UNCHANGED <<reserved, lostFull, discarded, ended>>
        /\ Unread' = Unread
    BY <1>3, IdleUnread DEF HRecv, Recv
  <2>2. PICK g \in Events :
          /\ g = Head(chan) /\ Increasing(chan')
          /\ Elements(chan) = {g} \cup Elements(chan') /\ Less({g}, Elements(chan'))
    BY <1>0, <2>1, RemoveHead DEF SequencesIncrease
  <2>3. Less(Elements(received), {g})
    BY <2>2 DEF StagesFollow, Less
  <2>4. /\ received' \in Seq(Events) /\ Increasing(received')
        /\ Elements(received') = Elements(received) \cup {g}
    BY <1>0, <2>1, <2>2, <2>3, AppendElement, SMTT(30) DEF SequencesIncrease
  <2>5. Handled' = Handled /\ Elements(received') \cup Elements(chan')
                                = Elements(received) \cup Elements(chan)
    BY <2>1, <2>2, <2>4 DEF Handled
  <2>6. Less(Elements(received'), Elements(chan'))
    BY <2>2, <2>4 DEF StagesFollow, Less
  <2> QED
    BY <2>1, <2>2, <2>4, <2>5, <2>6
       DEF HistoryTypeOK, SequencesIncrease, StagesFollow, AllAccounted, LostOnce
<1>4. CASE RecvNone
  <2>1. Unread' = Unread
    BY <1>4, IdleUnread DEF RecvNone, vars
  <2> QED
    BY <1>4, <2>1 DEF RecvNone, vars, HistoryTypeOK, SequencesIncrease, StagesFollow,
                      Handled, AllAccounted, LostOnce
<1>5. CASE HSendOk
  <2>1. /\ CallbackOn /\ chan' = Append(chan, Head(ring).ev) /\ UNCHANGED history
    BY <1>5 DEF HSendOk, SendOk
  <2>2. PICK h \in Events :
             /\ h = Head(ring).ev
             /\ Increasing(Unread')
             /\ Elements(Unread) = {h} \cup Elements(Unread')
             /\ Less({h}, Elements(Unread'))
             /\ Less(Handled, {h})
             /\ Less(Handled, Elements(Unread'))
             /\ h \notin Handled
    BY <2>1, CallbackSets
  <2>3. Increasing(chan') /\ Elements(chan') = Elements(chan) \cup {h}
    BY <1>0, <2>1, <2>2, AppendElement DEF SequencesIncrease, Handled, Less
  <2>4. Handled' = Handled \cup {h}
    BY <2>1, <2>3 DEF Handled, history
  <2>5. StagesFollow'
    BY <2>1, <2>2, <2>3, <2>4 DEF StagesFollow, Less, Handled, history
  <2>6. AllAccounted'
    BY <2>1, <2>2, <2>4 DEF AllAccounted, history
  <2>7. LostOnce'
    BY <2>1, <2>2, <2>3 DEF LostOnce, Handled, history
  <2> QED
    BY <2>1, <2>2, <2>3, <2>5, <2>6, <2>7 DEF HistoryTypeOK, SequencesIncrease, history
<1>6. CASE HSendFull \/ HSendClosed
  <2>1. /\ CallbackOn /\ UNCHANGED <<chan, reserved, received, ended>>
        /\ \/ lostFull' = lostFull \cup {ring[1].ev} /\ discarded' = discarded
           \/ discarded' = discarded \cup {ring[1].ev} /\ lostFull' = lostFull
    BY <1>6 DEF HSendFull, SendFull, HSendClosed, SendClosed
  <2>2. PICK h \in Events :
             /\ h = ring[1].ev
             /\ Increasing(Unread')
             /\ Elements(Unread) = {h} \cup Elements(Unread')
             /\ Less({h}, Elements(Unread'))
             /\ Less(Handled, Elements(Unread'))
             /\ h \notin Handled
    BY <2>1, CallbackSets
  <2>3. Handled' = Handled \cup {h}
    BY <2>1, <2>2 DEF Handled
  <2>4. StagesFollow'
    BY <2>1, <2>2, <2>3 DEF StagesFollow, Less
  <2>5. AllAccounted'
    BY <2>1, <2>2, <2>3 DEF AllAccounted
  <2>6. LostOnce'
    BY <2>1, <2>2 DEF LostOnce, Handled
  <2> QED
    BY <2>1, <2>2, <2>4, <2>5, <2>6 DEF HistoryTypeOK, SequencesIncrease
<1>7. CASE HReaderOther
  <2>1. chan' = chan /\ UNCHANGED history
    BY <1>7 DEF HReaderOther, Open, OpenFails, CheckStop, PollTimeout, PollReady,
                Release, PollReturns
  <2>2. Unread' = Unread
    BY <1>7, ReleaseUnread, SameUnread
       DEF HReaderOther, Open, OpenFails, CheckStop, PollTimeout, PollReady, PollReturns
  <2> QED
    BY <1>2, <2>1, <2>2
<1>8. CASE HOwnerOther
  <2>1. chan' = chan /\ UNCHANGED history /\ UNCHANGED ring
    BY <1>8 DEF HOwnerOther, New, NewRejects, DropStop
  <2>2. UNCHANGED reader \/ (reader # "releasing" /\ reader' # "releasing")
    BY <1>8 DEF HOwnerOther, New, NewRejects, DropStop, LifeInv
  <2> QED
    BY <1>2, <2>1, <2>2, IdleUnread, SameUnread
<1>9. CASE HDropDrain
  <2>1. /\ chan # << >> /\ chan' = Tail(chan) /\ discarded' = discarded \cup {Head(chan)}
        /\ UNCHANGED <<reserved, received, lostFull, ended>>
        /\ Unread' = Unread
    BY <1>9, IdleUnread DEF HDropDrain, DropDrain
  <2>2. PICK g \in Events :
          /\ g = Head(chan) /\ Increasing(chan')
          /\ Elements(chan) = {g} \cup Elements(chan') /\ Less({g}, Elements(chan'))
    BY <1>0, <2>1, RemoveHead DEF SequencesIncrease
  <2>3. Handled' = Handled
    BY <2>1, <2>2 DEF Handled
  <2>4. g \notin Elements(chan') /\ g \notin Elements(received)
    BY <2>2, EventsAssumption DEF StagesFollow, Less
  <2>5. LostOnce'
    BY <2>1, <2>2, <2>4 DEF LostOnce
  <2> QED
    BY <2>1, <2>2, <2>3, <2>5
       DEF HistoryTypeOK, SequencesIncrease, StagesFollow, AllAccounted, Less
<1>10. CASE HDropOther
  <2>1. chan' = chan /\ UNCHANGED history /\ UNCHANGED <<ring, reader>>
    BY <1>10 DEF HDropOther, DropClose, DropJoin, DropDone
  <2> QED
    BY <1>2, <2>1, IdleUnread
<1>11. ASSUME NEW p \in Producers, HCommit(p) PROVE OrderInv'
  <2>1. chan' = chan /\ UNCHANGED history
    BY <1>11 DEF HCommit, Commit
  <2> QED
    BY <1>2, <1>11, <2>1, CommitUnread DEF HCommit
<1> QED
  BY <1>1, <1>3, <1>4, <1>5, <1>6, <1>7, <1>8, <1>9, <1>10, <1>11 DEF HNext, HReader

-----------------------------------------------------------------------------
(***************************************************************************)
(* The loss accounting and the end of the stream.                          *)
(***************************************************************************)

CountInv == IsFiniteSet(lostFull) /\ DroppedIsExact

DiscardInv == discarded # {} => closed

EndedInv == ended => chan = << >> /\ ReaderEnded

LossInv == CountInv /\ DiscardInv /\ EndedInv

\* Counting one more and wrapping at m is the same as counting exactly and
\* reducing at the end.
LEMMA ModSuccessor ==
    ASSUME NEW m \in Nat \ {0}, NEW n \in Nat
    PROVE  ((n % m) + 1) % m = (n + 1) % m
<1> DEFINE q == n \div m
           r == n % m
<1>1. q \in Int /\ r \in 0 .. (m - 1) /\ n = m * q + r
  OBVIOUS
<1> HIDE DEF q, r
<1>2. \A a \in Int, b \in 0 .. (m - 1) : (m * a + b) % m = b
  <2> SUFFICES ASSUME NEW a \in Int, NEW b \in 0 .. (m - 1) PROVE (m * a + b) % m = b
    OBVIOUS
  <2> DEFINE x == m * a + b
             c == x \div m
             d == x % m
  <2>1. x \in Int /\ c \in Int /\ d \in 0 .. (m - 1) /\ x = m * c + d
    OBVIOUS
  <2>2. m * a + b = m * c + d
    BY <2>1
  <2> HIDE DEF c, d
  <2>3. m * (a - c) = d - b
    BY <2>1, <2>2
  <2>4. CASE a - c >= 1
    <3>1. m * (a - c) >= m
      BY <2>1, <2>4
    <3> QED
      BY <2>1, <2>3, <3>1
  <2>5. CASE a - c <= -1
    <3>1. m * (a - c) <= -m
      BY <2>1, <2>5
    <3> QED
      BY <2>1, <2>3, <3>1
  <2>6. CASE a = c
    BY <2>1, <2>2, <2>6 DEF d
  <2> QED
    BY <2>1, <2>4, <2>5, <2>6
<1>3. CASE r + 1 < m
  <2>1. (m * q + (r + 1)) % m = r + 1 /\ (m * 0 + (r + 1)) % m = r + 1
    BY <1>1, <1>2, <1>3
  <2>2. m * q + (r + 1) = n + 1 /\ m * 0 + (r + 1) = r + 1
    BY <1>1
  <2> QED
    BY <2>1, <2>2 DEF r
<1>4. CASE r + 1 = m
  <2>1. (m * (q + 1) + 0) % m = 0 /\ (m * 1 + 0) % m = 0
    BY <1>1, <1>2
  <2>2. m * (q + 1) + 0 = n + 1 /\ m * 1 + 0 = r + 1
    BY <1>1, <1>4
  <2> QED
    BY <2>1, <2>2 DEF r
<1> QED
  BY <1>1, <1>3, <1>4

\* The counter and the set of the events it counts grow together.
LEMMA CountFull ==
    ASSUME TypeInv, OrderInv, CountInv, HSendFull
    PROVE  CountInv'
<1>1. PICK h \in Events : h = ring[1].ev /\ h \notin Handled
  BY CallbackSets DEF HSendFull
<1>2. lostFull' = lostFull \cup {h} /\ dropped' = (dropped + 1) % DroppedMod
  BY <1>1 DEF HSendFull, SendFull
<1>3. h \notin lostFull
  BY <1>1 DEF Handled
<1>4. /\ IsFiniteSet(lostFull') /\ Cardinality(lostFull') = Cardinality(lostFull) + 1
      /\ Cardinality(lostFull) \in Nat
  BY <1>2, <1>3, FS_AddElement, FS_CardinalityType DEF CountInv
<1>5. \A n \in Nat : ((n % DroppedMod) + 1) % DroppedMod = (n + 1) % DroppedMod
  BY DroppedModAssumption, ModSuccessor
<1> QED
  BY <1>2, <1>4, <1>5 DEF CountInv, DroppedIsExact

LEMMA LossStep ==
    ASSUME TypeInv, LifeInv, OrderInv, LossInv, HNext
    PROVE  LossInv'
<1> USE DEF LossInv
<1>1. ASSUME UNCHANGED <<dropped, lostFull>> PROVE CountInv'
  BY <1>1 DEF CountInv, DroppedIsExact
<1>2. ASSUME UNCHANGED <<discarded, closed>> PROVE DiscardInv'
  BY <1>2 DEF DiscardInv
<1>3. ASSUME NEW p \in Producers, HEmit(p) \/ HCommit(p) PROVE LossInv'
  BY <1>1, <1>2, <1>3 DEF HEmit, Emit, HCommit, Commit, history, EndedInv, ReaderEnded
<1>4. CASE HRecv
  BY <1>1, <1>2, <1>4 DEF HRecv, Recv, EndedInv
<1>5. CASE RecvNone
  BY <1>1, <1>2, <1>5 DEF RecvNone, vars, EndedInv, ReaderEnded
<1>6. CASE HSendOk
  BY <1>1, <1>2, <1>6 DEF HSendOk, CallbackOn, SendOk, history, EndedInv, ReaderEnded
<1>7. CASE HSendFull
  BY <1>2, <1>7, CountFull DEF HSendFull, CallbackOn, SendFull, EndedInv, ReaderEnded
<1>8. CASE HSendClosed
  BY <1>1, <1>8 DEF HSendClosed, CallbackOn, SendClosed, EndedInv, ReaderEnded, DiscardInv
<1>9. CASE HReaderOther
  BY <1>1, <1>2, <1>9 DEF HReaderOther, Open, OpenFails, CheckStop, PollTimeout, PollReady,
        Release, PollReturns, history, EndedInv, ReaderEnded
<1>10. CASE HOwnerOther
  BY <1>1, <1>2, <1>10 DEF HOwnerOther, New, NewRejects, DropStop, history, EndedInv,
        ReaderEnded, LifeInv
<1>11. CASE HDropDrain
  BY <1>1, <1>11 DEF HDropDrain, DropDrain, EndedInv, ReaderEnded, DiscardInv, LifeInv
<1>12. CASE HDropOther
  BY <1>1, <1>12 DEF HDropOther, DropClose, DropJoin, DropDone, history, EndedInv,
        ReaderEnded, DiscardInv
<1> QED
  BY <1>3, <1>4, <1>5, <1>6, <1>7, <1>8, <1>9, <1>10, <1>11, <1>12 DEF HNext, HReader

-----------------------------------------------------------------------------
(***************************************************************************)
(* The theorems about RingBufHistory.                                      *)
(***************************************************************************)

IInv == TypeInv /\ LifeInv /\ OrderInv /\ LossInv

\* The history only watches: each of its steps is a step of RingBuf.
LEMMA HistoryStep == ASSUME [HNext]_hvars PROVE [Next]_vars
<1>1. ASSUME NEW p \in Producers, HEmit(p) \/ HCommit(p) PROVE [Next]_vars
  BY <1>1 DEF HEmit, HCommit, Next
<1>2. CASE HRecv \/ RecvNone \/ HOwnerOther \/ HDropDrain \/ HDropOther
  BY <1>2 DEF HRecv, RecvNone, HOwnerOther, HDropDrain, HDropOther, Next, Dropping
<1>3. CASE HReader
  BY <1>3 DEF HReader, HSendOk, HSendFull, HSendClosed, HReaderOther, Next, Reader, Callback
<1>4. CASE UNCHANGED hvars
  BY <1>4 DEF hvars
<1> QED
  BY <1>1, <1>2, <1>3, <1>4 DEF HNext

LEMMA InvInit == ASSUME HInit PROVE IInv
<1>1. TypeInv /\ LifeInv
  BY TypeInit DEF HInit, Init, LifeInv
<1>2. Unread = << >> /\ chan = << >>
  BY DEF HInit, Init, EmptyRing, Unread, EventsOf
<1>3. Elements(<< >>) = {} /\ Increasing(<< >>)
  BY DEF Elements, Increasing
<1>4. OrderInv
  <2>1. received \in Seq(Events) /\ 1 .. reserved = {} /\ reserved \in Nat
    BY DEF HInit
  <2> QED
    BY <1>2, <1>3, <2>1 DEF HInit, OrderInv, HistoryTypeOK, SequencesIncrease, StagesFollow,
          Handled, AllAccounted, LostOnce, Less
<1>5. LossInv
  <2>1. IsFiniteSet({}) /\ Cardinality({}) = 0
    BY FS_EmptySet
  <2>2. 0 % DroppedMod = 0
    BY DroppedModAssumption
  <2> QED
    BY <2>1, <2>2 DEF HInit, Init, LossInv, CountInv, DroppedIsExact, DiscardInv, EndedInv
<1> QED
  BY <1>1, <1>4, <1>5 DEF IInv

LEMMA InvStep == ASSUME IInv, [HNext]_hvars PROVE IInv'
<1> USE DEF IInv
<1>1. TypeInv' /\ LifeInv'
  BY HistoryStep, TypeStep, LifeStep
<1>2. CASE HNext
  BY <1>1, <1>2, OrderStep, LossStep
<1>3. CASE UNCHANGED hvars
  <2>1. UNCHANGED <<ring, chan, dropped, stop, closed, reader, owner, history>>
    BY <1>3 DEF hvars, vars
  <2>2. Unread' = Unread
    BY <2>1, IdleUnread
  <2>3. OrderInv'
    BY <2>1, <2>2 DEF OrderInv, history, HistoryTypeOK, SequencesIncrease, StagesFollow,
        Handled, AllAccounted, LostOnce
  <2>4. LossInv'
    BY <2>1 DEF history, LossInv, CountInv, DroppedIsExact, DiscardInv, EndedInv, ReaderEnded
  <2> QED
    BY <1>1, <2>3, <2>4
<1> QED
  BY <1>2, <1>3

LEMMA InvHolds == HSpec => []IInv
  BY InvInit, InvStep, PTL DEF HSpec

LEMMA ConcatElements ==
    ASSUME NEW s \in Seq(Events), NEW t \in Seq(Events)
    PROVE  /\ s \o t \in Seq(Events)
           /\ Elements(s \o t) = Elements(s) \cup Elements(t)
           /\ Increasing(s) /\ Increasing(t) /\ Less(Elements(s), Elements(t))
                => Increasing(s \o t)
<1> DEFINE u == s \o t
           m == Len(s)
           n == Len(t)
<1>1. /\ u \in Seq(Events) /\ Len(u) = m + n /\ m \in Nat /\ n \in Nat
      /\ \A i \in 1 .. m + n : u[i] = IF i <= m THEN s[i] ELSE t[i - m]
  BY ConcatProperties
<1>2. DOMAIN u = 1 .. m + n /\ DOMAIN s = 1 .. m /\ DOMAIN t = 1 .. n
  BY <1>1
<1> HIDE DEF u, m, n
<1>3. \A i \in 1 .. m : i \in 1 .. m + n /\ u[i] = s[i]
  BY <1>1
<1>4. \A i \in 1 .. n : m + i \in 1 .. m + n /\ u[m + i] = t[i]
  <2> SUFFICES ASSUME NEW i \in 1 .. n PROVE m + i \in 1 .. m + n /\ u[m + i] = t[i]
    OBVIOUS
  <2>1. m + i \in 1 .. m + n /\ ~ (m + i <= m) /\ (m + i) - m = i
    BY <1>1
  <2> QED
    BY <1>1, <2>1
<1>5. \A i \in 1 .. m + n : i \in 1 .. m \/ (i > m /\ i - m \in 1 .. n /\ u[i] = t[i - m])
  BY <1>1
<1>6. Elements(u) \subseteq Elements(s) \cup Elements(t)
  BY <1>2, <1>3, <1>5 DEF Elements
<1>7. Elements(s) \cup Elements(t) \subseteq Elements(u)
  BY <1>2, <1>3, <1>4 DEF Elements
<1>8. ASSUME Increasing(s), Increasing(t), Less(Elements(s), Elements(t))
      PROVE  Increasing(u)
  <2> SUFFICES ASSUME NEW i \in 1 .. m + n, NEW k \in 1 .. m + n, i < k
               PROVE  u[i] < u[k]
    BY <1>2 DEF Increasing
  <2>1. CASE k \in 1 .. m
    <3>1. i \in 1 .. m
      BY <1>1, <2>1
    <3> QED
      BY <1>2, <1>3, <1>8, <2>1, <3>1 DEF Increasing
  <2>2. CASE i \in 1 .. m /\ k \notin 1 .. m
    <3>1. u[i] \in Elements(s) /\ u[k] \in Elements(t)
      BY <1>2, <1>3, <1>5, <2>2 DEF Elements
    <3> QED
      BY <1>8, <3>1 DEF Less
  <2>3. CASE i \notin 1 .. m
    <3>1. /\ i - m \in 1 .. n /\ u[i] = t[i - m]
          /\ k - m \in 1 .. n /\ u[k] = t[k - m]
          /\ i - m < k - m
      BY <1>1, <1>5, <2>3
    <3> QED
      BY <1>2, <1>8, <3>1 DEF Increasing
  <2> QED
    BY <2>1, <2>2, <2>3
<1> QED
  BY <1>1, <1>6, <1>7, <1>8 DEF u

LEMMA InvImpliesOrder ==
    ASSUME IInv
    PROVE  /\ Increasing(received \o chan \o Unread)
           /\ Elements(received \o chan \o Unread)
                 = Elements(received) \cup Elements(chan) \cup Elements(Unread)
<1>1. received \in Seq(Events) /\ chan \in Seq(Events) /\ Unread \in Seq(Events)
  BY UnreadType DEF IInv, OrderInv, HistoryTypeOK, TypeInv, TypeOK
<1>2. /\ received \o chan \in Seq(Events)
      /\ Elements(received \o chan) = Elements(received) \cup Elements(chan)
      /\ Increasing(received \o chan)
  BY <1>1, ConcatElements DEF IInv, OrderInv, SequencesIncrease, StagesFollow
<1>3. Less(Elements(received \o chan), Elements(Unread))
  BY <1>2 DEF IInv, OrderInv, StagesFollow, Less, Handled
<1> QED
  BY <1>1, <1>2, <1>3, ConcatElements DEF IInv, OrderInv, SequencesIncrease

\* Events are received in the order of their reservations and none twice.
THEOREM OrderCorrect == HSpec => []InOrder
<1>1. IInv => InOrder
  BY InvImpliesOrder DEF InOrder
<1> QED
  BY <1>1, InvHolds, PTL

\* Every event is in exactly one place.
THEOREM NothingVanishesCorrect == HSpec => []NothingVanishes
<1>1. ASSUME IInv PROVE NothingVanishes
  <2>1. Elements(received \o chan \o Unread)
          = Elements(received) \cup Elements(chan) \cup Elements(Unread)
    BY <1>1, InvImpliesOrder
  <2>2. Elements(Unread) \cap (lostFull \cup discarded) = {}
    <3>1. \A h \in Events : ~ (h < h)
      BY EventsAssumption
    <3> QED
      BY <1>1, <3>1 DEF IInv, OrderInv, StagesFollow, HistoryTypeOK, Less, Handled
  <2> QED
    BY <1>1, <2>1, <2>2 DEF IInv, OrderInv, AllAccounted, LostOnce, Handled, NothingVanishes
<1> QED
  BY <1>1, InvHolds, PTL

\* RingBuf::dropped counts the events lost on a full channel, for every width of
\* the counter.
THEOREM DroppedCorrect == HSpec => []DroppedIsExact
<1>1. IInv => DroppedIsExact
  BY DEF IInv, LossInv, CountInv
<1> QED
  BY <1>1, InvHolds, PTL

\* No event is lost uncounted before the drop has closed the channel.
THEOREM NoSilentLossCorrect == HSpec => []NoSilentLoss
<1>1. IInv => NoSilentLoss
  BY DEF IInv, LossInv, DiscardInv, LifeInv, NoSilentLoss
<1> QED
  BY <1>1, InvHolds, PTL

\* No record is copied before its producer has submitted it.
THEOREM NoTornRecordCorrect == HSpec => []NoTornRecord
<1>1. ASSUME IInv PROVE NoTornRecord
  <2> SUFFICES ASSUME NEW i \in DOMAIN ring, ring[i].busy
               PROVE  ring[i].ev \notin Elements(received \o chan) \cup lostFull \cup discarded
    BY DEF NoTornRecord
  <2>1. ring \in Seq(Record) /\ DOMAIN ring = 1 .. Len(ring) /\ Len(ring) \in Nat
    BY <1>1 DEF IInv, TypeInv, TypeOK, RingTypeOK
  <2>2. /\ EventsOf(ring) \in Seq(Events) /\ Len(EventsOf(ring)) = Len(ring)
        /\ EventsOf(ring)[i] = ring[i].ev /\ ring[i].ev \in Events
    BY <2>1, EventsOfType
  <2>3. ring[i].ev \in Elements(Unread)
    <3>1. CASE reader = "releasing"
      <4>1. i # 1 /\ ring # << >>
        BY <1>1, <2>1, <3>1 DEF IInv, TypeInv, CopiedIsHead, HeadReady, EmptyRing
      <4>2. /\ Unread \in Seq(Events) /\ Len(Unread) = Len(ring) - 1
            /\ i - 1 \in 1 .. Len(ring) - 1 /\ Unread[i - 1] = EventsOf(ring)[i]
        BY <2>1, <2>2, <3>1, <4>1 DEF Unread
      <4>3. i - 1 \in DOMAIN Unread
        BY <2>1, <4>2
      <4> QED
        BY <2>2, <4>2, <4>3 DEF Elements
    <3>2. CASE reader # "releasing"
      BY <2>1, <2>2, <3>2 DEF Unread, Elements
    <3> QED
      BY <3>1, <3>2
  <2>4. ring[i].ev \notin Handled
    <3>1. \A h \in Events : ~ (h < h)
      BY EventsAssumption
    <3> QED
      BY <1>1, <2>2, <2>3, <3>1 DEF IInv, OrderInv, StagesFollow, Less
  <2>5. Elements(received \o chan) = Elements(received) \cup Elements(chan)
    BY <1>1, ConcatElements DEF IInv, OrderInv, HistoryTypeOK, TypeInv, TypeOK
  <2> QED
    BY <2>4, <2>5 DEF Handled
<1> QED
  BY <1>1, InvHolds, PTL

\* Once recv has returned None nothing is received or buffered any more.
THEOREM NoneIsFinalCorrect == HSpec => NoneIsFinal
<1>1. ASSUME IInv, [HNext]_hvars PROVE [ended => UNCHANGED <<received, chan>>]_hvars
  <2> SUFFICES ASSUME ended, HNext PROVE UNCHANGED <<received, chan>>
    BY <1>1
  <2>1. chan = << >> /\ ReaderEnded
    BY <1>1 DEF IInv, LossInv, EndedInv
  <2>2. ASSUME NEW p \in Producers, HEmit(p) \/ HCommit(p)
        PROVE  UNCHANGED <<received, chan>>
    BY <2>2 DEF HEmit, Emit, HCommit, Commit, history
  <2>3. CASE HRecv \/ RecvNone \/ HDropDrain
    BY <2>1, <2>3 DEF HRecv, Recv, RecvNone, vars, HDropDrain, DropDrain
  <2>4. CASE HReader
    BY <2>1, <2>4 DEF ReaderEnded, HReader, HSendOk, HSendFull, HSendClosed, CallbackOn,
          HReaderOther, Open, OpenFails, CheckStop, PollTimeout, PollReady, Release,
          PollReturns, history
  <2>5. CASE HOwnerOther \/ HDropOther
    BY <2>5 DEF HOwnerOther, New, NewRejects, DropStop, HDropOther, DropClose, DropJoin,
          DropDone, history
  <2> QED
    BY <2>2, <2>3, <2>4, <2>5 DEF HNext
<1> QED
  BY <1>1, InvHolds, PTL DEF HSpec, NoneIsFinal

-----------------------------------------------------------------------------
(***************************************************************************)
(* RingBuf implements LossyFifo.                                           *)
(***************************************************************************)

LEMMA RemoveMiddle ==
    ASSUME NEW s \in Seq(Events), NEW t \in Seq(Events), t # << >>
    PROVE  /\ Len(s) + 1 \in DOMAIN (s \o t)
           /\ (s \o t)[Len(s) + 1] = Head(t)
           /\ SubSeq(s \o t, 1, Len(s)) \o SubSeq(s \o t, Len(s) + 2, Len(s \o t))
                 = s \o Tail(t)
<1> DEFINE u == s \o t
           m == Len(s)
           n == Len(t)
<1>1. /\ u \in Seq(Events) /\ Len(u) = m + n /\ m \in Nat /\ n \in Nat \ {0}
      /\ \A i \in 1 .. m + n : u[i] = IF i <= m THEN s[i] ELSE t[i - m]
  BY ConcatProperties, EmptySeq
<1> HIDE DEF u, m, n
<1>2. m + 1 \in 1 .. m + n /\ u[m + 1] = t[1]
  BY <1>1
<1> DEFINE a == SubSeq(u, 1, m)
           b == SubSeq(u, m + 2, m + n)
<1>3. \A i \in 1 .. m + n : u[i] \in Events
  BY <1>1
<1>4. /\ a \in Seq(Events) /\ Len(a) = m
      /\ \A i \in 1 .. m : a[i] = u[i]
  BY <1>1, <1>3, SubSeqProperties
<1>5. /\ b \in Seq(Events) /\ Len(b) = n - 1
      /\ \A i \in 1 .. n - 1 : b[i] = u[(m + 2) + i - 1]
  <2>1. \A i \in (m + 2) .. (m + n) : u[i] \in Events
    BY <1>1, <1>3
  <2>2. m + 2 \in Int /\ m + n \in Int
    BY <1>1
  <2>3. /\ b \in Seq(Events)
        /\ Len(b) = IF m + 2 <= m + n THEN (m + n) - (m + 2) + 1 ELSE 0
        /\ \A i \in 1 .. (m + n) - (m + 2) + 1 : b[i] = u[(m + 2) + i - 1]
    BY <2>1, <2>2, SubSeqProperties
  <2> HIDE DEF b
  <2> QED
    BY <1>1, <2>3, SMTT(30)
<1> HIDE DEF a, b
<1>6. a = s
  BY <1>1, <1>4, SeqEqual DEF m
<1>7. b = Tail(t)
  <2>1. /\ Tail(t) \in Seq(Events) /\ Len(Tail(t)) = n - 1
        /\ \A i \in 1 .. n - 1 : Tail(t)[i] = t[i + 1]
    BY HeadTailProperties DEF n
  <2>2. \A i \in 1 .. n - 1 : b[i] = t[i + 1]
    <3> SUFFICES ASSUME NEW i \in 1 .. n - 1 PROVE b[i] = t[i + 1]
      OBVIOUS
    <3>1. /\ (m + 2) + i - 1 \in 1 .. m + n /\ ~ ((m + 2) + i - 1 <= m)
          /\ ((m + 2) + i - 1) - m = i + 1
      BY <1>1
    <3> QED
      BY <1>1, <1>5, <3>1
  <2> QED
    BY <1>5, <2>1, <2>2, SeqEqual
<1>8. Head(t) = t[1] /\ DOMAIN u = 1 .. m + n
  BY <1>1
<1>9. SubSeq(u, 1, m) \o SubSeq(u, m + 2, Len(u)) = s \o Tail(t)
  BY <1>1, <1>6, <1>7 DEF a, b
<1> QED
  BY <1>2, <1>8, <1>9 DEF u, m

LEMMA RemoveFront == 
    ASSUME NEW s \in Seq(Events), NEW t \in Seq(Events), s # << >>
    PROVE  /\ s \o t # << >> /\ Head(s \o t) = Head(s) /\ 1 \in DOMAIN (s \o t)
           /\ (s \o t)[1] = Head(s)
           /\ Tail(s \o t) = Tail(s) \o t
           /\ SubSeq(s \o t, 1, 0) \o SubSeq(s \o t, 2, Len(s \o t)) = Tail(s) \o t
<1> DEFINE u == s \o t
<1>1. /\ u \in Seq(Events) /\ Len(u) = Len(s) + Len(t)
      /\ Len(s) \in Nat \ {0} /\ Len(t) \in Nat
      /\ \A i \in 1 .. Len(s) + Len(t) : u[i] = IF i <= Len(s) THEN s[i] ELSE t[i - Len(s)]
  BY ConcatProperties, EmptySeq
<1> HIDE DEF u
<1>2. u # << >> /\ 1 \in DOMAIN u /\ u[1] = s[1] /\ Head(u) = s[1] /\ Head(s) = s[1]
  BY <1>1
<1>3. /\ Tail(u) \in Seq(Events) /\ Len(Tail(u)) = Len(s) + Len(t) - 1
      /\ \A i \in 1 .. Len(s) + Len(t) - 1 : Tail(u)[i] = u[i + 1]
      /\ Tail(s) \in Seq(Events) /\ Len(Tail(s)) = Len(s) - 1
      /\ \A i \in 1 .. Len(s) - 1 : Tail(s)[i] = s[i + 1]
  BY <1>1, <1>2, HeadTailProperties
<1> DEFINE v == Tail(s) \o t
<1>4. /\ v \in Seq(Events) /\ Len(v) = Len(s) - 1 + Len(t)
      /\ \A i \in 1 .. Len(s) - 1 + Len(t) :
            v[i] = IF i <= Len(s) - 1 THEN Tail(s)[i] ELSE t[i - (Len(s) - 1)]
  BY <1>3, ConcatProperties
<1> HIDE DEF v
<1>5. ASSUME NEW i \in 1 .. Len(s) + Len(t) - 1 PROVE Tail(u)[i] = v[i]
  <2>1. i + 1 \in 1 .. Len(s) + Len(t) /\ (i + 1) - Len(s) = i - (Len(s) - 1)
        /\ i \in 1 .. Len(s) - 1 + Len(t) /\ (i <= Len(s) - 1 <=> i + 1 <= Len(s))
        /\ (i <= Len(s) - 1 => i \in 1 .. Len(s) - 1)
    BY <1>1
  <2> QED
    BY <1>1, <1>3, <1>4, <2>1
<1>6. Tail(u) = v
  BY <1>1, <1>3, <1>4, <1>5, SeqEqual
<1>7. SubSeq(u, 1, 0) \o SubSeq(u, 2, Len(u)) = Tail(u)
  <2>1. SubSeq(u, 1, 0) = << >>
    BY SubSeqEmpty
  <2>2. SubSeq(u, 2, Len(u)) = Tail(u)
    BY <1>1, <1>2, TailIsSubSeq
  <2> QED
    BY <1>3, <2>1, <2>2, ConcatEmptySeq
<1> QED
  BY <1>2, <1>6, <1>7 DEF u, v

LEMMA RemoveAtDef ==
    \A s, i : Fifo!RemoveAt(s, i) = SubSeq(s, 1, i - 1) \o SubSeq(s, i + 1, Len(s))
  BY Zenon DEF Fifo!RemoveAt

\* Every step of the RingBuf is a step of the lossy queue or leaves it alone.
LEMMA FifoStep ==
    ASSUME IInv, IInv', [HNext]_hvars
    PROVE  [Fifo!Next]_(Fifo!fifoVars)
<1> DEFINE q == chan \o Unread
           lost == lostFull \cup discarded
<1>0. /\ chan \in Seq(Events) /\ Unread \in Seq(Events) /\ received \in Seq(Events)
      /\ TypeInv
  BY UnreadType DEF IInv, OrderInv, HistoryTypeOK, TypeInv, TypeOK
<1>1. ASSUME NEW p \in Producers, HEmit(p) PROVE Fifo!Next
  <2>1. /\ reserved + 1 \in Events /\ UNCHANGED <<chan, received, lostFull, discarded>>
    BY <1>1 DEF HEmit, Emit
  <2>2. Unread' = Append(Unread, reserved + 1)
    BY <1>0, <1>1, <2>1, EmitUnread DEF HEmit
  <2>3. q' = Append(q, reserved + 1)
    <3>1. Append(Unread, reserved + 1) = Unread \o << reserved + 1 >>
      BY <1>0, <2>1, AppendIsConcat
    <3>2. /\ chan \o (Unread \o << reserved + 1 >>) = (chan \o Unread) \o << reserved + 1 >>
          /\ chan \o Unread \in Seq(Events)
      BY <1>0, <2>1, ConcatAssociative, ConcatProperties
    <3> QED
      BY <2>1, <2>2, <3>1, <3>2, AppendIsConcat
  <2> QED
    BY <2>1, <2>3 DEF Fifo!Next, Fifo!Put
<1>2. ASSUME UNCHANGED <<chan, received, lostFull, discarded>>, Unread' = Unread
      PROVE  UNCHANGED Fifo!fifoVars
  BY <1>2 DEF Fifo!fifoVars
<1>3. CASE HRecv
  <2>1. /\ chan # << >> /\ chan' = Tail(chan) /\ received' = Append(received, Head(chan))
        /\ UNCHANGED <<lostFull, discarded>> /\ Unread' = Unread
    BY <1>3, IdleUnread DEF HRecv, Recv
  <2>2. q # << >> /\ Head(q) = Head(chan) /\ q' = Tail(q)
    BY <1>0, <2>1, RemoveFront
  <2> QED
    BY <2>1, <2>2 DEF Fifo!Next, Fifo!Deliver
<1>4. CASE HSendOk
  <2>1. /\ chan' = Append(chan, Head(Unread)) /\ UNCHANGED history
        /\ Unread # << >> /\ Unread' = Tail(Unread)
    BY <1>0, <1>4, CallbackUnread DEF HSendOk, SendOk
  <2>2. Append(chan, Head(Unread)) \o Tail(Unread) = chan \o Unread
    <3>1. /\ Head(Unread) \in Events /\ Tail(Unread) \in Seq(Events)
          /\ << Head(Unread) >> \in Seq(Events)
      BY <1>0, <2>1
    <3>2. << Head(Unread) >> \o Tail(Unread) = Unread
      BY <1>0, <2>1, <3>1
    <3> QED
      BY <1>0, <3>1, <3>2, AppendIsConcat, ConcatAssociative, SMTT(30)
  <2> QED
    BY <2>1, <2>2 DEF Fifo!fifoVars, history
<1>5. CASE HSendFull \/ HSendClosed
  <2>1. /\ UNCHANGED <<chan, received>> /\ lost' = lost \cup {Head(Unread)}
        /\ Unread # << >> /\ Unread' = Tail(Unread)
    BY <1>0, <1>5, CallbackUnread DEF HSendFull, SendFull, HSendClosed, SendClosed
  <2>2. /\ Len(chan) + 1 \in DOMAIN q /\ q[Len(chan) + 1] = Head(Unread)
        /\ SubSeq(q, 1, Len(chan)) \o SubSeq(q, Len(chan) + 2, Len(q)) = chan \o Tail(Unread)
    BY <1>0, <2>1, RemoveMiddle
  <2>3. Fifo!RemoveAt(q, Len(chan) + 1) = q'
    <3>1. q' = chan \o Tail(Unread)
      BY <2>1
    <3> DEFINE m == Len(chan) + 1
    <3>2. m - 1 = Len(chan) /\ m + 1 = Len(chan) + 2
      BY <1>0
    <3> HIDE DEF q, m
    <3>3. Fifo!RemoveAt(q, m) = SubSeq(q, 1, m - 1) \o SubSeq(q, m + 1, Len(q))
      BY RemoveAtDef, Zenon
    <3>4. Fifo!RemoveAt(q, m) = SubSeq(q, 1, Len(chan)) \o SubSeq(q, Len(chan) + 2, Len(q))
      BY <3>2, <3>3, Zenon
    <3>5. Fifo!RemoveAt(q, m) = q'
      BY <2>2, <3>1, <3>4, Zenon
    <3> QED
      BY <3>5 DEF m
  <2>4. Fifo!Lose(Len(chan) + 1)
    BY <2>2, <2>3 DEF Fifo!Lose
  <2> QED
    BY <2>1, <2>2, <2>4 DEF Fifo!Next
<1>6. CASE HDropDrain
  <2>1. /\ chan # << >> /\ chan' = Tail(chan) /\ lost' = lost \cup {Head(chan)}
        /\ UNCHANGED received /\ Unread' = Unread
    BY <1>6, IdleUnread DEF HDropDrain, DropDrain
  <2>2. /\ 1 \in DOMAIN q /\ q[1] = Head(chan)
        /\ SubSeq(q, 1, 0) \o SubSeq(q, 2, Len(q)) = Tail(chan) \o Unread
    BY <1>0, <2>1, RemoveFront
  <2>3. Fifo!Lose(1)
    BY <2>1, <2>2 DEF Fifo!Lose, Fifo!RemoveAt
  <2> QED
    BY <2>1, <2>2, <2>3 DEF Fifo!Next
<1>7. CASE RecvNone \/ UNCHANGED hvars
  BY <1>2, <1>7, IdleUnread DEF RecvNone, hvars, vars, history
<1>8. CASE HReaderOther
  <2>1. chan' = chan /\ UNCHANGED history
    BY <1>8 DEF HReaderOther, Open, OpenFails, CheckStop, PollTimeout, PollReady,
                Release, PollReturns
  <2>2. Unread' = Unread
    BY <1>0, <1>8, ReleaseUnread, SameUnread
       DEF HReaderOther, Open, OpenFails, CheckStop, PollTimeout, PollReady, PollReturns
  <2> QED
    BY <1>2, <2>1, <2>2 DEF history
<1>9. CASE HOwnerOther \/ HDropOther
  <2>1. chan' = chan /\ UNCHANGED history /\ UNCHANGED ring
    BY <1>9 DEF HOwnerOther, New, NewRejects, DropStop, HDropOther, DropClose, DropJoin, DropDone
  <2>2. UNCHANGED reader \/ (reader # "releasing" /\ reader' # "releasing")
    BY <1>9 DEF HOwnerOther, New, NewRejects, DropStop, HDropOther, DropClose, DropJoin,
          DropDone, IInv, LifeInv
  <2>3. Unread' = Unread
    BY <2>1, <2>2, IdleUnread, SameUnread
  <2> QED
    BY <1>2, <2>1, <2>3 DEF history
<1>10. ASSUME NEW p \in Producers, HCommit(p) PROVE UNCHANGED Fifo!fifoVars
  BY <1>0, <1>2, <1>10, CommitUnread DEF HCommit, Commit, history
<1> QED
  BY <1>1, <1>3, <1>4, <1>5, <1>6, <1>7, <1>8, <1>9, <1>10 DEF HNext, HReader

\* The RingBuf, from the eBPF programs to the receiver, is a lossy queue.
THEOREM RefinesLossyFifo == HSpec => ImplementsLossyFifo
<1>1. ASSUME HInit PROVE Fifo!Init
  <2>1. Unread = << >> /\ chan = << >>
    BY <1>1 DEF HInit, Init, EmptyRing, Unread, EventsOf
  <2>2. << >> \o << >> = << >>
    BY ConcatEmptySeq, EmptySeq
  <2> QED
    BY <1>1, <2>1, <2>2 DEF HInit, Fifo!Init
<1> QED
  BY <1>1, FifoStep, InvHolds, PTL DEF HSpec, ImplementsLossyFifo, Fifo!Spec

=============================================================================
