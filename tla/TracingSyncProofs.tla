------------------------- MODULE TracingSyncProofs -------------------------
(***************************************************************************)
(* What TLAPS proves about Tracing, for all values of the constants: while *)
(* user space keeps up with a CPU, its stack is what is open there.        *)
(***************************************************************************)
EXTENDS TracingProofs, SubsequenceProofs

-----------------------------------------------------------------------------
(***************************************************************************)
(* The inductive invariant.  TracingProofs follows the records of a CPU    *)
(* through all that can be lost between two of them; here a record with    *)
(* nothing missing before it says exactly what became of the open spans.   *)
(***************************************************************************)

\* Record e takes the open spans from before to e.scope, the span that it starts or
\* ends being the innermost one.
InOrder(before, e) ==
    \/ e.kind = "msg" /\ e.scope = before
    \/ /\ e.kind = "span_start"
       /\ \E x \in Span : x.name = e.name /\ e.scope = Append(before, x)
    \/ /\ e.kind = "span_end"
       /\ \E x \in Span : x.name = e.name /\ before = Append(e.scope, x)

\* In the queue q, after what was seen in v, only the gaps are unaccounted for.
Gapless(q, v, c) ==
    \A i \in 1 .. Len(q), j \in 0 .. Len(q) :
        j < i /\ q[i].cpu = c /\ Precedes(q, c, j, i) /\ ~ q[i].gap
            => InOrder(At(q, v, j).scope, q[i])

\* The last record of CPU c tells what is open there.
Reported(q, v, c, spans) ==
    \A j \in 0 .. Len(q) : Precedes(q, c, j, Len(q) + 1) => At(q, v, j).scope = spans

\* What is missing on a CPU is owed to the record that comes next, so until then the last
\* record is not held to be up to date.
RecordInv ==
    BpfLevel # 0 => \A c \in Cpus :
        /\ Gapless(queue, seen[c], c)
        /\ ~ missing[c] => Reported(queue, seen[c], c, scope[c])

ExactInv == \A c \in Cpus : inSync[c] => StackOf(c) = Visible(seen[c].scope)

SyncInv == Inv /\ RecordInv /\ ExactInv

-----------------------------------------------------------------------------
(***************************************************************************)
(* Records that are emitted and received.                                  *)
(***************************************************************************)

\* A record of CPU c that is in order, or marked as the first after a gap, is put.
LEMMA PutGapless ==
    ASSUME NEW q \in Seq(Event), NEW v \in View, NEW c \in Cpus, NEW e \in Event,
           Gapless(q, v, c), e.cpu = c,
           NEW spans, ~ e.gap => Reported(q, v, c, spans) /\ InOrder(spans, e)
    PROVE  /\ Gapless(Append(q, e), v, c)
           /\ Reported(Append(q, e), v, c, e.scope)
<1> DEFINE p == Append(q, e)
           n == Len(q)
<1>1. /\ p \in Seq(Event) /\ n \in Nat /\ Len(p) = n + 1
      /\ \A i \in 1 .. n : p[i] = q[i]
      /\ p[n + 1] = e
  BY PutProperties
<1> HIDE DEF p
<1>2. \A j \in 0 .. n : At(p, v, j) = At(q, v, j)
  BY <1>1 DEF At
<1>3. \A i \in 1 .. n + 1, j \in 0 .. n : Precedes(p, c, j, i) <=> Precedes(q, c, j, i)
  BY ONLY <1>1, SamePrecedes
<1>4. Gapless(p, v, c)
  <2> SUFFICES ASSUME NEW i \in 1 .. n + 1, NEW j \in 0 .. n + 1,
                      j < i, p[i].cpu = c, Precedes(p, c, j, i), ~ p[i].gap
               PROVE  InOrder(At(p, v, j).scope, p[i])
    BY <1>1 DEF Gapless
  <2>1. j \in 0 .. n
    BY <1>1
  <2>2. At(p, v, j) = At(q, v, j) /\ Precedes(q, c, j, i)
    BY <1>2, <1>3, <2>1
  <2>3. CASE i \in 1 .. n
    <3>1. p[i] = q[i]
      BY <1>1, <2>3
    <3> QED
      BY <2>1, <2>2, <2>3, <3>1 DEF Gapless
  <2>4. CASE i = n + 1
    <3>1. p[i] = e
      BY <1>1, <2>4
    <3>2. At(q, v, j).scope = spans
      BY <2>1, <2>2, <2>4, <3>1 DEF Reported
    <3> QED
      BY <2>2, <3>1, <3>2
  <2> QED
    BY <1>1, <2>3, <2>4
<1>5. Reported(p, v, c, e.scope)
  <2> SUFFICES ASSUME NEW j \in 0 .. n + 1, Precedes(p, c, j, n + 2)
               PROVE  At(p, v, j).scope = e.scope
    <3>1. Len(p) + 1 = n + 2
      BY <1>1
    <3> QED
      BY <1>1, <3>1 DEF Reported
  <2>1. j = n + 1
    <3> SUFFICES ASSUME j # n + 1
                 PROVE  FALSE
      OBVIOUS
    <3>1. n + 1 \in j + 1 .. n + 2 - 1
      BY <1>1
    <3> QED
      BY <1>1, <3>1 DEF Precedes
  <2> QED
    BY <1>1, <2>1 DEF At
<1> QED
  BY <1>4, <1>5 DEF p

\* A record of another CPU is put.
LEMMA PutGaplessElsewhere ==
    ASSUME NEW q \in Seq(Event), NEW v \in View, NEW c \in Cpus, NEW e \in Event,
           Gapless(q, v, c), e.cpu # c
    PROVE  /\ Gapless(Append(q, e), v, c)
           /\ \A spans : Reported(q, v, c, spans) => Reported(Append(q, e), v, c, spans)
<1> DEFINE p == Append(q, e)
           n == Len(q)
<1>1. /\ p \in Seq(Event) /\ n \in Nat /\ Len(p) = n + 1
      /\ \A i \in 1 .. n : p[i] = q[i]
      /\ p[n + 1] = e
  BY PutProperties
<1> HIDE DEF p
<1>2. \A j \in 0 .. n : At(p, v, j) = At(q, v, j)
  BY <1>1 DEF At
<1>3. \A i \in 1 .. n + 1, j \in 0 .. n : Precedes(p, c, j, i) <=> Precedes(q, c, j, i)
  BY ONLY <1>1, SamePrecedes
<1>4. Gapless(p, v, c)
  <2> SUFFICES ASSUME NEW i \in 1 .. n + 1, NEW j \in 0 .. n + 1,
                      j < i, p[i].cpu = c, Precedes(p, c, j, i), ~ p[i].gap
               PROVE  InOrder(At(p, v, j).scope, p[i])
    BY <1>1 DEF Gapless
  <2>1. j \in 0 .. n /\ i \in 1 .. n
    BY <1>1
  <2>2. At(p, v, j) = At(q, v, j) /\ Precedes(q, c, j, i) /\ p[i] = q[i]
    BY <1>1, <1>2, <1>3, <2>1
  <2> QED
    BY <2>1, <2>2 DEF Gapless
<1>5. ASSUME NEW spans, Reported(q, v, c, spans)
      PROVE  Reported(p, v, c, spans)
  <2> SUFFICES ASSUME NEW j \in 0 .. n + 1, Precedes(p, c, j, n + 2)
               PROVE  At(p, v, j).scope = spans
    <3>1. Len(p) + 1 = n + 2
      BY <1>1
    <3> QED
      BY <1>1, <3>1 DEF Reported
  <2>1. j \in 0 .. n
    BY <1>1 DEF Precedes
  <2>2. Precedes(p, c, j, n + 1)
    BY <1>1 DEF Precedes
  <2>3. At(p, v, j) = At(q, v, j) /\ Precedes(q, c, j, n + 1)
    BY <1>1, <1>2, <1>3, <2>1, <2>2
  <2> QED
    BY <1>5, <2>1, <2>3 DEF Reported
<1> QED
  BY <1>4, <1>5 DEF p

\* The thread has received a record of CPU c.
LEMMA TailGapless ==
    ASSUME NEW q \in Seq(Event), q # << >>, NEW v, NEW w, NEW c \in Cpus,
           Gapless(q, v, c), Head(q).cpu = c, w.scope = Head(q).scope
    PROVE  /\ ~ Head(q).gap => InOrder(v.scope, Head(q))
           /\ Gapless(Tail(q), w, c)
           /\ \A spans : Reported(q, v, c, spans) => Reported(Tail(q), w, c, spans)
<1> DEFINE t == Tail(q)
           n == Len(q)
<1>1. /\ t \in Seq(Event) /\ n \in Nat \ {0} /\ Len(t) = n - 1
      /\ \A i \in 1 .. n - 1 : t[i] = q[i + 1]
      /\ Head(q) = q[1]
  BY TailAt
<1> HIDE DEF t
<1>2. ~ Head(q).gap => InOrder(v.scope, Head(q))
  <2>1. 1 \in 1 .. n /\ 0 \in 0 .. n
    BY <1>1
  <2>2. Precedes(q, c, 0, 1) /\ At(q, v, 0) = v /\ q[1].cpu = c
    BY <1>1 DEF Precedes, At
  <2> QED
    BY <1>1, <2>1, <2>2 DEF Gapless
<1>3. \A j \in 0 .. n - 1 : At(t, w, j).scope = At(q, v, j + 1).scope
  BY <1>1 DEF At
<1>4. ASSUME NEW i \in 1 .. n, NEW j \in 0 .. n - 1, Precedes(t, c, j, i)
      PROVE  Precedes(q, c, j + 1, i + 1)
  BY ONLY <1>1, <1>4, Head(q).cpu = c, TailPrecedes
<1>5. Gapless(t, w, c)
  <2> SUFFICES ASSUME NEW i \in 1 .. n - 1, NEW j \in 0 .. n - 1,
                      j < i, t[i].cpu = c, Precedes(t, c, j, i), ~ t[i].gap
               PROVE  InOrder(At(t, w, j).scope, t[i])
    BY <1>1 DEF Gapless
  <2>0. i \in 1 .. n
    BY <1>1
  <2>1. Precedes(q, c, j + 1, i + 1)
    BY ONLY <1>4, <2>0, j \in 0 .. n - 1, Precedes(t, c, j, i)
  <2>2. /\ i + 1 \in 1 .. n /\ j + 1 \in 0 .. n /\ j + 1 < i + 1
        /\ t[i] = q[i + 1]
    BY <1>1
  <2>3. InOrder(At(q, v, j + 1).scope, q[i + 1])
    BY <2>1, <2>2 DEF Gapless
  <2> QED
    BY <1>3, <2>2, <2>3
<1>6. ASSUME NEW spans, Reported(q, v, c, spans)
      PROVE  Reported(t, w, c, spans)
  <2> SUFFICES ASSUME NEW j \in 0 .. n - 1, Precedes(t, c, j, n)
               PROVE  At(t, w, j).scope = spans
    <3>1. Len(t) + 1 = n
      BY <1>1
    <3> QED
      BY <1>1, <3>1 DEF Reported
  <2>1. Precedes(q, c, j + 1, n + 1) /\ j + 1 \in 0 .. n
    BY <1>1, <1>4
  <2> QED
    BY <1>3, <1>6, <2>1 DEF Reported
<1> QED
  BY <1>2, <1>5, <1>6 DEF t

\* The thread has received a record of another CPU.
LEMMA TailGaplessElsewhere ==
    ASSUME NEW q \in Seq(Event), q # << >>, NEW v, NEW c \in Cpus,
           Gapless(q, v, c), Head(q).cpu # c
    PROVE  /\ Gapless(Tail(q), v, c)
           /\ \A spans : Reported(q, v, c, spans) => Reported(Tail(q), v, c, spans)
<1> DEFINE t == Tail(q)
           n == Len(q)
           next(j) == IF j = 0 THEN 0 ELSE j + 1
<1>1. /\ t \in Seq(Event) /\ n \in Nat \ {0} /\ Len(t) = n - 1
      /\ \A i \in 1 .. n - 1 : t[i] = q[i + 1]
      /\ Head(q) = q[1]
  BY TailAt
<1> HIDE DEF t
<1>2. \A j \in 0 .. n - 1 : At(t, v, j) = At(q, v, next(j))
  BY <1>1 DEF At
<1>3. ASSUME NEW i \in 1 .. n, NEW j \in 0 .. n - 1, Precedes(t, c, j, i)
      PROVE  Precedes(q, c, next(j), i + 1)
  BY ONLY <1>1, <1>3, Head(q).cpu # c, TailPrecedesElsewhere
<1>4. Gapless(t, v, c)
  <2> SUFFICES ASSUME NEW i \in 1 .. n - 1, NEW j \in 0 .. n - 1,
                      j < i, t[i].cpu = c, Precedes(t, c, j, i), ~ t[i].gap
               PROVE  InOrder(At(t, v, j).scope, t[i])
    BY <1>1 DEF Gapless
  <2>0. i \in 1 .. n
    BY <1>1
  <2>1. Precedes(q, c, next(j), i + 1)
    BY ONLY <1>3, <2>0, j \in 0 .. n - 1, Precedes(t, c, j, i)
  <2>2. /\ i + 1 \in 1 .. n /\ next(j) \in 0 .. n /\ next(j) < i + 1
        /\ t[i] = q[i + 1]
    BY <1>1
  <2>3. InOrder(At(q, v, next(j)).scope, q[i + 1])
    BY <2>1, <2>2 DEF Gapless
  <2> QED
    BY <1>2, <2>2, <2>3
<1>5. ASSUME NEW spans, Reported(q, v, c, spans)
      PROVE  Reported(t, v, c, spans)
  <2> SUFFICES ASSUME NEW j \in 0 .. n - 1, Precedes(t, c, j, n)
               PROVE  At(t, v, j).scope = spans
    <3>1. Len(t) + 1 = n
      BY <1>1
    <3> QED
      BY <1>1, <3>1 DEF Reported
  <2>1. Precedes(q, c, next(j), n + 1) /\ next(j) \in 0 .. n
    BY <1>1, <1>3
  <2> QED
    BY <1>2, <1>5, <2>1 DEF Reported
<1> QED
  BY <1>4, <1>5 DEF t

-----------------------------------------------------------------------------
(***************************************************************************)
(* Steps of the eBPF programs.                                             *)
(***************************************************************************)

\* Nothing changes for the CPUs other than c, nor for the tracing thread.
OthersKeep(c) ==
    /\ \A d \in Cpus : d # c => scope'[d] = scope[d] /\ missing'[d] = missing[d]
    /\ UNCHANGED tracingVars

LEMMA PutKeepsRecords ==
    ASSUME TypeInv, RecordInv, NEW c \in Cpus, OthersKeep(c),
           NEW e \in Event, queue' = Append(queue, e), e.cpu = c, scope'[c] = e.scope,
           ~ e.gap => ~ missing[c] /\ InOrder(scope[c], e)
    PROVE  RecordInv'
<1> SUFFICES ASSUME BpfLevel # 0, NEW d \in Cpus
             PROVE  /\ Gapless(queue', seen'[d], d)
                    /\ ~ missing'[d] => Reported(queue', seen'[d], d, scope'[d])
  BY DEF RecordInv
<1>1. seen'[d] = seen[d] /\ seen[d] \in View /\ queue \in Seq(Event)
  BY CpuFacts DEF OthersKeep, tracingVars, TypeInv, QueueTyped
<1>2. /\ Gapless(queue, seen[d], d)
      /\ ~ missing[d] => Reported(queue, seen[d], d, scope[d])
  BY DEF RecordInv
<1>3. CASE d = c
  <2> DEFINE spans == scope[d]
             v == seen[d]
  <2>1. ~ e.gap => Reported(queue, v, d, spans) /\ InOrder(spans, e)
    BY <1>2, <1>3
  <2>2. v \in View /\ Gapless(queue, v, d) /\ e.cpu = d
    BY <1>1, <1>2, <1>3
  <2>3. /\ Gapless(Append(queue, e), v, d)
        /\ Reported(Append(queue, e), v, d, e.scope)
    <3> HIDE DEF spans, v
    <3> QED
      BY ONLY <1>1, <2>1, <2>2, d \in Cpus, e \in Event, PutGapless
  <2> QED
    BY <1>1, <1>3, <2>3
<1>4. CASE d # c
  <2>1. /\ Gapless(Append(queue, e), seen[d], d)
        /\ \A spans : Reported(queue, seen[d], d, spans)
               => Reported(Append(queue, e), seen[d], d, spans)
    BY <1>1, <1>2, <1>4, PutGaplessElsewhere
  <2>2. scope'[d] = scope[d] /\ missing'[d] = missing[d]
    BY <1>4 DEF OthersKeep
  <2> QED
    BY <1>1, <1>2, <2>1, <2>2
<1> QED
  BY <1>3, <1>4

\* What is not put in the queue is missing.
LEMMA MissingKeepsRecords ==
    ASSUME RecordInv, NEW c \in Cpus, OthersKeep(c), UNCHANGED queue, missing'[c]
    PROVE  RecordInv'
<1> SUFFICES ASSUME BpfLevel # 0, NEW d \in Cpus
             PROVE  /\ Gapless(queue', seen'[d], d)
                    /\ ~ missing'[d] => Reported(queue', seen'[d], d, scope'[d])
  BY DEF RecordInv
<1>1. seen'[d] = seen[d] /\ queue' = queue
  BY DEF OthersKeep, tracingVars
<1>2. /\ Gapless(queue, seen[d], d)
      /\ ~ missing[d] => Reported(queue, seen[d], d, scope[d])
  BY DEF RecordInv
<1>3. d # c => scope'[d] = scope[d] /\ missing'[d] = missing[d]
  BY DEF OthersKeep
<1> QED
  BY <1>1, <1>2, <1>3

LEMMA EmitKeepsRecords ==
    ASSUME TypeInv, RecordInv, UNCHANGED tracingVars,
           NEW c \in Cpus, NEW kind \in Kinds, NEW level \in 0 .. MaxLevel,
           NEW name \in Names, NEW open \in Seq(Span), NEW inOrder \in BOOLEAN,
           EmitEvent(c, kind, level, name, open, inOrder),
           scope'[c] = open, \A d \in Cpus : d # c => scope'[d] = scope[d],
           \A e \in Event : inOrder /\ e.kind = kind /\ e.name = name /\ e.scope = open
                                => InOrder(scope[c], e)
    PROVE  RecordInv'
<1>1. missing \in [Cpus -> BOOLEAN] /\ lostEnds[c] \in Nat
  BY CpuFacts DEF TypeInv, QueueTyped
<1>2. CASE Submit(c, kind, level, name, open, inOrder)
  <2> DEFINE e == [cpu |-> c, kind |-> kind, level |-> level, name |-> name,
                   scope |-> open, lost |-> lostEnds[c], gap |-> missing[c] \/ ~ inOrder]
  <2>1. e \in Event
    <3>1. (missing[c] \/ ~ inOrder) \in BOOLEAN
      OBVIOUS
    <3> QED
      BY <1>1, <3>1 DEF Event
  <2>2. /\ e.cpu = c /\ e.kind = kind /\ e.name = name /\ e.scope = open
        /\ ~ e.gap => ~ missing[c] /\ inOrder
    OBVIOUS
  <2>3. queue' = Append(queue, e) /\ missing' = [missing EXCEPT ![c] = FALSE]
    BY <1>2 DEF Submit, Put
  <2> HIDE DEF e
  <2>4. OthersKeep(c)
    BY <1>1, <2>3 DEF OthersKeep
  <2>5. ~ e.gap => ~ missing[c] /\ InOrder(scope[c], e)
    BY <2>1, <2>2
  <2> QED
    BY <2>1, <2>2, <2>3, <2>4, <2>5, PutKeepsRecords
<1>3. CASE LoseRecord(c, kind)
  <2>1. queue' = queue /\ missing' = [missing EXCEPT ![c] = TRUE]
    BY <1>3 DEF LoseRecord
  <2>2. OthersKeep(c) /\ missing'[c]
    BY <1>1, <2>1 DEF OthersKeep
  <2> QED
    BY <2>1, <2>2, MissingKeepsRecords
<1> QED
  BY <1>2, <1>3 DEF EmitEvent

LEMMA MessageSync ==
    ASSUME TypeInv, RecordInv, UNCHANGED tracingVars, NEW c \in Cpus,
           NEW level \in Levels, NEW name \in Names, Message(c, level, name)
    PROVE  RecordInv'
<1> DEFINE kind == "msg"
           open == scope[c]
           inOrder == TRUE
<1>1. /\ open \in Seq(Span) /\ kind \in Kinds /\ inOrder \in BOOLEAN
      /\ level \in 0 .. MaxLevel
  <2>1. open \in Seq(Span)
    BY CpuFacts
  <2>2. level \in 0 .. MaxLevel
    BY LevelAssumption DEF Levels
  <2> QED
    BY <2>1, <2>2 DEF Kinds
<1>3. /\ EmitEvent(c, kind, level, name, open, inOrder)
      /\ scope'[c] = open /\ \A d \in Cpus : d # c => scope'[d] = scope[d]
  BY DEF Message
<1>2. \A e \in Event : inOrder /\ e.kind = kind /\ e.name = name /\ e.scope = open
                           => InOrder(scope[c], e)
  BY DEF InOrder
<1> HIDE DEF kind, open, inOrder
<1> QED
  BY <1>1, <1>2, <1>3, EmitKeepsRecords

LEMMA StartSpanSync ==
    ASSUME TypeInv, RecordInv, UNCHANGED tracingVars, NEW c \in Cpus,
           NEW level \in Levels, NEW span \in Span, StartSpan(c, level, span)
    PROVE  RecordInv'
<1> DEFINE kind == "span_start"
           name == span.name
           open == Append(scope[c], span)
           inOrder == TRUE
<1>1. scope \in [Cpus -> Seq(Span)] /\ missing \in [Cpus -> BOOLEAN]
  BY DEF TypeInv, QueueTyped
<1>2. /\ scope' = [scope EXCEPT ![c] = open]
      /\ IF level <= BpfLevel
         THEN EmitEvent(c, kind, level, name, open, inOrder)
         ELSE queue' = queue /\ missing' = [missing EXCEPT ![c] = TRUE]
  BY DEF StartSpan
<1>3. /\ open \in Seq(Span) /\ kind \in Kinds /\ name \in Names /\ inOrder \in BOOLEAN
      /\ level \in 0 .. MaxLevel
  <2>1. open \in Seq(Span)
    BY <1>1
  <2>2. level \in 0 .. MaxLevel
    BY LevelAssumption DEF Levels
  <2>3. name \in Names
    BY DEF Span
  <2> QED
    BY <2>1, <2>2, <2>3 DEF Kinds
<1>4. scope'[c] = open /\ \A d \in Cpus : d # c => scope'[d] = scope[d]
  BY <1>1, <1>2
<1>5. \A e \in Event : inOrder /\ e.kind = kind /\ e.name = name /\ e.scope = open
                           => InOrder(scope[c], e)
  BY DEF InOrder
<1> HIDE DEF kind, name, open, inOrder
<1>6. CASE level <= BpfLevel
  BY <1>2, <1>3, <1>4, <1>5, <1>6, EmitKeepsRecords
<1>7. CASE ~ (level <= BpfLevel)
  <2>1. OthersKeep(c) /\ missing'[c] /\ queue' = queue
    BY <1>1, <1>2, <1>4, <1>7 DEF OthersKeep
  <2> QED
    BY <2>1, MissingKeepsRecords
<1> QED
  BY <1>6, <1>7

\* Without the innermost span, the end of which is in order, a sequence of spans is as
\* it was before that span was started.
LEMMA RemoveInnermost ==
    ASSUME NEW s \in Seq(Span), Len(s) # 0
    PROVE  s = Append(RemoveAt(s, Len(s)), s[Len(s)])
<1> DEFINE n == Len(s)
           r == RemoveAt(s, n)
           x == s[n]
           t == Append(r, x)
<1>1. n \in Nat \ {0} /\ n \in 1 .. n /\ x \in Span
  OBVIOUS
<1>2. /\ r \in Seq(Span) /\ Len(r) = n - 1
      /\ \A i \in 1 .. n - 1 : r[i] = s[i]
  BY <1>1, RemoveAtProperties
<1> HIDE DEF r
<1>3. /\ t \in Seq(Span) /\ Len(t) = n
      /\ \A i \in 1 .. n - 1 : t[i] = r[i]
      /\ t[n] = x
  <2>1. /\ t \in Seq(Span) /\ Len(t) = Len(r) + 1
        /\ \A i \in 1 .. Len(r) : t[i] = r[i]
        /\ t[Len(r) + 1] = x
    BY <1>1, <1>2, AppendIsAt
  <2> QED
    BY <1>1, <1>2, <2>1
<1>4. \A i \in 1 .. n : t[i] = s[i]
  <2>1. \A i \in 1 .. n : i \in 1 .. n - 1 \/ i = n
    BY <1>1
  <2> QED
    BY <1>2, <1>3, <2>1
<1> HIDE DEF t, n
<1>5. s = t
  BY <1>3, <1>4, SeqEqual DEF n
<1> QED
  BY <1>5 DEF t, r, n

LEMMA EndSpanSync ==
    ASSUME TypeInv, RecordInv, UNCHANGED tracingVars, NEW c \in Cpus,
           NEW k \in 1 .. Len(scope[c]), EndSpan(c, k)
    PROVE  RecordInv'
<1> DEFINE kind == "span_end"
           name == scope[c][k].name
           open == RemoveAt(scope[c], k)
           inOrder == k = Len(scope[c])
           level == 0
<1>1. scope \in [Cpus -> Seq(Span)] /\ scope[c] \in Seq(Span)
  BY DEF TypeInv
<1>2. /\ scope' = [scope EXCEPT ![c] = open]
      /\ IF BpfLevel # 0 THEN EmitEvent(c, kind, level, name, open, inOrder)
                         ELSE TRUE
  BY DEF EndSpan
<1>3. /\ open \in Seq(Span) /\ kind \in Kinds /\ name \in Names /\ inOrder \in BOOLEAN
      /\ level \in 0 .. MaxLevel
  <2>1. scope[c][k] \in Span /\ open \in Seq(Span)
    BY <1>1, RemoveAtProperties
  <2> QED
    BY <2>1, LevelAssumption DEF Kinds, Span
<1>4. scope'[c] = open /\ \A d \in Cpus : d # c => scope'[d] = scope[d]
  BY <1>1, <1>2
<1>5. \A e \in Event : inOrder /\ e.kind = kind /\ e.name = name /\ e.scope = open
                           => InOrder(scope[c], e)
  <2> SUFFICES ASSUME NEW e \in Event, inOrder,
                      e.kind = kind, e.name = name, e.scope = open
               PROVE  InOrder(scope[c], e)
    OBVIOUS
  <2>1. Len(scope[c]) # 0 /\ k = Len(scope[c])
    BY <1>1
  <2>2. scope[c] = Append(open, scope[c][k])
    BY <1>1, <2>1, RemoveInnermost
  <2>3. scope[c][k] \in Span
    BY <1>1
  <2> QED
    BY <2>2, <2>3 DEF InOrder
<1> HIDE DEF kind, name, open, inOrder, level
<1>6. CASE BpfLevel # 0
  BY <1>2, <1>3, <1>4, <1>5, <1>6, EmitKeepsRecords
<1>7. CASE BpfLevel = 0
  BY <1>7 DEF RecordInv
<1> QED
  BY <1>6, <1>7

LEMMA ProgramSync ==
    ASSUME SyncInv, NEW c \in Cpus, Program(c), UNCHANGED tracingVars
    PROVE  RecordInv' /\ ExactInv'
<1>0. TypeInv /\ RecordInv /\ ExactInv
  BY DEF SyncInv, Inv
<1>e. ExactInv'
  BY <1>0 DEF tracingVars, ExactInv, StackOf
<1> SUFFICES RecordInv'
  BY <1>e
<1>1. CASE \E l \in Levels, n \in Names : Message(c, l, n)
  <2>1. PICK l \in Levels, n \in Names : Message(c, l, n)
    BY <1>1
  <2> QED
    BY <1>0, <2>1, MessageSync
<1>2. CASE \E l \in Levels, n \in Names, id \in FreshIds(c) :
               StartSpan(c, l, [name |-> n, id |-> id])
  <2>1. PICK l \in Levels, n \in Names, id \in FreshIds(c) :
            StartSpan(c, l, [name |-> n, id |-> id])
    BY <1>2
  <2>2. id \in Ids
    BY DEF FreshIds
  <2>3. [name |-> n, id |-> id] \in Span
    BY <2>2 DEF Span
  <2> QED
    BY <1>0, <2>1, <2>3, StartSpanSync
<1>3. CASE \E k \in DOMAIN scope[c] : EndSpan(c, k)
  <2>1. DOMAIN scope[c] = 1 .. Len(scope[c])
    BY <1>0, CpuFacts
  <2>2. PICK k \in 1 .. Len(scope[c]) : EndSpan(c, k)
    BY <1>3, <2>1
  <2> QED
    BY <1>0, <2>2, EndSpanSync
<1> QED
  BY <1>1, <1>2, <1>3 DEF Program

-----------------------------------------------------------------------------
(***************************************************************************)
(* The step of the tracing thread.                                         *)
(***************************************************************************)

LEMMA VisibleProperties ==
    ASSUME NEW s \in Seq(Span), NEW x \in Span
    PROVE  /\ Visible(s) \in Seq(Span)
           /\ Visible(Append(s, x)) = IF x.name \in Undecodable THEN Visible(s)
                                                                ELSE Append(Visible(s), x)
<1> DEFINE T == [name : Names \ Undecodable, id : Ids]
<1>1. x \in T <=> x.name \notin Undecodable
  BY DEF Span
<1> HIDE DEF T
<1>2. Kept(s, T) \in Seq(Span)
  BY KeptEmbeds
<1>3. Kept(Append(s, x), T) = IF x \in T THEN Append(Kept(s, T), x) ELSE Kept(s, T)
  BY KeptAppend
<1> QED
  BY <1>1, <1>2, <1>3 DEF Visible, T

LEMMA VisibleOfNothing == Visible(<< >>) = << >>
BY KeptOfNothing DEF Visible

\* Popping through the name of the innermost span takes that span and no other.
LEMMA PoppedInnermost ==
    ASSUME NEW s \in Seq(Span), NEW x \in Span
    PROVE  PoppedThrough(Append(s, x), x.name) = s
<1> DEFINE t == Append(s, x)
           n == Len(s)
           named == {i \in DOMAIN t : t[i].name = x.name}
<1>1. /\ t \in Seq(Span) /\ n \in Nat /\ Len(t) = n + 1
      /\ \A i \in 1 .. n : t[i] = s[i]
      /\ t[n + 1] = x
  BY AppendIsAt
<1>2. PoppedThrough(t, x.name) = SubSeq(t, 1, IF named = {} THEN 0 ELSE Max(named) - 1)
  BY DEF PoppedThrough
<1> HIDE DEF t
<1>3. named \in SUBSET (1 .. n + 1) /\ n + 1 \in named
  <2>1. DOMAIN t = 1 .. n + 1
    BY <1>1
  <2> QED
    BY <1>1, <2>1
<1> HIDE DEF named, n
<1>4. Max(named) \in named /\ \A i \in named : i <= Max(named)
  <2>1. n + 1 \in Nat /\ named # {}
    BY <1>1, <1>3
  <2> QED
    BY ONLY <1>3, <2>1, MaxOfInterval
<1>5. Max(named) = n + 1
  <2>1. PICK m : m = Max(named)
    OBVIOUS
  <2>2. m \in 1 .. n + 1 /\ n + 1 <= m
    BY <1>3, <1>4, <2>1
  <2>3. m = n + 1
    BY ONLY <1>1, <2>2
  <2> QED
    BY <2>1, <2>3
<1>6. PoppedThrough(t, x.name) = SubSeq(t, 1, n)
  BY <1>1, <1>2, <1>3, <1>5
<1>7. SubSeq(t, 1, n) = s
  <2> DEFINE r == SubSeq(t, 1, n)
  <2>1. \A i \in 1 .. n : t[i] \in Span
    BY <1>1 DEF n
  <2>2. /\ r \in Seq(Span)
        /\ Len(r) = IF 1 <= n THEN n - 1 + 1 ELSE 0
        /\ \A i \in 1 .. n - 1 + 1 : r[i] = t[1 + i - 1]
    <3>1. 1 \in Int /\ n \in Int
      BY <1>1
    <3> QED
      BY ONLY <2>1, <3>1, SubSeqProperties
  <2>3. Len(r) = n /\ \A i \in 1 .. n : r[i] = s[i]
    BY <1>1, <2>2
  <2> HIDE DEF r
  <2>4. r = s
    BY <2>2, <2>3, SeqEqual DEF n
  <2> QED
    BY <2>4 DEF r
<1> QED
  BY <1>6, <1>7 DEF t

\* The thread does with its stack what the program did with its spans.
LEMMA HandledInOrder ==
    ASSUME TypeInv, NEW e \in Event, StartsItsSpan(e), Handles(e),
           inSync[e.cpu] => StackOf(e.cpu) = Visible(seen[e.cpu].scope),
           ~ e.gap => InOrder(seen[e.cpu].scope, e)
    PROVE  /\ inSync'[e.cpu] => StackOf(e.cpu)' = Visible(e.scope)
           /\ seen'[e.cpu].scope = e.scope
           /\ \A d \in Cpus : d # e.cpu => /\ seen'[d] = seen[d]
                                          /\ inSync'[d] = inSync[d]
                                          /\ StackOf(d)' = StackOf(d)
<1> DEFINE c == e.cpu
           old == StackOf(c)
           open == seen[c].scope
           Outcome(stack, skipped) ==
               /\ Observe(e, stack, skipped)
               /\ StackOf(c)' = stack
               /\ \A d \in Cpus : d # c => StackOf(d)' = StackOf(d)
               /\ old = Visible(open) /\ InOrder(open, e) /\ ~ skipped
                      => stack = Visible(e.scope)
<1>1. c \in Cpus /\ e.scope \in Seq(Span) /\ old \in Seq(Span)
  BY EventIsView, CpuFacts
<1>2. open \in Seq(Span)
  BY <1>1, CpuFacts DEF View
<1>3. inSync \in [Cpus -> BOOLEAN]
  BY DEF TypeInv, ThreadTyped
<1>4. ASSUME NEW stack, NEW skipped, Outcome(stack, skipped)
      PROVE  /\ inSync'[c] => StackOf(c)' = Visible(e.scope)
             /\ seen'[c].scope = e.scope
             /\ \A d \in Cpus : d # c => /\ seen'[d] = seen[d] /\ inSync'[d] = inSync[d]
                                         /\ StackOf(d)' = StackOf(d)
  <2>1. /\ inSync'[c] = (\/ inSync[c] /\ ~ e.gap /\ ~ skipped
                         \/ e.scope = << >> /\ stack = << >>)
        /\ \A d \in Cpus : d # c => inSync'[d] = inSync[d]
    BY <1>1, <1>3, <1>4 DEF Observe
  <2>2. /\ seen'[c].scope = e.scope
        /\ \A d \in Cpus : d # c => seen'[d] = seen[d]
    BY <1>4, ObserveProperties
  <2>3. inSync'[c] => StackOf(c)' = Visible(e.scope)
    BY <1>4, <2>1, VisibleOfNothing
  <2> QED
    BY <1>4, <2>1, <2>2, <2>3
<1> SUFFICES \E stack, skipped : Outcome(stack, skipped)
  BY <1>4
<1> HIDE DEF c, old, open
<1>5. CASE DecodeFails(e)
  <2>1. e.name \in Undecodable /\ Observe(e, old, FALSE) /\ stacks' = stacks
    BY <1>5 DEF DecodeFails, old, c
  <2>2. StackOf(c)' = old /\ \A d \in Cpus : StackOf(d)' = StackOf(d)
    BY <2>1 DEF StackOf, old
  <2>3. ASSUME old = Visible(open), InOrder(open, e)
        PROVE  old = Visible(e.scope)
    <3>1. CASE e.scope = open
      BY <2>3, <3>1
    <3>2. ASSUME NEW x \in Span, x.name = e.name, e.scope = Append(open, x)
          PROVE  old = Visible(e.scope)
      BY <1>2, <2>1, <2>3, <3>2, VisibleProperties
    <3>3. ASSUME NEW x \in Span, x.name = e.name, open = Append(e.scope, x)
          PROVE  old = Visible(e.scope)
      BY <1>1, <2>1, <2>3, <3>3, VisibleProperties
    <3> QED
      BY <2>3, <3>1, <3>2, <3>3 DEF InOrder
  <2>4. Outcome(old, FALSE)
    BY <2>1, <2>2, <2>3
  <2> QED
    BY <2>4
<1>6. CASE \E filter \in Filters : Filtered(e, filter)
  <2>1. /\ e.kind # "span_end" /\ Observe(e, old, e.kind = "span_start")
        /\ stacks' = Grown(c)
    BY <1>6 DEF Filtered, old, c
  <2>2. StackOf(c)' = old /\ \A d \in Cpus : StackOf(d)' = StackOf(d)
    BY <1>1, <2>1, StacksGrown DEF old
  <2>3. ASSUME old = Visible(open), InOrder(open, e), e.kind # "span_start"
        PROVE  old = Visible(e.scope)
    BY <2>1, <2>3 DEF InOrder
  <2>4. Outcome(old, e.kind = "span_start")
    BY <2>1, <2>2, <2>3
  <2> QED
    BY <2>4
<1>7. CASE \E filter \in Filters : EmitMessage(e, filter)
  <2>1. e.kind = "msg" /\ Observe(e, old, FALSE) /\ stacks' = Grown(c)
    BY <1>7 DEF EmitMessage, old, c
  <2>2. StackOf(c)' = old /\ \A d \in Cpus : StackOf(d)' = StackOf(d)
    BY <1>1, <2>1, StacksGrown DEF old
  <2>3. ASSUME old = Visible(open), InOrder(open, e)
        PROVE  old = Visible(e.scope)
    BY <2>1, <2>3 DEF InOrder
  <2>4. Outcome(old, FALSE)
    BY <2>1, <2>2, <2>3
  <2> QED
    BY <2>4
<1>8. CASE \E filter \in Filters : EmitStart(e, filter)
  <2> DEFINE stack == Append(old, Last(e.scope))
  <2>1. /\ e.name \notin Undecodable /\ e.kind = "span_start" /\ Observe(e, stack, FALSE)
        /\ stacks' = [Grown(c) EXCEPT ![c + 1] = stack]
    BY <1>8 DEF EmitStart, old, c
  <2>2. StackOf(c)' = stack /\ \A d \in Cpus : d # c => StackOf(d)' = StackOf(d)
    <3>1. Last(e.scope) \in Span
      BY <2>1 DEF StartsItsSpan
    <3>2. stack \in Seq(Span)
      BY <1>1, <3>1, AppendIsAt
    <3> HIDE DEF stack
    <3> QED
      BY <1>1, <2>1, <3>2, StacksReplaced
  <2>3. ASSUME old = Visible(open), InOrder(open, e)
        PROVE  stack = Visible(e.scope)
    <3>1. PICK x \in Span : x.name = e.name /\ e.scope = Append(open, x)
      BY <2>1, <2>3 DEF InOrder
    <3>2. Last(e.scope) = x
      BY <1>2, <3>1, AppendIsAt
    <3>3. Visible(e.scope) = Append(Visible(open), x)
      BY <1>2, <2>1, <3>1, VisibleProperties
    <3> QED
      BY <2>3, <3>2, <3>3
  <2>4. Outcome(stack, FALSE)
    BY <2>1, <2>2, <2>3
  <2> QED
    BY <2>4
<1>9. CASE EmitEnd(e)
  <2> DEFINE stack == PoppedThrough(old, e.name)
  <2>1. /\ e.name \notin Undecodable /\ e.kind = "span_end" /\ Observe(e, stack, FALSE)
        /\ stacks' = [Grown(c) EXCEPT ![c + 1] = stack]
    BY <1>9 DEF EmitEnd, old, c
  <2>2. StackOf(c)' = stack /\ \A d \in Cpus : d # c => StackOf(d)' = StackOf(d)
    <3>1. stack \in Seq(Span)
      BY <1>1, PoppedThroughProperties
    <3> HIDE DEF stack
    <3> QED
      BY <1>1, <2>1, <3>1, StacksReplaced
  <2>3. ASSUME old = Visible(open), InOrder(open, e)
        PROVE  stack = Visible(e.scope)
    <3>1. PICK x \in Span : x.name = e.name /\ open = Append(e.scope, x)
      BY <2>1, <2>3 DEF InOrder
    <3>2. /\ Visible(open) = Append(Visible(e.scope), x)
          /\ Visible(e.scope) \in Seq(Span)
      BY <1>1, <2>1, <3>1, VisibleProperties
    <3>3. PoppedThrough(Append(Visible(e.scope), x), x.name) = Visible(e.scope)
      BY <3>2, PoppedInnermost
    <3> QED
      BY <2>3, <3>1, <3>2, <3>3
  <2>4. Outcome(stack, FALSE)
    BY <2>1, <2>2, <2>3
  <2> QED
    BY <2>4
<1> QED
  BY <1>5, <1>6, <1>7, <1>8, <1>9 DEF Handles

LEMMA ReceiveSync ==
    ASSUME SyncInv, Receive
    PROVE  RecordInv' /\ ExactInv'
<1>0. TypeInv /\ RecordInv /\ ExactInv /\ Inv
  BY DEF SyncInv, Inv
<1>1. /\ queue \in Seq(Event) /\ queue # << >> /\ queue' = Tail(queue)
      /\ UNCHANGED <<scope, missing, losses, lostEnds, crossed>>
      /\ Handles(Head(queue)) /\ Head(queue) \in Event
  <2>1. queue \in Seq(Event) /\ queue # << >> /\ queue' = Tail(queue)
    BY <1>0 DEF TypeInv, QueueTyped, Receive, Deliver
  <2>2. Handles(Head(queue))
    BY Zenon DEF Receive, Handles
  <2> QED
    BY <2>1, <2>2, TailAt DEF Receive
<1>2. PICK e \in Event : e = Head(queue)
  BY <1>1
<1> DEFINE c == e.cpu
<1>3. c \in Cpus /\ StartsItsSpan(e) /\ Handles(e)
  <2>1. e = queue[1] /\ 1 \in 1 .. Len(queue)
    BY <1>1, <1>2, TailAt
  <2>2. StartsItsSpan(queue[1])
    BY <1>0, <2>1 DEF TypeInv, QueueTyped
  <2> QED
    BY <1>1, <1>2, <2>1, <2>2, EventIsView
<1>4. BpfLevel # 0
  BY <1>0, <1>1 DEF Inv, ChainInv
<1>5. \A d \in Cpus : /\ Gapless(queue, seen[d], d)
                      /\ ~ missing[d] => Reported(queue, seen[d], d, scope[d])
  BY <1>0, <1>4 DEF RecordInv
<1>6. ~ e.gap => InOrder(seen[c].scope, e)
  BY <1>1, <1>2, <1>3, <1>5, TailGapless
<1>7. /\ inSync'[c] => StackOf(c)' = Visible(e.scope)
      /\ seen'[c].scope = e.scope
      /\ \A d \in Cpus : d # c => /\ seen'[d] = seen[d] /\ inSync'[d] = inSync[d]
                                  /\ StackOf(d)' = StackOf(d)
  <2>1. inSync[c] => StackOf(c) = Visible(seen[c].scope)
    BY <1>0, <1>3 DEF ExactInv
  <2> QED
    BY <1>0, <1>3, <1>6, <2>1, HandledInOrder
<1> HIDE DEF c
<1>8. ExactInv'
  <2> SUFFICES ASSUME NEW d \in Cpus, inSync'[d]
               PROVE  StackOf(d)' = Visible(seen'[d].scope)
    BY DEF ExactInv, Visible
  <2>1. CASE d = c
    BY <1>7, <2>1 DEF StackOf
  <2>2. CASE d # c
    BY <1>0, <1>7, <2>2 DEF ExactInv
  <2> QED
    BY <2>1, <2>2
<1>9. RecordInv'
  <2> SUFFICES ASSUME NEW d \in Cpus
               PROVE  /\ Gapless(queue', seen'[d], d)
                      /\ ~ missing'[d] => Reported(queue', seen'[d], d, scope'[d])
    BY DEF RecordInv
  <2>1. CASE d = c
    <3>1. Head(queue).cpu = d /\ seen'[d].scope = Head(queue).scope
      BY <1>2, <1>7, <2>1 DEF c
    <3> DEFINE w == seen'[d]
               v == seen[d]
    <3>2. /\ Gapless(Tail(queue), w, d)
          /\ \A spans : Reported(queue, v, d, spans) => Reported(Tail(queue), w, d, spans)
      <4>1. w.scope = Head(queue).scope /\ Gapless(queue, v, d)
        BY <1>5, <3>1
      <4> HIDE DEF w, v
      <4> QED
        BY ONLY <1>1, <3>1, <4>1, d \in Cpus, TailGapless
    <3> QED
      BY <1>1, <1>5, <3>2
  <2>2. CASE d # c
    <3>1. Head(queue).cpu # d /\ seen'[d] = seen[d]
      BY <1>2, <1>7, <2>2 DEF c
    <3>2. /\ Gapless(Tail(queue), seen[d], d)
          /\ \A spans : Reported(queue, seen[d], d, spans)
                 => Reported(Tail(queue), seen[d], d, spans)
      BY <1>1, <1>5, <3>1, TailGaplessElsewhere
    <3> QED
      BY <1>1, <1>5, <3>1, <3>2
  <2> QED
    BY <2>1, <2>2
<1> QED
  BY <1>8, <1>9

-----------------------------------------------------------------------------
(***************************************************************************)
(* The theorems.                                                           *)
(***************************************************************************)

LEMMA InitSync == Init => SyncInv
<1> SUFFICES ASSUME Init
             PROVE  SyncInv
  OBVIOUS
<1>1. queue = << >> /\ Len(queue) = 0
  BY DEF Init, ProgramInit
<1>2. \A c \in Cpus : /\ StackOf(c) = << >> /\ scope[c] = << >>
                      /\ seen[c].scope = << >>
  BY CpusAssumption, InitCpusAssumption DEF Init, ProgramInit, StackOf, NothingSeen
<1>3. RecordInv
  <2> SUFFICES ASSUME NEW c \in Cpus
               PROVE  /\ Gapless(queue, seen[c], c)
                      /\ Reported(queue, seen[c], c, scope[c])
    BY DEF RecordInv
  <2>1. Gapless(queue, seen[c], c)
    BY <1>1 DEF Gapless
  <2>2. \A j \in 0 .. Len(queue) : At(queue, seen[c], j) = seen[c]
    BY <1>1 DEF At
  <2> QED
    BY <1>2, <2>1, <2>2 DEF Reported
<1>4. ExactInv
  BY <1>2, VisibleOfNothing DEF ExactInv
<1> QED
  BY <1>3, <1>4, InitInv DEF SyncInv

\* Every record that is not marked as a gap says exactly what became of the spans that
\* were open at the record before, and the stack follows: every step of the programs and
\* of the tracing thread keeps this.
THEOREM SyncInvCorrect == Spec => []SyncInv
<1>1. Init => SyncInv
  BY InitSync
<1>2. SyncInv /\ Inv' /\ [Next]_vars => SyncInv'
  <2> SUFFICES ASSUME SyncInv, Inv', [Next]_vars
               PROVE  RecordInv' /\ ExactInv'
    BY DEF SyncInv
  <2>1. CASE \E c \in Cpus : Program(c) /\ UNCHANGED tracingVars
    BY <2>1, ProgramSync
  <2>2. CASE Receive
    BY <2>2, ReceiveSync
  <2>3. CASE UNCHANGED vars
    BY <2>3 DEF SyncInv, RecordInv, ExactInv, StackOf, vars, programVars, tracingVars
  <2> QED
    BY <2>1, <2>2, <2>3 DEF Next
<1> QED
  BY <1>1, <1>2, InvCorrect, PTL DEF Spec

\* While user space has missed nothing of a CPU, what it shows next is nested in exactly
\* the spans that are open there, and so it is again once both sides have no span open.
THEOREM ExactWhenInSyncCorrect == Spec => []ExactWhenInSync
<1>1. SyncInv => ExactWhenInSync
  BY DEF SyncInv, ExactInv, ExactWhenInSync, Parent
<1> QED
  BY <1>1, SyncInvCorrect, PTL

-----------------------------------------------------------------------------
(***************************************************************************)
(* The promise of xbpf.h, kept where no program preempts another.          *)
(***************************************************************************)

\* Nothing is lost, compiled out, filtered out or preempted.
Undisturbed ==
    ~ Preemptible /\ losses = 0 /\ BpfLevel = MaxLevel /\ Filters = {MaxLevel}

\* Then user space misses nothing.
UndisturbedInv ==
    Undisturbed =>
        /\ \A i \in 1 .. Len(queue) : ~ queue[i].gap
        /\ \A c \in Cpus : ~ missing[c] /\ inSync[c]

LEMMA EmitUndisturbed ==
    ASSUME TypeInv, UndisturbedInv, Undisturbed', UNCHANGED tracingVars,
           NEW c \in Cpus, NEW kind, NEW level, NEW name, NEW open,
           EmitEvent(c, kind, level, name, open, TRUE)
    PROVE  UndisturbedInv'
<1>1. queue \in Seq(Event) /\ missing \in [Cpus -> BOOLEAN] /\ losses \in Nat
  BY BoundsAssumption DEF TypeInv, QueueTyped
<1> DEFINE e == [cpu |-> c, kind |-> kind, level |-> level, name |-> name,
                 scope |-> open, lost |-> lostEnds[c], gap |-> missing[c] \/ ~ TRUE]
<1>2. Submit(c, kind, level, name, open, TRUE)
  <2>1. losses' = 0
    BY DEF Undisturbed
  <2>2. LoseRecord(c, kind) => losses' = losses + 1
    BY DEF LoseRecord
  <2>3. ~ LoseRecord(c, kind)
    BY <1>1, <2>1, <2>2
  <2> QED
    BY <2>3, Zenon DEF EmitEvent
<1>3. /\ queue' = Append(queue, e) /\ losses' = losses
      /\ missing' = [missing EXCEPT ![c] = FALSE]
  BY <1>2 DEF Submit, Put
<1>4. Undisturbed
  BY <1>3 DEF Undisturbed
<1>5. /\ \A i \in 1 .. Len(queue) : ~ queue[i].gap
      /\ \A d \in Cpus : ~ missing[d] /\ inSync[d]
  BY <1>4 DEF UndisturbedInv
<1>6. ~ e.gap
  BY <1>5
<1> HIDE DEF e
<1>7. \A i \in 1 .. Len(queue') : ~ queue'[i].gap
  <2> SUFFICES ASSUME NEW i \in 1 .. Len(queue')
               PROVE  ~ queue'[i].gap
    OBVIOUS
  <2>1. /\ Len(queue) \in Nat /\ Len(queue') = Len(queue) + 1
        /\ \A k \in 1 .. Len(queue) : queue'[k] = queue[k]
        /\ queue'[Len(queue) + 1] = e
    BY <1>1, <1>3
  <2>2. i \in 1 .. Len(queue) \/ i = Len(queue) + 1
    BY <2>1
  <2> QED
    BY <1>5, <1>6, <2>1, <2>2
<1>8. \A d \in Cpus : ~ missing'[d] /\ inSync'[d]
  BY <1>1, <1>3, <1>5 DEF tracingVars
<1> QED
  BY <1>7, <1>8 DEF UndisturbedInv

LEMMA ProgramUndisturbed ==
    ASSUME TypeInv, UndisturbedInv, NEW c \in Cpus, Program(c), UNCHANGED tracingVars
    PROVE  UndisturbedInv'
<1> SUFFICES ASSUME Undisturbed'
             PROVE  UndisturbedInv'
  BY DEF UndisturbedInv
<1>1. ~ Preemptible /\ BpfLevel = MaxLevel
  BY DEF Undisturbed
<1>2. \A l \in Levels : l <= BpfLevel
  BY <1>1, LevelAssumption DEF Levels
<1>3. CASE \E l \in Levels, n \in Names : Message(c, l, n)
  BY <1>3, EmitUndisturbed DEF Message
<1>4. CASE \E l \in Levels, n \in Names, id \in FreshIds(c) :
               StartSpan(c, l, [name |-> n, id |-> id])
  BY <1>2, <1>4, EmitUndisturbed DEF StartSpan
<1>5. CASE \E k \in DOMAIN scope[c] : EndSpan(c, k)
  <2>1. PICK k \in DOMAIN scope[c] : EndSpan(c, k)
    BY <1>5
  <2>2. k = Len(scope[c])
    BY <1>1, <2>1 DEF EndSpan
  <2>3. CASE BpfLevel # 0
    <3>1. (k = Len(scope[c])) = TRUE
      BY <2>2
    <3> DEFINE open == RemoveAt(scope[c], k)
               name == scope[c][k].name
    <3>2. EmitEvent(c, "span_end", 0, name, open, k = Len(scope[c]))
      BY <2>1, <2>3 DEF EndSpan
    <3>3. EmitEvent(c, "span_end", 0, name, open, TRUE)
      BY <3>1, <3>2
    <3> QED
      BY <3>3, EmitUndisturbed
  <2>4. CASE BpfLevel = 0
    <3>1. UNCHANGED <<queue, missing, losses>>
      BY <2>1, <2>4 DEF EndSpan
    <3> QED
      BY <3>1 DEF UndisturbedInv, Undisturbed, tracingVars
  <2> QED
    BY <2>3, <2>4
<1> QED
  BY <1>3, <1>4, <1>5 DEF Program

LEMMA ReceiveUndisturbed ==
    ASSUME TypeInv, UndisturbedInv, Receive
    PROVE  UndisturbedInv'
<1> SUFFICES ASSUME Undisturbed'
             PROVE  UndisturbedInv'
  BY DEF UndisturbedInv
<1>1. /\ queue \in Seq(Event) /\ queue # << >> /\ queue' = Tail(queue)
      /\ missing' = missing /\ losses' = losses /\ inSync \in [Cpus -> BOOLEAN]
  BY DEF TypeInv, QueueTyped, ThreadTyped, Receive, Deliver
<1>2. /\ Filters = {MaxLevel}
      /\ \A i \in 1 .. Len(queue) : ~ queue[i].gap
      /\ \A d \in Cpus : ~ missing[d] /\ inSync[d]
  BY <1>1 DEF UndisturbedInv, Undisturbed
<1>3. /\ \A i \in 1 .. Len(queue) - 1 : queue'[i] = queue[i + 1]
      /\ Len(queue) \in Nat \ {0} /\ Len(queue') = Len(queue) - 1
      /\ Head(queue) = queue[1] /\ Head(queue) \in Event
  BY <1>1, TailAt
<1>4. PICK e \in Event : e = Head(queue)
  BY <1>3
<1>5. ~ e.gap /\ e.cpu \in Cpus /\ e.level \in 0 .. MaxLevel
  BY <1>2, <1>3, <1>4 DEF Event
<1>6. Handles(e)
  BY <1>4, Zenon DEF Receive, Handles
<1>7. PICK stack : Observe(e, stack, FALSE)
  <2>1. ~ \E filter \in Filters : Filtered(e, filter)
    BY <1>2, <1>5, LevelAssumption DEF Filtered
  <2> QED
    BY <1>6, <2>1 DEF Handles, DecodeFails, EmitMessage, EmitStart, EmitEnd
<1>8. \A d \in Cpus : inSync'[d]
  BY <1>1, <1>2, <1>5, <1>7 DEF Observe
<1>9. \A i \in 1 .. Len(queue') : ~ queue'[i].gap
  <2> SUFFICES ASSUME NEW i \in 1 .. Len(queue')
               PROVE  ~ queue'[i].gap
    OBVIOUS
  <2>1. i + 1 \in 1 .. Len(queue) /\ queue'[i] = queue[i + 1]
    BY <1>3
  <2> QED
    BY <1>2, <2>1
<1> QED
  BY <1>1, <1>2, <1>8, <1>9 DEF UndisturbedInv

\* "Everything emitted between a start and an end on the same CPU is nested inside that
\* span", as xbpf.h says, if nothing is lost, compiled out or filtered and no program
\* preempts another, spans of equal names included.  The run that refutes
\* EverythingIsNested shows that where programs preempt each other this fails even for
\* spans of different names.
THEOREM NestedUnlessPreempted == Spec => [](Undisturbed => \A c \in Cpus : OpenAreOnStack(c))
<1>1. Init => UndisturbedInv
  BY DEF Init, ProgramInit, UndisturbedInv
<1>2. UndisturbedInv /\ Inv /\ [Next]_vars => UndisturbedInv'
  <2> SUFFICES ASSUME UndisturbedInv, TypeInv, [Next]_vars
               PROVE  UndisturbedInv'
    BY DEF Inv
  <2>1. CASE \E c \in Cpus : Program(c) /\ UNCHANGED tracingVars
    BY <2>1, ProgramUndisturbed
  <2>2. CASE Receive
    BY <2>2, ReceiveUndisturbed
  <2>3. CASE UNCHANGED vars
    BY <2>3 DEF UndisturbedInv, Undisturbed, vars, programVars, tracingVars
  <2> QED
    BY <2>1, <2>2, <2>3 DEF Next
<1>3. UndisturbedInv /\ SyncInv => (Undisturbed => \A c \in Cpus : OpenAreOnStack(c))
  BY DEF UndisturbedInv, SyncInv, ExactInv, OpenAreOnStack
<1> QED
  BY <1>1, <1>2, <1>3, InvCorrect, SyncInvCorrect, PTL DEF Spec

=============================================================================
