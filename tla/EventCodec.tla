---------------------------- MODULE EventCodec -----------------------------
(***************************************************************************)
(* The wire format of tracing events: how BPF_TRACING_EMIT_EVENT of xbpf.h *)
(* lays an event out in reserved ring buffer memory, and how               *)
(* Event::try_from of tracing::event reads it.                             *)
(*                                                                         *)
(* The two sides are compiled apart, possibly with different lengths of    *)
(* strings and with source locations on one side only.  The memory of a    *)
(* record is not cleared when it is reserved.                              *)
(*                                                                         *)
(* The four bytes of the header are fields of a record here; what follows  *)
(* them is its payload, byte by byte, with the padding that the compiler   *)
(* of the eBPF side inserts and user space does not know of.  Which of its *)
(* errors try_from returns makes no difference to the caller.              *)
(*                                                                         *)
(* A behaviour follows one event: neither side keeps anything from one     *)
(* event to the next, except for the memory of the ring.                   *)
(***************************************************************************)
EXTENDS Integers, Sequences

CONSTANTS
    StrLen,     \* BPF_TRACING_STR_LEN as user space assumes it, 128 in the code
    KernelLens, \* BPF_TRACING_STR_LEN as the eBPF side may be built
    Emitted,    \* the events that programs emit
    Room,       \* as many bytes as the payload of a record has, or more
    Stale       \* what earlier records may have left in reserved memory

LineLen == 4 \* the bytes of a line number

\* How many bytes follow n bytes so that their number is a multiple of align.
Padding(n, align) == (align - (n % align)) % align

\* Where the line is in a record with strings of n bytes: a __u32 is aligned.
LineOffset(n) == n + n + Padding(n + n, LineLen)

\* A struct without a line is as long as the alignment of its cpu, a __u16, demands.
MsgEnd(n) == n + Padding(n, 2)

ASSUME StrLenAssumption == StrLen \in Nat /\ StrLen > LineLen /\ StrLen % 2 = 0
ASSUME KernelLensAssumption == KernelLens \subseteq Nat
ASSUME RoomAssumption == Room \in Nat /\ \A n \in KernelLens : LineOffset(n) + LineLen <= Room

\* A byte is NUL, a character of its own, or the first or the second byte of a
\* longer character.
Bytes == {"nul", "ascii", "lead", "cont"}
Strings == Seq(Bytes \ {"nul"})

Utf8(s) ==
    \A i \in DOMAIN s :
        /\ s[i] = "lead" => i < Len(s) /\ s[i + 1] = "cont"
        /\ s[i] = "cont" => i > 1 /\ s[i - 1] = "lead"

Levels == 1 .. 5
Kinds == {"msg", "span_start", "span_end"}

\* What a macro emits.  The end of a span has the level OFF.
Event == [kind : Kinds, level : 0 .. 5, cpu : Nat, content : Strings, file : Strings,
          line : [1 .. LineLen -> Bytes]]

ASSUME EmittedAssumption ==
    /\ Emitted \subseteq Event
    /\ \A e \in Emitted : e.kind = "span_end" \/ e.level \in Levels
ASSUME StaleAssumption == Stale \subseteq [1 .. Room -> Bytes]

NoLine == << >>
NoRecord == [payload |-> << >>]

VARIABLES
    strLen,    \* BPF_TRACING_STR_LEN of the eBPF side
    sourceLoc, \* whether the eBPF side is built with BPF_TRACING_SOURCE_LOC
    feature,   \* whether user space is built with tracing-source-loc
    event,     \* the event that is emitted
    record,    \* its record in the ring, until it is read
    result     \* what has become of it

vars == <<strLen, sourceLoc, feature, event, record, result>>

-----------------------------------------------------------------------------
(***************************************************************************)
(* The eBPF side.                                                          *)
(***************************************************************************)

\* How many bytes of s fit into a field of n bytes together with a NUL.
Fitting(s, n) ==
    CASE n = 0 -> 0
      [] n > 0 /\ Len(s) < n -> Len(s)
      [] n > 0 /\ Len(s) >= n -> n - 1

Cut(s, n) == SubSeq(s, 1, Fitting(s, n))

\* BPF_SNPRINTF of s into n bytes of reserved memory, from the given offset on:
\* what follows the NUL stays as it was.
Formatted(s, n, stale, offset) ==
    [i \in 1 .. n |-> IF i <= Fitting(s, n) THEN s[i]
                      ELSE IF i = Fitting(s, n) + 1 THEN "nul" ELSE stale[offset + i]]

\* What the bytes from one offset up to another held before.
Left(stale, from, to) == SubSeq(stale, from + 1, to)

\* Mutant: the line is in front of the name of the file.
PayloadSwapped(e, stale) ==
    IF sourceLoc
    THEN Formatted(e.content, strLen, stale, 0) \o e.line \o Formatted(e.file, strLen, stale, strLen)
         \o Left(stale, strLen + strLen, LineOffset(strLen))
    ELSE Formatted(e.content, strLen, stale, 0) \o Left(stale, strLen, MsgEnd(strLen))

\* struct bpf_tracing_event behind its header, with its padding.
Payload(e, stale) ==
    IF sourceLoc
    THEN Formatted(e.content, strLen, stale, 0) \o Formatted(e.file, strLen, stale, strLen)
         \o Left(stale, strLen + strLen, LineOffset(strLen)) \o e.line
    ELSE Formatted(e.content, strLen, stale, 0) \o Left(stale, strLen, MsgEnd(strLen))

KindByte(kind) ==
    CASE kind = "msg" -> 0 [] kind = "span_start" -> 1 [] kind = "span_end" -> 2

\* The record of event e, in memory that held stale.  The cpu is a __u16.
RecordOf(e, stale) ==
    [level |-> e.level, kind |-> KindByte(e.kind), cpu |-> e.cpu % 65536,
     payload |-> Payload(e, stale)]

\* BPF_TRACING_EMIT_EVENT.
Emit(stale) ==
    /\ result.status = "none"
    /\ record' = RecordOf(event, stale)
    /\ result' = [status |-> "pending"]
    /\ UNCHANGED <<strLen, sourceLoc, feature, event>>

-----------------------------------------------------------------------------
(***************************************************************************)
(* User space.                                                             *)
(***************************************************************************)

Field(payload, offset) == SubSeq(payload, offset + 1, offset + StrLen)

\* Mutants: the NUL bytes are part of the text, or a field without one is taken for
\* an empty one.
TextLenOfField(field) == Len(field)

TextLenOrNone(field) ==
    CHOOSE n \in 0 .. Len(field) :
        /\ \A i \in 1 .. n : field[i] # "nul"
        /\ (\E i \in DOMAIN field : field[i] = "nul") => n < Len(field) /\ field[n + 1] = "nul"
        /\ (\A i \in DOMAIN field : field[i] # "nul") => n = 0

\* parse_cstr: up to the first NUL, or to the end of the field.
TextLen(field) ==
    CHOOSE n \in 0 .. Len(field) :
        /\ \A i \in 1 .. n : field[i] # "nul"
        /\ n < Len(field) => field[n + 1] = "nul"

Text(field) == SubSeq(field, 1, TextLen(field))

\* Mutant: the length of a record is compared with > in place of >=.
HasFileIfLonger(payload) == Len(payload) > StrLen + StrLen + LineLen

HasFile(payload) == Len(payload) >= StrLen + StrLen + LineLen

Content(payload) == Text(Field(payload, 0))
File(payload) == Text(Field(payload, StrLen))
Line(payload) == SubSeq(payload, StrLen + StrLen + 1, StrLen + StrLen + LineLen)

\* Event::try_from returns no error for record r.
Decodes(r) ==
    /\ Len(r.payload) >= StrLen
    /\ Utf8(Content(r.payload))
    /\ feature => HasFile(r.payload)
    /\ HasFile(r.payload) => Utf8(File(r.payload))
    /\ r.kind \in 0 .. 2
    /\ r.kind # 2 => r.level \in Levels

KindOf(byte) == CASE byte = 0 -> "msg" [] byte = 1 -> "span_start" [] byte = 2 -> "span_end"

\* An empty file, which stands for None, is that of a record without one too.
DecodedEvent(r) ==
    LET has == HasFile(r.payload)
    IN  [kind |-> KindOf(r.kind),
         level |-> IF r.kind = 2 THEN 0 ELSE r.level,
         cpu |-> r.cpu,
         content |-> Content(r.payload),
         file |-> IF has THEN File(r.payload) ELSE << >>,
         line |-> IF has THEN Line(r.payload) ELSE NoLine]

\* Event::try_from.
Decode ==
    /\ result.status = "pending"
    /\ result' = IF Decodes(record) THEN [status |-> "decoded", event |-> DecodedEvent(record)]
                 ELSE [status |-> "failed"]
    /\ record' = NoRecord
    /\ UNCHANGED <<strLen, sourceLoc, feature, event>>

-----------------------------------------------------------------------------

Init ==
    /\ strLen \in KernelLens
    /\ sourceLoc \in BOOLEAN
    /\ feature \in BOOLEAN
    /\ event \in Emitted
    /\ record = NoRecord
    /\ result = [status |-> "none"]

Next ==
    \/ \E stale \in Stale : Emit(stale)
    \/ Decode

Spec == Init /\ [][Next]_vars

-----------------------------------------------------------------------------

\* The types.  What is decoded is an event, of a kind and a level that go together.
TypeOK ==
    /\ strLen \in KernelLens
    /\ sourceLoc \in BOOLEAN
    /\ feature \in BOOLEAN
    /\ event \in Emitted
    /\ result.status \in {"none", "pending", "failed", "decoded"}
    /\ result.status = "decoded" =>
           LET e == result.event
           IN  /\ e.kind \in Kinds
               /\ e.level \in IF e.kind = "span_end" THEN {0} ELSE Levels
               /\ e.content \in Strings /\ e.file \in Strings

\* The event as a record of strLen bytes can carry it, if the header holds its cpu.
Carried(e) ==
    [kind |-> e.kind,
     level |-> IF e.kind = "span_end" THEN 0 ELSE e.level,
     cpu |-> e.cpu % 65536,
     content |-> Cut(e.content, strLen),
     file |-> IF sourceLoc THEN Cut(e.file, strLen) ELSE << >>,
     line |-> IF sourceLoc THEN e.line ELSE NoLine]

\* If both sides agree on the length of strings, user space gets the event that was
\* emitted, cut to that length, whatever the memory of the record held before.
\* It gets none if the cut strings are not valid UTF-8, or if it was built for
\* source locations and the program was not; the other way around it can read it.
RoundTrip ==
    strLen = StrLen /\ result.status \in {"failed", "decoded"} =>
        LET readable == /\ feature => sourceLoc
                        /\ Utf8(Carried(event).content) /\ Utf8(Carried(event).file)
        IN  result = IF readable THEN [status |-> "decoded", event |-> Carried(event)]
                     ELSE [status |-> "failed"]

Shorter(s, n) == SubSeq(s, 1, IF Len(s) <= n THEN Len(s) ELSE n)

\* Whatever length the eBPF side is built with, what is decoded is still the event
\* that was emitted, with as much of the message as both lengths allow.  So the start
\* and the end of a span, which are formatted alike, have equal names.
NothingForged ==
    result.status = "decoded" =>
        LET e == result.event
            c == Carried(event)
        IN  /\ e.kind = c.kind /\ e.level = c.level /\ e.cpu = c.cpu
            /\ e.content = Shorter(c.content, StrLen)

\* If the eBPF side has shorter strings, a source location is not read at all, with one
\* exception: strings that are one byte shorter.  The padding in front of the line then
\* gives the record the length of one with strings of StrLen bytes, so the line is read
\* where it is, and the name of the file lacks its first character.
LocationIfShorter ==
    result.status = "decoded" /\ strLen < StrLen =>
        LET e == result.event
            c == Carried(event)
        IN  IF sourceLoc /\ strLen + 1 = StrLen
            THEN e.line = c.line /\ (c.file # << >> => e.file = Tail(c.file))
            ELSE e.line = NoLine /\ e.file = << >>

\* xbpf.h: "Longer messages and file names are truncated."  So a record is decoded
\* however long its message is, if both sides are built alike.
LongMessagesAreTruncated ==
    strLen = StrLen /\ sourceLoc = feature /\ Utf8(event.content) /\ Utf8(event.file)
        => result.status # "failed"

=============================================================================
