-------------------------- MODULE EventCodecProofs --------------------------
(***************************************************************************)
(* What TLAPS proves about EventCodec, for all lengths of strings on       *)
(* either side, all events and all contents of reused memory.              *)
(***************************************************************************)
EXTENDS EventCodec, SequenceTheorems, WellFoundedInduction, TLAPS

-----------------------------------------------------------------------------
(***************************************************************************)
(* Strings and the fields they are formatted into.                         *)
(***************************************************************************)

LEMMA LineLenIs == LineLen = 4
  BY DEF LineLen

LEMMA LineLenTyped == LineLen \in Nat \ {0}
  BY DEF LineLen

\* Only strings of odd length need padding: two bytes in front of the line, or one at
\* the end of a record without a line.
LEMMA PaddingIs ==
    ASSUME NEW n \in Nat
    PROVE  /\ n % 2 = 0 \/ n % 2 = 1
           /\ n % 2 = 0 => LineOffset(n) = n + n /\ MsgEnd(n) = n
           /\ n % 2 = 1 => LineOffset(n) = n + n + 2 /\ MsgEnd(n) = n + 1
<1>1. CASE n % 2 = 0
  <2>1. (n + n) % 4 = 0
    BY <1>1
  <2> QED
    BY <1>1, <2>1 DEF Padding, LineOffset, MsgEnd, LineLen
<1>2. CASE n % 2 = 1
  <2>1. (n + n) % 4 = 2
    BY <1>2
  <2> QED
    BY <1>2, <2>1 DEF Padding, LineOffset, MsgEnd, LineLen
<1> QED
  BY <1>1, <1>2

LEMMA CutProperties ==
    ASSUME NEW s \in Strings, NEW n \in Nat
    PROVE  /\ Fitting(s, n) \in 0 .. n
           /\ n > 0 => Fitting(s, n) \in 0 .. n - 1
           /\ Fitting(s, n) <= Len(s)
           /\ Cut(s, n) \in Strings
           /\ Len(Cut(s, n)) = Fitting(s, n)
           /\ \A i \in 1 .. Fitting(s, n) : Cut(s, n)[i] = s[i]
<1>1. s \in Seq(Bytes \ {"nul"}) /\ Len(s) \in Nat
  BY DEF Strings
<1>2. /\ Fitting(s, n) \in 0 .. n /\ Fitting(s, n) <= Len(s)
      /\ n > 0 => Fitting(s, n) \in 0 .. n - 1
  <2>1. CASE n = 0
    BY <1>1, <2>1 DEF Fitting
  <2>2. CASE n > 0 /\ Len(s) < n
    BY <1>1, <2>2 DEF Fitting
  <2>3. CASE n > 0 /\ Len(s) >= n
    BY <1>1, <2>3 DEF Fitting
  <2> QED
    BY <1>1, <2>1, <2>2, <2>3
<1>3. \A i \in 1 .. Fitting(s, n) : s[i] \in Bytes \ {"nul"}
  BY <1>1, <1>2
<1> QED
  BY <1>2, <1>3, SubSeqProperties DEF Cut, Strings

LEMMA FormattedProperties ==
    ASSUME NEW s \in Strings, NEW n \in Nat, NEW stale \in [1 .. Room -> Bytes],
           NEW offset \in Nat, offset + n <= Room
    PROVE  LET f == Formatted(s, n, stale, offset)
           IN  /\ f \in Seq(Bytes)
               /\ Len(f) = n
               /\ \A i \in 1 .. Fitting(s, n) : f[i] = s[i] /\ f[i] # "nul"
               /\ n > 0 => f[Fitting(s, n) + 1] = "nul"
<1> DEFINE f == Formatted(s, n, stale, offset)
<1>1. s \in Seq(Bytes \ {"nul"}) /\ Len(s) \in Nat
  BY DEF Strings
<1>2. /\ Fitting(s, n) \in 0 .. n /\ Fitting(s, n) <= Len(s)
      /\ n > 0 => Fitting(s, n) \in 0 .. n - 1
  BY CutProperties
<1>3. \A i \in 1 .. Fitting(s, n) : s[i] \in Bytes \ {"nul"}
  BY <1>1, <1>2
<1>4. \A i \in 1 .. n : offset + i \in 1 .. Room
  BY RoomAssumption
<1>5. f \in [1 .. n -> Bytes]
  BY <1>3, <1>4 DEF Formatted, Bytes
<1>6. f \in Seq(Bytes) /\ Len(f) = n
  BY <1>5
<1> QED
  BY <1>2, <1>3, <1>6 DEF Formatted

\* What earlier records have left is bytes, whatever they are.
LEMMA LeftProperties ==
    ASSUME NEW stale \in [1 .. Room -> Bytes], NEW from \in Nat, NEW to \in from .. Room
    PROVE  Left(stale, from, to) \in Seq(Bytes) /\ Len(Left(stale, from, to)) = to - from
<1>1. Room \in Nat /\ \A i \in from + 1 .. to : stale[i] \in Bytes
  BY RoomAssumption
<1>2. from + 1 \in Int /\ to \in Int /\ to >= from
  OBVIOUS
<1> QED
  BY <1>1, <1>2, SubSeqProperties DEF Left

\* parse_cstr finds the only place that is free of NUL bytes before it and has one
\* after it, if anything.
LEMMA TextLenIs ==
    ASSUME NEW f \in Seq(Bytes), NEW k \in 0 .. Len(f),
           \A i \in 1 .. k : f[i] # "nul",
           k < Len(f) => f[k + 1] = "nul"
    PROVE  TextLen(f) = k
<1> DEFINE P(n) == /\ \A i \in 1 .. n : f[i] # "nul"
                   /\ n < Len(f) => f[n + 1] = "nul"
<1>1. P(k)
  OBVIOUS
<1>2. ASSUME NEW n \in 0 .. Len(f), P(n)
      PROVE  n = k
  <2>1. CASE n < k
    <3>1. n + 1 \in 1 .. k /\ n < Len(f)
      BY <2>1
    <3> QED
      BY <3>1, <1>1, <1>2
  <2>2. CASE k < n
    <3>1. k + 1 \in 1 .. n /\ k < Len(f)
      BY <2>2
    <3> QED
      BY <3>1, <1>1, <1>2
  <2> QED
    BY <2>1, <2>2
<1>3. TextLen(f) = CHOOSE n \in 0 .. Len(f) : P(n)
  BY DEF TextLen
<1> HIDE DEF P
<1> QED
  BY <1>1, <1>2, <1>3

\* What a field holds that begins with the bytes of a formatted string.
LEMMA TextOfFormatted ==
    ASSUME NEW s \in Strings, NEW n \in Nat \ {0}, NEW stale \in [1 .. Room -> Bytes],
           NEW offset \in Nat, offset + n <= Room,
           NEW field \in Seq(Bytes), NEW m \in Nat \ {0}, Len(field) = m,
           \A i \in 1 .. m : i <= n => field[i] = Formatted(s, n, stale, offset)[i]
    PROVE  Text(field) = SubSeq(Cut(s, n), 1, IF Fitting(s, n) <= m THEN Fitting(s, n) ELSE m)
<1> DEFINE f == Formatted(s, n, stale, offset)
           k == IF Fitting(s, n) <= m THEN Fitting(s, n) ELSE m
<1>1. /\ \A i \in 1 .. Fitting(s, n) : f[i] = s[i] /\ f[i] # "nul"
      /\ f[Fitting(s, n) + 1] = "nul"
  BY FormattedProperties
<1>2. /\ Fitting(s, n) \in 0 .. n - 1
      /\ Cut(s, n) \in Strings
      /\ Len(Cut(s, n)) = Fitting(s, n)
      /\ \A i \in 1 .. Fitting(s, n) : Cut(s, n)[i] = s[i]
  BY CutProperties
<1>3. k \in 0 .. m /\ k <= Fitting(s, n) /\ k < n
  BY <1>2
<1>4. \A i \in 1 .. k : field[i] = Cut(s, n)[i] /\ field[i] # "nul"
  <2> SUFFICES ASSUME NEW i \in 1 .. k
               PROVE  field[i] = Cut(s, n)[i] /\ field[i] # "nul"
    OBVIOUS
  <2>1. i \in 1 .. m /\ i <= n /\ i \in 1 .. Fitting(s, n)
    BY <1>2, <1>3
  <2> QED
    BY <2>1, <1>1, <1>2
<1>5. k < m => field[k + 1] = "nul"
  <2> SUFFICES ASSUME k < m
               PROVE  field[k + 1] = "nul"
    OBVIOUS
  <2>1. k = Fitting(s, n) /\ k + 1 \in 1 .. m /\ k + 1 <= n
    BY <1>2
  <2> QED
    BY <2>1, <1>1
<1>6. TextLen(field) = k
  <2> HIDE DEF k
  <2> QED
    BY <1>3, <1>4, <1>5, TextLenIs
<1>7. /\ SubSeq(field, 1, k) \in Seq(Bytes) /\ Len(SubSeq(field, 1, k)) = k
      /\ \A i \in 1 .. k : SubSeq(field, 1, k)[i] = field[i]
  <2>1. \A i \in 1 .. k : field[i] \in Bytes
    BY <1>3
  <2> HIDE DEF k
  <2> QED
    BY <2>1, <1>3, SubSeqProperties
<1>8. /\ SubSeq(Cut(s, n), 1, k) \in Seq(Bytes) /\ Len(SubSeq(Cut(s, n), 1, k)) = k
      /\ \A i \in 1 .. k : SubSeq(Cut(s, n), 1, k)[i] = Cut(s, n)[i]
  <2>1. \A i \in 1 .. k : Cut(s, n)[i] \in Bytes
    BY <1>2, <1>3 DEF Strings
  <2> HIDE DEF k
  <2> QED
    BY <2>1, <1>3, SubSeqProperties
<1>9. SubSeq(field, 1, k) = SubSeq(Cut(s, n), 1, k)
  <2> HIDE DEF k
  <2> QED
    BY <1>3, <1>4, <1>7, <1>8, SeqEqual
<1> QED
  BY <1>6, <1>9 DEF Text

-----------------------------------------------------------------------------
(***************************************************************************)
(* The payload of a record and what is read from it.                       *)
(***************************************************************************)

Config ==
    /\ strLen \in KernelLens
    /\ sourceLoc \in BOOLEAN
    /\ feature \in BOOLEAN
    /\ event \in Emitted

LEMMA StrLenIs == StrLen \in Nat /\ StrLen > 4 /\ StrLen % 2 = 0
  BY StrLenAssumption, LineLenIs

LEMMA ConfigFacts ==
    ASSUME Config
    PROVE  /\ strLen \in Nat
           /\ LineOffset(strLen) \in strLen + strLen .. Room - LineLen
           /\ MsgEnd(strLen) \in strLen .. Room
           /\ event \in Event
           /\ event.content \in Strings /\ event.file \in Strings
           /\ event.line \in Seq(Bytes) /\ Len(event.line) = LineLen
           /\ event.kind \in Kinds /\ event.cpu \in Nat /\ event.level \in 0 .. 5
           /\ event.kind # "span_end" => event.level \in Levels
<1>1. /\ strLen \in Nat
      /\ LineOffset(strLen) \in strLen + strLen .. Room - LineLen
      /\ MsgEnd(strLen) \in strLen .. Room
  <2>1. strLen \in Nat /\ LineOffset(strLen) + LineLen <= Room /\ Room \in Nat
    BY KernelLensAssumption, RoomAssumption DEF Config
  <2>2. /\ LineOffset(strLen) \in Nat /\ LineOffset(strLen) >= strLen + strLen
        /\ MsgEnd(strLen) \in Nat /\ MsgEnd(strLen) >= strLen
        /\ MsgEnd(strLen) <= LineOffset(strLen) + 1
    <3>1. strLen \in Nat
      BY <2>1
    <3>2. \/ LineOffset(strLen) = strLen + strLen /\ MsgEnd(strLen) = strLen
          \/ LineOffset(strLen) = strLen + strLen + 2 /\ MsgEnd(strLen) = strLen + 1
      BY ONLY <3>1, PaddingIs
    <3> QED
      BY ONLY <3>1, <3>2
  <2> QED
    BY ONLY <2>1, <2>2, LineLenIs
<1>2. event \in Event /\ (event.kind = "span_end" \/ event.level \in Levels)
  BY EmittedAssumption DEF Config
<1>3. /\ event.content \in Strings /\ event.file \in Strings
      /\ event.line \in [1 .. LineLen -> Bytes]
      /\ event.kind \in Kinds /\ event.cpu \in Nat /\ event.level \in 0 .. 5
  BY <1>2 DEF Event
<1>4. event.line \in Seq(Bytes) /\ Len(event.line) = LineLen
  BY ONLY <1>3, LineLenTyped
<1> QED
  BY <1>1, <1>2, <1>3, <1>4

LEMMA ConcatAt ==
    ASSUME NEW a \in Seq(Bytes), NEW b \in Seq(Bytes), NEW m \in Nat, NEW n \in Nat,
           Len(a) = m, Len(b) = n
    PROVE  /\ a \o b \in Seq(Bytes)
           /\ Len(a \o b) = m + n
           /\ \A i \in 1 .. m : (a \o b)[i] = a[i]
           /\ \A i \in 1 .. n : (a \o b)[m + i] = b[i]
<1>1. /\ a \o b \in Seq(Bytes)
      /\ Len(a \o b) = m + n
      /\ \A i \in 1 .. m + n : (a \o b)[i] = IF i <= m THEN a[i] ELSE b[i - m]
  BY ConcatProperties
<1>2. \A i \in 1 .. m : i \in 1 .. m + n /\ i <= m
  OBVIOUS
<1>3. \A i \in 1 .. n : m + i \in 1 .. m + n /\ ~ (m + i <= m) /\ (m + i) - m = i
  OBVIOUS
<1>4. ASSUME NEW i \in 1 .. m PROVE (a \o b)[i] = a[i]
  BY <1>1, <1>2
<1>5. ASSUME NEW i \in 1 .. n PROVE (a \o b)[m + i] = b[i]
  BY <1>1, <1>3
<1> QED
  BY <1>1, <1>4, <1>5

\* The message, the name of the file and, after the padding, the line.
LEMMA PayloadLayout ==
    ASSUME Config, NEW stale \in [1 .. Room -> Bytes]
    PROVE  LET p == Payload(event, stale)
               msg == Formatted(event.content, strLen, stale, 0)
               file == Formatted(event.file, strLen, stale, strLen)
           IN  /\ p \in Seq(Bytes)
               /\ Len(p) = IF sourceLoc THEN LineOffset(strLen) + LineLen ELSE MsgEnd(strLen)
               /\ \A i \in 1 .. strLen : p[i] = msg[i]
               /\ sourceLoc => /\ \A i \in 1 .. strLen : p[strLen + i] = file[i]
                               /\ \A i \in 1 .. LineLen :
                                      p[LineOffset(strLen) + i] = event.line[i]
<1> DEFINE msg == Formatted(event.content, strLen, stale, 0)
           file == Formatted(event.file, strLen, stale, strLen)
           both == msg \o file
           gap == Left(stale, strLen + strLen, LineOffset(strLen))
           padded == both \o gap
           whole == padded \o event.line
           short == msg \o Left(stale, strLen, MsgEnd(strLen))
<1>1. /\ strLen \in Nat /\ LineLen \in Nat /\ Room \in Nat
      /\ LineOffset(strLen) \in strLen + strLen .. Room - LineLen
      /\ MsgEnd(strLen) \in strLen .. Room
      /\ event.content \in Strings /\ event.file \in Strings
      /\ event.line \in Seq(Bytes) /\ Len(event.line) = LineLen
  BY ConfigFacts, LineLenTyped, RoomAssumption
<1>2. /\ strLen + strLen \in Nat /\ 0 + strLen <= Room /\ strLen + strLen <= Room
      /\ LineOffset(strLen) \in Nat /\ LineOffset(strLen) \in strLen + strLen .. Room
      /\ strLen + strLen + (LineOffset(strLen) - (strLen + strLen)) = LineOffset(strLen)
      /\ LineOffset(strLen) - (strLen + strLen) \in Nat
  <2>1. PICK n \in Nat : n = strLen
    BY ONLY <1>1
  <2>2. PICK room \in Nat : room = Room
    BY ONLY <1>1
  <2>3. PICK at \in n + n .. room : at = LineOffset(strLen)
    BY ONLY <1>1, <2>1, <2>2, LineLenIs
  <2> QED
    BY ONLY <2>1, <2>2, <2>3
<1>a. strLen \in Nat
  BY <1>1
<1>3. msg \in Seq(Bytes) /\ Len(msg) = strLen
  <2>1. event.content \in Strings /\ 0 + strLen <= Room
    BY <1>1, <1>2
  <2> HIDE DEF msg
  <2> QED
    BY <1>a, <2>1, FormattedProperties DEF msg
<1>4. file \in Seq(Bytes) /\ Len(file) = strLen
  <2>1. event.file \in Strings /\ strLen + strLen <= Room
    BY <1>1, <1>2
  <2> HIDE DEF file
  <2> QED
    BY <1>a, <2>1, FormattedProperties DEF file
<1>5. CASE sourceLoc
  <2>0. gap \in Seq(Bytes) /\ Len(gap) = LineOffset(strLen) - (strLen + strLen)
    BY <1>2, LeftProperties
  <2>1. Payload(event, stale) = whole
    BY <1>5 DEF Payload
  <2> HIDE DEF msg, file, gap
  <2>2. /\ both \in Seq(Bytes) /\ Len(both) = strLen + strLen
        /\ \A i \in 1 .. strLen : both[i] = msg[i]
        /\ \A i \in 1 .. strLen : both[strLen + i] = file[i]
    BY ONLY <1>a, <1>3, <1>4, ConcatAt
  <2> HIDE DEF both
  <2>3. /\ padded \in Seq(Bytes) /\ Len(padded) = LineOffset(strLen)
        /\ \A i \in 1 .. strLen + strLen : padded[i] = both[i]
    BY ONLY <1>2, <2>0, <2>2, ConcatAt
  <2> DEFINE line == event.line
  <2>a. line \in Seq(Bytes) /\ Len(line) = LineLen /\ LineLen \in Nat
    BY <1>1
  <2>b. whole = padded \o line
    OBVIOUS
  <2> HIDE DEF padded, whole, line
  <2>4. /\ whole \in Seq(Bytes) /\ Len(whole) = LineOffset(strLen) + LineLen
        /\ \A i \in 1 .. LineOffset(strLen) : whole[i] = padded[i]
        /\ \A i \in 1 .. LineLen : whole[LineOffset(strLen) + i] = line[i]
    <3>1. LineOffset(strLen) \in Nat
      BY <1>2
    <3>2. PICK at \in Nat : at = LineOffset(strLen)
      BY ONLY <3>1
    <3>3. PICK size \in Nat : size = LineLen
      BY ONLY <2>a
    <3>4. PICK a \in Seq(Bytes) : a = padded
      BY ONLY <2>3
    <3>5. PICK b \in Seq(Bytes) : b = line
      BY ONLY <2>a
    <3>6. Len(a) = at /\ Len(b) = size
      BY ONLY <2>3, <2>a, <3>2, <3>3, <3>4, <3>5
    <3>7. /\ a \o b \in Seq(Bytes) /\ Len(a \o b) = at + size
          /\ \A i \in 1 .. at : (a \o b)[i] = a[i]
          /\ \A i \in 1 .. size : (a \o b)[at + i] = b[i]
      BY ONLY <3>6, ConcatAt
    <3> QED
      BY ONLY <2>b, <3>2, <3>3, <3>4, <3>5, <3>7
  <2>5. \A i \in 1 .. strLen :
            /\ i \in 1 .. strLen + strLen /\ strLen + i \in 1 .. strLen + strLen
            /\ i \in 1 .. LineOffset(strLen) /\ strLen + i \in 1 .. LineOffset(strLen)
    BY <1>1
  <2>6. \A i \in 1 .. strLen : whole[i] = msg[i] /\ whole[strLen + i] = file[i]
    BY ONLY <2>2, <2>3, <2>4, <2>5
  <2> QED
    BY <1>5, <2>1, <2>4, <2>6 DEF msg, file, line
<1>6. CASE ~ sourceLoc
  <2>1. Payload(event, stale) = short
    BY <1>6 DEF Payload
  <2> DEFINE rest == Left(stale, strLen, MsgEnd(strLen))
  <2>2. rest \in Seq(Bytes) /\ Len(rest) = MsgEnd(strLen) - strLen
    BY <1>1, LeftProperties
  <2>3. MsgEnd(strLen) - strLen \in Nat /\ strLen + (MsgEnd(strLen) - strLen) = MsgEnd(strLen)
    BY <1>1
  <2>4. short = msg \o rest
    OBVIOUS
  <2> HIDE DEF msg, rest, short
  <2>5. /\ short \in Seq(Bytes) /\ Len(short) = MsgEnd(strLen)
        /\ \A i \in 1 .. strLen : short[i] = msg[i]
    BY ONLY <1>a, <1>3, <2>2, <2>3, <2>4, ConcatAt
  <2> QED
    BY <1>6, <2>1, <2>5 DEF msg
<1> QED
  BY <1>5, <1>6

LEMMA FieldProperties ==
    ASSUME NEW p \in Seq(Bytes), NEW offset \in Nat, offset + StrLen <= Len(p)
    PROVE  /\ Field(p, offset) \in Seq(Bytes)
           /\ Len(Field(p, offset)) = StrLen
           /\ \A i \in 1 .. StrLen : Field(p, offset)[i] = p[offset + i]
<1>1. StrLen \in Nat /\ StrLen > 0
  BY StrLenIs
<1>2. \A i \in offset + 1 .. offset + StrLen : p[i] \in Bytes
  BY <1>1
<1> QED
  BY <1>1, <1>2, SubSeqProperties DEF Field

\* The message, whatever the length of strings on the other side.
LEMMA ContentRead ==
    ASSUME Config, NEW stale \in [1 .. Room -> Bytes],
           Len(Payload(event, stale)) >= StrLen
    PROVE  Content(Payload(event, stale)) = Shorter(Cut(event.content, strLen), StrLen)
<1> DEFINE p == Payload(event, stale)
           msg == Formatted(event.content, strLen, stale, 0)
<1>0. strLen # 0
  <2> SUFFICES ASSUME strLen = 0
               PROVE  FALSE
    OBVIOUS
  <2>1. LineOffset(0) = 0 /\ MsgEnd(0) = 0
    BY PaddingIs
  <2>2. Len(p) = IF sourceLoc THEN LineOffset(strLen) + LineLen ELSE MsgEnd(strLen)
    BY PayloadLayout
  <2>3. Len(p) >= StrLen
    OBVIOUS
  <2> HIDE DEF p
  <2> QED
    BY <2>1, <2>2, <2>3, LineLenIs, StrLenIs
<1>1. /\ strLen \in Nat \ {0} /\ StrLen \in Nat \ {0} /\ 0 + strLen <= Room
      /\ event.content \in Strings
  BY <1>0, ConfigFacts, StrLenIs, RoomAssumption, LineLenIs
<1>2. p \in Seq(Bytes) /\ \A i \in 1 .. strLen : p[i] = msg[i]
  BY PayloadLayout
<1>3. Len(p) \in Nat /\ 0 + StrLen <= Len(p)
  BY <1>1, <1>2
<1> HIDE DEF p
<1>4. /\ Field(p, 0) \in Seq(Bytes) /\ Len(Field(p, 0)) = StrLen
      /\ \A i \in 1 .. StrLen : Field(p, 0)[i] = p[0 + i]
  BY <1>1, <1>2, <1>3, FieldProperties
<1>5. \A i \in 1 .. StrLen : i <= strLen => Field(p, 0)[i] = msg[i]
  BY <1>1, <1>2, <1>4
<1> HIDE DEF msg
<1>6. Text(Field(p, 0))
        = SubSeq(Cut(event.content, strLen), 1,
                 IF Fitting(event.content, strLen) <= StrLen
                 THEN Fitting(event.content, strLen) ELSE StrLen)
  BY <1>1, <1>4, <1>5, TextOfFormatted DEF msg
<1>7. Len(Cut(event.content, strLen)) = Fitting(event.content, strLen)
  BY <1>1, CutProperties
<1> QED
  BY <1>6, <1>7 DEF Content, Shorter, p

\* The line, if it is where user space looks for it.
LEMMA LineRead ==
    ASSUME Config, NEW stale \in [1 .. Room -> Bytes], sourceLoc,
           LineOffset(strLen) = StrLen + StrLen
    PROVE  Line(Payload(event, stale)) = event.line
<1> DEFINE p == Payload(event, stale)
           first == StrLen + StrLen + 1
           last == StrLen + StrLen + LineLen
           line == SubSeq(p, first, last)
<1>1. /\ StrLen \in Nat /\ LineLen \in Nat
      /\ event.line \in Seq(Bytes) /\ Len(event.line) = LineLen
  BY ConfigFacts, LineLenIs, StrLenIs
<1>2. /\ p \in Seq(Bytes) /\ Len(p) = StrLen + StrLen + LineLen
      /\ \A i \in 1 .. LineLen : p[StrLen + StrLen + i] = event.line[i]
  BY PayloadLayout
<1> HIDE DEF p
<1>3. \A i \in first .. last : p[i] \in Bytes
  BY <1>1, <1>2
<1>4. first \in Int /\ last \in Int
  BY ONLY <1>1
<1>5. /\ SubSeq(p, first, last) \in Seq(Bytes)
      /\ Len(SubSeq(p, first, last)) = IF first <= last THEN last - first + 1 ELSE 0
      /\ \A i \in 1 .. last - first + 1 : SubSeq(p, first, last)[i] = p[first + i - 1]
  <2> HIDE DEF first, last
  <2> QED
    BY ONLY <1>3, <1>4, SubSeqProperties
<1> HIDE DEF line
<1>6. line \in Seq(Bytes) /\ Len(line) = LineLen
  BY ONLY <1>1, <1>5 DEF line
<1>7. \A i \in 1 .. LineLen : line[i] = p[StrLen + StrLen + i]
  BY ONLY <1>1, <1>5 DEF line
<1>8. Len(line) = Len(event.line) /\ \A i \in 1 .. Len(line) : line[i] = event.line[i]
  BY <1>1, <1>2, <1>6, <1>7
<1>9. line = event.line
  BY ONLY <1>1, <1>6, <1>8, SeqEqual
<1> QED
  BY <1>9 DEF Line, p, line

\* The source location, if both sides agree on the length of strings.
LEMMA LocationRead ==
    ASSUME Config, NEW stale \in [1 .. Room -> Bytes], strLen = StrLen, sourceLoc
    PROVE  /\ File(Payload(event, stale)) = Cut(event.file, strLen)
           /\ Line(Payload(event, stale)) = event.line
<1> DEFINE p == Payload(event, stale)
           file == Formatted(event.file, strLen, stale, strLen)
<1>1. /\ strLen \in Nat \ {0} /\ strLen + strLen <= Room
      /\ LineOffset(strLen) = StrLen + StrLen
      /\ event.file \in Strings
  <2>1. LineOffset(StrLen) = StrLen + StrLen
    BY StrLenIs, PaddingIs
  <2> QED
    BY <2>1, ConfigFacts, LineLenTyped, RoomAssumption, StrLenIs
<1>2. /\ p \in Seq(Bytes) /\ Len(p) = strLen + strLen + LineLen
      /\ \A i \in 1 .. strLen : p[strLen + i] = file[i]
  BY <1>1, PayloadLayout
<1> HIDE DEF p, file
<1>3. /\ Field(p, strLen) \in Seq(Bytes) /\ Len(Field(p, strLen)) = strLen
      /\ \A i \in 1 .. strLen : Field(p, strLen)[i] = file[i]
  <2>1. strLen \in Nat /\ strLen + StrLen <= Len(p)
    BY <1>1, <1>2, LineLenIs
  <2>2. /\ Field(p, strLen) \in Seq(Bytes) /\ Len(Field(p, strLen)) = StrLen
        /\ \A i \in 1 .. StrLen : Field(p, strLen)[i] = p[strLen + i]
    BY <1>2, <2>1, FieldProperties
  <2> QED
    BY <1>2, <2>2
<1>4. Text(Field(p, strLen)) = Cut(event.file, strLen)
  <2>1. /\ Fitting(event.file, strLen) <= strLen
        /\ Cut(event.file, strLen) \in Strings
        /\ Len(Cut(event.file, strLen)) = Fitting(event.file, strLen)
    <3>1. strLen \in Nat /\ strLen > 0 /\ event.file \in Strings
      BY ONLY <1>1
    <3>2. /\ Fitting(event.file, strLen) \in 0 .. strLen
          /\ Cut(event.file, strLen) \in Strings
          /\ Len(Cut(event.file, strLen)) = Fitting(event.file, strLen)
      BY ONLY <3>1, CutProperties
    <3> QED
      BY ONLY <3>1, <3>2
  <2>2. \A i \in 1 .. strLen : i <= strLen => Field(p, strLen)[i] = file[i]
    BY <1>3
  <2>3. Text(Field(p, strLen))
          = SubSeq(Cut(event.file, strLen), 1,
                   IF Fitting(event.file, strLen) <= strLen
                   THEN Fitting(event.file, strLen) ELSE strLen)
    BY <1>1, <1>3, <2>2, TextOfFormatted DEF file
  <2>4. SubSeq(Cut(event.file, strLen), 1, Len(Cut(event.file, strLen)))
          = Cut(event.file, strLen)
    BY <2>1, SubSeqFull DEF Strings
  <2> QED
    BY <2>1, <2>3, <2>4
<1>5. Line(p) = event.line
  BY <1>1, LineRead DEF p
<1> QED
  BY <1>4, <1>5 DEF File, p

-----------------------------------------------------------------------------
(***************************************************************************)
(* What the thread decodes from a record.                                  *)
(***************************************************************************)

\* In every field parse_cstr finds some place.
LEMMA TextIsString ==
    ASSUME NEW f \in Seq(Bytes)
    PROVE  Text(f) \in Strings
<1> DEFINE Nuls == {i \in 1 .. Len(f) : f[i] = "nul"}
           Good(n) == /\ \A i \in 1 .. n : f[i] # "nul"
                      /\ n < Len(f) => f[n + 1] = "nul"
<1>0. Len(f) \in Nat /\ \A i \in 1 .. Len(f) : f[i] \in Bytes
  OBVIOUS
<1>1. \E n \in 0 .. Len(f) : Good(n)
  <2>1. CASE Nuls = {}
    BY <1>0, <2>1
  <2>2. CASE Nuls # {}
    <3>1. Nuls \subseteq Nat
      BY <1>0
    <3>2. IsWellFoundedOn(OpToRel(<, Nat), Nat)
      BY NatLessThanWellFounded
    <3>3. PICK m \in Nuls : \A i \in Nuls : ~ (<<i, m>> \in OpToRel(<, Nat))
      BY <2>2, <3>1, <3>2, WFMin
    <3>4. \A i \in Nuls : ~ (i < m)
      BY <3>1, <3>3 DEF OpToRel
    <3>5. m - 1 \in 0 .. Len(f) /\ Good(m - 1)
      BY <1>0, <3>4
    <3> QED
      BY <3>5
  <2> QED
    BY <2>1, <2>2
<1>2. TextLen(f) = CHOOSE n \in 0 .. Len(f) : Good(n)
  BY DEF TextLen
<1>3. TextLen(f) \in 0 .. Len(f) /\ Good(TextLen(f))
  <2> HIDE DEF Good
  <2> QED
    BY <1>1, <1>2
<1>4. \A i \in 1 .. TextLen(f) : f[i] \in Bytes \ {"nul"}
  BY <1>0, <1>3
<1>5. TextLen(f) \in Int
  BY <1>0, <1>3
<1> QED
  BY <1>4, <1>5, SubSeqProperties DEF Text, Strings

Outcome(r) ==
    IF Decodes(r) THEN [status |-> "decoded", event |-> DecodedEvent(r)]
    ELSE [status |-> "failed"]

LEMMA RecordFacts ==
    ASSUME Config, NEW stale \in [1 .. Room -> Bytes]
    PROVE  LET r == RecordOf(event, stale)
           IN  /\ r.payload = Payload(event, stale)
               /\ r.level = event.level
               /\ r.cpu = event.cpu % 65536
               /\ r.kind \in 0 .. 2
               /\ r.kind = 0 <=> event.kind = "msg"
               /\ r.kind = 1 <=> event.kind = "span_start"
               /\ r.kind = 2 <=> event.kind = "span_end"
<1>1. event.kind \in {"msg", "span_start", "span_end"}
  BY ConfigFacts DEF Kinds
<1> QED
  BY <1>1 DEF RecordOf, KindByte

\* The kind, the level and the CPU are decoded as they were emitted.
LEMMA HeaderRead ==
    ASSUME Config, NEW stale \in [1 .. Room -> Bytes]
    PROVE  LET e == DecodedEvent(RecordOf(event, stale))
           IN  /\ e.kind = event.kind
               /\ e.level = IF event.kind = "span_end" THEN 0 ELSE event.level
               /\ e.cpu = event.cpu % 65536
<1>1. event.kind \in {"msg", "span_start", "span_end"}
  BY ConfigFacts DEF Kinds
<1> QED
  BY <1>1, RecordFacts DEF DecodedEvent, KindOf

\* With strings shorter by one byte the padding makes up for what the record lacks.
LEMMA HasFileFacts ==
    ASSUME Config, NEW stale \in [1 .. Room -> Bytes]
    PROVE  LET p == Payload(event, stale)
           IN  /\ strLen < StrLen => (HasFile(p) <=> sourceLoc /\ strLen + 1 = StrLen)
               /\ strLen + 1 = StrLen => LineOffset(strLen) = StrLen + StrLen
               /\ strLen = StrLen => Len(p) >= StrLen /\ (HasFile(p) <=> sourceLoc)
<1>1. strLen \in Nat /\ StrLen \in Nat /\ StrLen > 4 /\ StrLen % 2 = 0
  BY ConfigFacts, StrLenIs
<1>2. Len(Payload(event, stale))
        = IF sourceLoc THEN LineOffset(strLen) + 4 ELSE MsgEnd(strLen)
  BY PayloadLayout, LineLenIs
<1>3. /\ strLen % 2 = 0 \/ strLen % 2 = 1
      /\ strLen % 2 = 0 => LineOffset(strLen) = strLen + strLen /\ MsgEnd(strLen) = strLen
      /\ strLen % 2 = 1 => LineOffset(strLen) = strLen + strLen + 2 /\ MsgEnd(strLen) = strLen + 1
  BY <1>1, PaddingIs
<1>4. HasFile(Payload(event, stale)) <=> Len(Payload(event, stale)) >= StrLen + StrLen + 4
  BY LineLenIs DEF HasFile
<1>5. strLen + 1 = StrLen => strLen % 2 = 1
  BY <1>1
<1>6. strLen + 1 < StrLen =>
          strLen + strLen + 2 < StrLen + StrLen
  BY <1>1
<1>7. sourceLoc \in BOOLEAN
  BY DEF Config
<1> QED
  BY <1>1, <1>2, <1>3, <1>4, <1>5, <1>6, <1>7

LEMMA ContentIsCut ==
    ASSUME Config, NEW stale \in [1 .. Room -> Bytes], strLen = StrLen
    PROVE  Content(Payload(event, stale)) = Cut(event.content, strLen)
<1>1. /\ Cut(event.content, strLen) \in Strings
      /\ Len(Cut(event.content, strLen)) = Fitting(event.content, strLen)
      /\ Fitting(event.content, strLen) \in 0 .. strLen
  BY ConfigFacts, CutProperties
<1>2. Shorter(Cut(event.content, strLen), StrLen) = Cut(event.content, strLen)
  BY <1>1, StrLenIs, SubSeqFull DEF Shorter, Strings
<1>3. Len(Payload(event, stale)) >= StrLen
  BY HasFileFacts
<1> QED
  BY <1>2, <1>3, ContentRead

LEMMA DecodesIff ==
    ASSUME Config, NEW stale \in [1 .. Room -> Bytes], strLen = StrLen
    PROVE  Decodes(RecordOf(event, stale))
             <=> /\ feature => sourceLoc
                 /\ Utf8(Carried(event).content)
                 /\ Utf8(Carried(event).file)
<1> DEFINE r == RecordOf(event, stale)
           p == Payload(event, stale)
<1>1. /\ r.payload = p /\ r.level = event.level /\ r.kind \in 0 .. 2
      /\ r.kind = 2 <=> event.kind = "span_end"
  BY RecordFacts
<1>2. event.kind # "span_end" => event.level \in Levels
  BY ConfigFacts
<1>3. Len(p) >= StrLen /\ (HasFile(p) <=> sourceLoc)
  BY HasFileFacts
<1>4. Content(p) = Carried(event).content
  BY ContentIsCut DEF Carried
<1>5. sourceLoc => File(p) = Carried(event).file
  BY LocationRead DEF Carried
<1>6. ~ sourceLoc => Utf8(Carried(event).file)
  BY DEF Carried, Utf8
<1> HIDE DEF r, p
<1> QED
  BY <1>1, <1>2, <1>3, <1>4, <1>5, <1>6 DEF Decodes, r

-----------------------------------------------------------------------------
(***************************************************************************)
(* The invariant: a record on its way is that of the event, in memory that *)
(* held anything, and what has become of it is what try_from makes of it.  *)
(***************************************************************************)

Origin ==
    \/ result = [status |-> "none"]
    \/ /\ result = [status |-> "pending"]
       /\ \E stale \in Stale : record = RecordOf(event, stale)
    \/ \E stale \in Stale : result = Outcome(RecordOf(event, stale))

CodecInv == Config /\ Origin

LEMMA OutcomeStatus ==
    ASSUME NEW r
    PROVE  /\ Outcome(r).status \in {"decoded", "failed"}
           /\ Outcome(r).status = "decoded" <=> Decodes(r)
           /\ Decodes(r) => Outcome(r) = [status |-> "decoded", event |-> DecodedEvent(r)]
           /\ ~ Decodes(r) => Outcome(r) = [status |-> "failed"]
  BY DEF Outcome

\* No step changes what a record of the event is or how it is decoded.
LEMMA OriginKept ==
    ASSUME NEW stale, UNCHANGED <<strLen, sourceLoc, feature, event>>
    PROVE  /\ RecordOf(event, stale)' = RecordOf(event, stale)
           /\ Outcome(RecordOf(event, stale))' = Outcome(RecordOf(event, stale))
  BY DEF RecordOf, Payload, Outcome, Decodes, DecodedEvent

THEOREM CodecInvCorrect == Spec => []CodecInv
<1>1. Init => CodecInv
  BY DEF Init, CodecInv, Config, Origin
<1>2. CodecInv /\ [Next]_vars => CodecInv'
  <2> SUFFICES ASSUME CodecInv, [Next]_vars
               PROVE  CodecInv'
    OBVIOUS
  <2>1. ASSUME NEW stale \in Stale, Emit(stale)
        PROVE  CodecInv'
    <3>1. Config'
      BY <2>1 DEF Emit, CodecInv, Config
    <3>2. record' = RecordOf(event, stale)' /\ result' = [status |-> "pending"]
      BY <2>1, OriginKept DEF Emit
    <3>3. Origin'
      BY <3>2 DEF Origin
    <3> QED
      BY <3>1, <3>3 DEF CodecInv
  <2>2. CASE Decode
    <3>1. Config'
      BY <2>2 DEF Decode, CodecInv, Config
    <3>2. result.status = "pending"
      BY <2>2 DEF Decode
    <3>3. PICK stale \in Stale : record = RecordOf(event, stale)
      BY <3>2, OutcomeStatus DEF CodecInv, Origin
    <3>4. result' = Outcome(RecordOf(event, stale))
      BY <2>2, <3>3 DEF Decode, Outcome
    <3>5. result' = Outcome(RecordOf(event, stale))'
      BY <2>2, <3>4, OriginKept DEF Decode
    <3>6. Origin'
      BY <3>5 DEF Origin
    <3> QED
      BY <3>1, <3>6 DEF CodecInv
  <2>3. CASE UNCHANGED vars
    <3>1. UNCHANGED <<strLen, sourceLoc, feature, event, record, result>>
      BY <2>3 DEF vars
    <3>2. Config'
      BY <3>1 DEF CodecInv, Config
    <3>3. Origin'
      <4>1. CASE result = [status |-> "none"]
        BY <3>1, <4>1 DEF Origin
      <4>2. ASSUME result = [status |-> "pending"],
                   NEW stale \in Stale, record = RecordOf(event, stale)
            PROVE  Origin'
        <5>1. record' = RecordOf(event, stale)' /\ result' = [status |-> "pending"]
          BY <3>1, <4>2, OriginKept
        <5> QED
          BY <5>1 DEF Origin
      <4>3. ASSUME NEW stale \in Stale, result = Outcome(RecordOf(event, stale))
            PROVE  Origin'
        <5>1. result' = Outcome(RecordOf(event, stale))'
          BY <3>1, <4>3, OriginKept
        <5> QED
          BY <5>1 DEF Origin
      <4> QED
        BY <4>1, <4>2, <4>3 DEF CodecInv, Origin
    <3> QED
      BY <3>2, <3>3 DEF CodecInv
  <2> QED
    BY <2>1, <2>2, <2>3 DEF Next
<1> QED
  BY <1>1, <1>2, PTL DEF Spec

-----------------------------------------------------------------------------
(***************************************************************************)
(* The properties.                                                         *)
(***************************************************************************)

\* Whatever was decoded is a record of the event.
LEMMA DecodedFrom ==
    ASSUME CodecInv, result.status \in {"failed", "decoded"}
    PROVE  \E stale \in [1 .. Room -> Bytes] : result = Outcome(RecordOf(event, stale))
<1>1. result # [status |-> "none"] /\ result # [status |-> "pending"]
  OBVIOUS
<1> QED
  BY <1>1, StaleAssumption DEF CodecInv, Origin

LEMMA TypesFollow == CodecInv => TypeOK
<1> SUFFICES ASSUME CodecInv
             PROVE  TypeOK
  OBVIOUS
<1>1. result.status \in {"none", "pending", "failed", "decoded"}
  BY OutcomeStatus DEF CodecInv, Origin
<1>2. ASSUME result.status = "decoded"
      PROVE  /\ result.event.kind \in Kinds
             /\ result.event.level \in IF result.event.kind = "span_end" THEN {0} ELSE Levels
             /\ result.event.content \in Strings /\ result.event.file \in Strings
  <2>1. PICK stale \in [1 .. Room -> Bytes] : result = Outcome(RecordOf(event, stale))
    BY <1>2, DecodedFrom
  <2> DEFINE r == RecordOf(event, stale)
             p == Payload(event, stale)
  <2>2. Decodes(r) /\ result.event = DecodedEvent(r)
    BY <1>2, <2>1, OutcomeStatus
  <2>3. Config /\ r.payload = p
    BY RecordFacts DEF CodecInv
  <2>4. /\ DecodedEvent(r).kind \in Kinds
        /\ DecodedEvent(r).level
             \in IF DecodedEvent(r).kind = "span_end" THEN {0} ELSE Levels
    BY <2>3, HeaderRead, ConfigFacts
  <2>5. p \in Seq(Bytes) /\ Len(p) >= StrLen
    BY <2>2, <2>3, PayloadLayout DEF Decodes
  <2>6. StrLen \in Nat /\ LineLen \in Nat
    BY StrLenIs, LineLenIs
  <2>7. Content(p) \in Strings
    <3>1. Field(p, 0) \in Seq(Bytes)
      BY <2>5, <2>6, FieldProperties
    <3> QED
      BY <3>1, TextIsString DEF Content
  <2>8. HasFile(p) => File(p) \in Strings
    <3> SUFFICES ASSUME HasFile(p)
                 PROVE  File(p) \in Strings
      OBVIOUS
    <3>1. StrLen + StrLen <= Len(p)
      BY <2>5, <2>6 DEF HasFile
    <3>2. Field(p, StrLen) \in Seq(Bytes)
      BY <2>5, <2>6, <3>1, FieldProperties
    <3> QED
      BY <3>2, TextIsString DEF File
  <2>9. << >> \in Strings
    BY DEF Strings
  <2> HIDE DEF r, p
  <2>10. DecodedEvent(r).content \in Strings /\ DecodedEvent(r).file \in Strings
    BY <2>3, <2>7, <2>8, <2>9 DEF DecodedEvent
  <2> QED
    BY <2>2, <2>4, <2>10
<1> QED
  BY <1>1, <1>2 DEF TypeOK, CodecInv, Config

\* Every decoded event is of a kind and a level that go together, and its strings
\* contain no NUL byte, for all lengths of strings on either side.
THEOREM TypeCorrect == Spec => []TypeOK
  BY CodecInvCorrect, TypesFollow, PTL

LEMMA RoundTripFollows == CodecInv => RoundTrip
<1> SUFFICES ASSUME CodecInv, strLen = StrLen, result.status \in {"failed", "decoded"}
             PROVE  LET readable == /\ feature => sourceLoc
                                    /\ Utf8(Carried(event).content)
                                    /\ Utf8(Carried(event).file)
                    IN  result = IF readable
                                 THEN [status |-> "decoded", event |-> Carried(event)]
                                 ELSE [status |-> "failed"]
  BY DEF RoundTrip
<1>1. PICK stale \in [1 .. Room -> Bytes] : result = Outcome(RecordOf(event, stale))
  BY DecodedFrom
<1> DEFINE r == RecordOf(event, stale)
           p == Payload(event, stale)
<1>2. Config /\ r.payload = p
  BY RecordFacts DEF CodecInv
<1>3. Decodes(r) <=> /\ feature => sourceLoc
                     /\ Utf8(Carried(event).content)
                     /\ Utf8(Carried(event).file)
  BY <1>2, DecodesIff
<1>4. DecodedEvent(r) = Carried(event)
  <2>1. /\ DecodedEvent(r).kind = event.kind
        /\ DecodedEvent(r).level = IF event.kind = "span_end" THEN 0 ELSE event.level
        /\ DecodedEvent(r).cpu = event.cpu % 65536
    BY <1>2, HeaderRead
  <2>2. HasFile(p) <=> sourceLoc
    BY <1>2, HasFileFacts
  <2>3. Content(p) = Cut(event.content, strLen)
    BY <1>2, ContentIsCut
  <2>4. sourceLoc => File(p) = Cut(event.file, strLen) /\ Line(p) = event.line
    BY <1>2, LocationRead
  <2> HIDE DEF r, p
  <2>5. /\ DecodedEvent(r).content = Cut(event.content, strLen)
        /\ DecodedEvent(r).file = IF sourceLoc THEN Cut(event.file, strLen) ELSE << >>
        /\ DecodedEvent(r).line = IF sourceLoc THEN event.line ELSE NoLine
    BY <1>2, <2>2, <2>3, <2>4 DEF DecodedEvent
  <2>6. DecodedEvent(r)
          = [kind |-> DecodedEvent(r).kind, level |-> DecodedEvent(r).level,
             cpu |-> DecodedEvent(r).cpu, content |-> DecodedEvent(r).content,
             file |-> DecodedEvent(r).file, line |-> DecodedEvent(r).line]
    BY DEF DecodedEvent
  <2> QED
    BY <2>1, <2>5, <2>6 DEF Carried
<1> QED
  BY <1>1, <1>3, <1>4, OutcomeStatus

\* If both sides are built with the same length of strings, user space gets exactly
\* what was emitted, cut to that length, and gets it unless the cut is not UTF-8 or
\* it insists on a source location that is not there.
THEOREM RoundTripCorrect == Spec => []RoundTrip
  BY CodecInvCorrect, RoundTripFollows, PTL

LEMMA NothingForgedFollows == CodecInv => NothingForged
<1> SUFFICES ASSUME CodecInv, result.status = "decoded"
             PROVE  LET e == result.event
                        c == Carried(event)
                    IN  /\ e.kind = c.kind /\ e.level = c.level /\ e.cpu = c.cpu
                        /\ e.content = Shorter(c.content, StrLen)
  BY DEF NothingForged
<1>1. PICK stale \in [1 .. Room -> Bytes] : result = Outcome(RecordOf(event, stale))
  BY DecodedFrom
<1> DEFINE r == RecordOf(event, stale)
           p == Payload(event, stale)
<1>2. Decodes(r) /\ result.event = DecodedEvent(r)
  BY <1>1, OutcomeStatus
<1>3. Config /\ r.payload = p
  BY RecordFacts DEF CodecInv
<1>4. Len(p) >= StrLen
  BY <1>2, <1>3 DEF Decodes
<1>5. /\ DecodedEvent(r).kind = event.kind
      /\ DecodedEvent(r).level = IF event.kind = "span_end" THEN 0 ELSE event.level
      /\ DecodedEvent(r).cpu = event.cpu % 65536
  BY <1>3, HeaderRead
<1>6. Content(p) = Shorter(Cut(event.content, strLen), StrLen)
  BY <1>3, <1>4, ContentRead
<1> HIDE DEF r, p
<1>7. DecodedEvent(r).content = Content(p)
  BY <1>3 DEF DecodedEvent
<1>8. /\ Carried(event).kind = event.kind
      /\ Carried(event).level = IF event.kind = "span_end" THEN 0 ELSE event.level
      /\ Carried(event).cpu = event.cpu % 65536
      /\ Carried(event).content = Cut(event.content, strLen)
  BY DEF Carried
<1> QED
  BY <1>2, <1>5, <1>6, <1>7, <1>8

\* Whatever lengths of strings the two sides are built with, odd ones and none at all
\* included, user space never decodes an event with another kind, level, CPU or message
\* than the one emitted.
THEOREM NothingForgedCorrect == Spec => []NothingForged
  BY CodecInvCorrect, NothingForgedFollows, PTL

\* With strings one byte shorter the name of the file is read from its second byte on.
LEMMA FileShifted ==
    ASSUME Config, NEW stale \in [1 .. Room -> Bytes], sourceLoc, strLen + 1 = StrLen,
           Cut(event.file, strLen) # << >>
    PROVE  File(Payload(event, stale)) = Tail(Cut(event.file, strLen))
<1> DEFINE p == Payload(event, stale)
           file == Formatted(event.file, strLen, stale, strLen)
           field == Field(p, StrLen)
           cut == Cut(event.file, strLen)
           k == Fitting(event.file, strLen) - 1
<1>1. /\ strLen \in Nat \ {0} /\ StrLen \in Nat /\ strLen + strLen <= Room
      /\ event.file \in Strings
      /\ LineOffset(strLen) = StrLen + StrLen
  BY ConfigFacts, StrLenIs, RoomAssumption, LineLenIs, HasFileFacts
<1>2. /\ \A i \in 1 .. k + 1 : file[i] = event.file[i] /\ file[i] # "nul"
      /\ file[k + 2] = "nul"
  <2>1. /\ \A i \in 1 .. Fitting(event.file, strLen) :
               file[i] = event.file[i] /\ file[i] # "nul"
        /\ file[Fitting(event.file, strLen) + 1] = "nul"
    BY <1>1, FormattedProperties
  <2>2. Fitting(event.file, strLen) \in Int
    BY <1>1, CutProperties
  <2>3. k + 1 = Fitting(event.file, strLen) /\ k + 2 = Fitting(event.file, strLen) + 1
    BY <2>2
  <2> QED
    BY ONLY <2>1, <2>3
<1>3. /\ cut \in Seq(Bytes) /\ Len(cut) = k + 1 /\ k \in Nat /\ k + 2 <= strLen
      /\ \A i \in 1 .. k + 1 : cut[i] = event.file[i]
  <2>1. /\ cut \in Strings /\ Len(cut) = Fitting(event.file, strLen)
        /\ Fitting(event.file, strLen) \in 0 .. strLen - 1
        /\ \A i \in 1 .. Fitting(event.file, strLen) : cut[i] = event.file[i]
    <3>1. strLen \in Nat /\ strLen > 0 /\ event.file \in Strings
      BY ONLY <1>1
    <3> QED
      BY ONLY <3>1, CutProperties
  <2>2. cut \in Seq(Bytes)
    BY <2>1 DEF Strings
  <2>3. Len(cut) # 0
    BY <2>2
  <2> QED
    BY <1>1, <2>1, <2>2, <2>3
<1> HIDE DEF file, cut, k
<1>4. /\ p \in Seq(Bytes) /\ Len(p) = StrLen + StrLen + LineLen
      /\ \A i \in 1 .. strLen : p[strLen + i] = file[i]
  BY <1>1, PayloadLayout DEF file
<1> HIDE DEF p
<1>5. /\ field \in Seq(Bytes) /\ Len(field) = StrLen
      /\ \A i \in 1 .. StrLen : field[i] = p[StrLen + i]
  <2>1. StrLen \in Nat /\ StrLen + StrLen <= Len(p)
    BY ONLY <1>1, <1>4, LineLenIs
  <2> QED
    BY <1>4, <2>1, FieldProperties
<1> HIDE DEF field
<1>6. \A i \in 1 .. k + 1 : field[i] = file[i + 1]
  <2> SUFFICES ASSUME NEW i \in 1 .. k + 1
               PROVE  field[i] = file[i + 1]
    OBVIOUS
  <2>1. i \in 1 .. StrLen /\ i + 1 \in 1 .. strLen /\ StrLen + i = strLen + (i + 1)
    <3>1. strLen \in Nat /\ k \in Nat /\ k + 2 <= strLen /\ StrLen = strLen + 1
      BY ONLY <1>1, <1>3, strLen + 1 = StrLen
    <3> QED
      BY ONLY <3>1, i \in 1 .. k + 1
  <2> QED
    BY ONLY <1>4, <1>5, <2>1
<1>7. TextLen(field) = k
  <2>1. \A i \in 1 .. k : i \in 1 .. k + 1 /\ i + 1 \in 1 .. k + 1
    BY <1>3
  <2>2. \A i \in 1 .. k : field[i] # "nul"
    BY <1>2, <1>6, <2>1
  <2>3. field[k + 1] = "nul"
    <3>1. k + 1 \in 1 .. k + 1 /\ k + 1 + 1 = k + 2
      BY <1>3
    <3> QED
      BY <1>2, <1>6, <3>1
  <2>4. k \in 0 .. Len(field)
    BY <1>1, <1>3, <1>5
  <2> QED
    BY <1>5, <2>2, <2>3, <2>4, TextLenIs
<1>8. /\ Text(field) \in Seq(Bytes) /\ Len(Text(field)) = k
      /\ \A i \in 1 .. k : Text(field)[i] = field[i]
  <2>1. \A i \in 1 .. k : field[i] \in Bytes
    BY <1>1, <1>3, <1>5
  <2> QED
    BY <1>3, <1>7, <2>1, SubSeqProperties DEF Text
<1>9. /\ Tail(cut) \in Seq(Bytes) /\ Len(Tail(cut)) = k
      /\ \A i \in 1 .. k : Tail(cut)[i] = cut[i + 1]
  BY <1>3
<1>10. \A i \in 1 .. k : Text(field)[i] = Tail(cut)[i]
  <2> SUFFICES ASSUME NEW i \in 1 .. k
               PROVE  Text(field)[i] = Tail(cut)[i]
    OBVIOUS
  <2>1. i \in 1 .. k /\ i \in 1 .. k + 1 /\ i + 1 \in 1 .. k + 1
    BY <1>3
  <2>2. Text(field)[i] = file[i + 1]
    BY ONLY <1>6, <1>8, <2>1
  <2>3. Tail(cut)[i] = cut[i + 1]
    BY ONLY <1>9, <2>1
  <2>4. file[i + 1] = event.file[i + 1] /\ cut[i + 1] = event.file[i + 1]
    BY ONLY <1>2, <1>3, <2>1
  <2> QED
    BY ONLY <2>2, <2>3, <2>4
<1>11. Text(field) = Tail(cut)
  BY ONLY <1>8, <1>9, <1>10, SeqEqual
<1> QED
  BY <1>11 DEF File, field, cut, p

LEMMA LocationIfShorterFollows == CodecInv => LocationIfShorter
<1> SUFFICES ASSUME CodecInv, result.status = "decoded", strLen < StrLen
             PROVE  LET e == result.event
                        c == Carried(event)
                    IN  IF sourceLoc /\ strLen + 1 = StrLen
                        THEN e.line = c.line /\ (c.file # << >> => e.file = Tail(c.file))
                        ELSE e.line = NoLine /\ e.file = << >>
  BY DEF LocationIfShorter
<1>1. PICK stale \in [1 .. Room -> Bytes] : result = Outcome(RecordOf(event, stale))
  BY DecodedFrom
<1> DEFINE r == RecordOf(event, stale)
           p == Payload(event, stale)
<1>2. result.event = DecodedEvent(r)
  BY <1>1, OutcomeStatus
<1>3. Config /\ r.payload = p
  BY RecordFacts DEF CodecInv
<1>4. /\ DecodedEvent(r).file = IF HasFile(p) THEN File(p) ELSE << >>
      /\ DecodedEvent(r).line = IF HasFile(p) THEN Line(p) ELSE NoLine
  BY <1>3 DEF DecodedEvent
<1>5. HasFile(p) <=> sourceLoc /\ strLen + 1 = StrLen
  BY <1>3, HasFileFacts
<1>6. ASSUME sourceLoc, strLen + 1 = StrLen
      PROVE  Line(p) = event.line /\ (Cut(event.file, strLen) # << >>
                                         => File(p) = Tail(Cut(event.file, strLen)))
  BY <1>3, <1>6, HasFileFacts, LineRead, FileShifted
<1>7. sourceLoc => Carried(event).file = Cut(event.file, strLen) /\ Carried(event).line = event.line
  BY DEF Carried
<1> HIDE DEF r, p
<1> QED
  BY <1>2, <1>4, <1>5, <1>6, <1>7

\* Shorter strings lose the source location, except that those one byte shorter yield
\* the line, and the name of the file without its first character.
THEOREM LocationIfShorterCorrect == Spec => []LocationIfShorter
  BY CodecInvCorrect, LocationIfShorterFollows, PTL

=============================================================================
