--------------------------- MODULE TracingProofs ----------------------------
(***************************************************************************)
(* What TLAPS proves about Tracing, for all values of the constants: what  *)
(* can be on the stack of a CPU after records have been lost, filtered out *)
(* or not decoded.                                                         *)
(***************************************************************************)
EXTENDS Tracing, SequenceTheorems, FiniteSetTheorems, WellFoundedInduction, TLAPS

-----------------------------------------------------------------------------
(***************************************************************************)
(* Sequences.                                                              *)
(***************************************************************************)

LEMMA RemoveAtProperties ==
    ASSUME NEW S, NEW s \in Seq(S), NEW k \in 1 .. Len(s)
    PROVE  /\ RemoveAt(s, k) \in Seq(S)
           /\ Len(RemoveAt(s, k)) = Len(s) - 1
           /\ \A i \in 1 .. k - 1 : RemoveAt(s, k)[i] = s[i]
           /\ \A i \in k .. Len(s) - 1 : RemoveAt(s, k)[i] = s[i + 1]
<1> DEFINE l == SubSeq(s, 1, k - 1)
           r == SubSeq(s, k + 1, Len(s))
<1>0. Len(s) \in Nat /\ k \in Int /\ \A i \in 1 .. Len(s) : s[i] \in S
  OBVIOUS
<1>1. /\ l \in Seq(S) /\ Len(l) = k - 1
      /\ \A i \in 1 .. k - 1 : l[i] = s[i]
  <2>1. \A i \in 1 .. k - 1 : s[i] \in S
    BY <1>0
  <2> QED
    BY <1>0, <2>1, SubSeqProperties
<1>2. /\ r \in Seq(S) /\ Len(r) = Len(s) - k
      /\ \A i \in 1 .. Len(s) - k : r[i] = s[k + i]
  <2>1. \A i \in k + 1 .. Len(s) : s[i] \in S
    BY <1>0
  <2>2. /\ r \in Seq(S)
        /\ Len(r) = IF k + 1 <= Len(s) THEN Len(s) - (k + 1) + 1 ELSE 0
        /\ \A i \in 1 .. Len(s) - (k + 1) + 1 : r[i] = s[(k + 1) + i - 1]
    BY <1>0, <2>1, SubSeqProperties
  <2> QED
    BY <1>0, <2>2
<1> HIDE DEF l, r
<1>3. /\ l \o r \in Seq(S) /\ Len(l \o r) = Len(l) + Len(r)
      /\ \A i \in 1 .. Len(l) + Len(r) :
             (l \o r)[i] = IF i <= Len(l) THEN l[i] ELSE r[i - Len(l)]
  BY <1>1, <1>2, ConcatProperties
<1>4. RemoveAt(s, k) = l \o r
  BY DEF RemoveAt, l, r
<1>5. \A i \in 1 .. k - 1 : (l \o r)[i] = s[i]
  BY <1>0, <1>1, <1>2, <1>3
<1>6. \A i \in k .. Len(s) - 1 : (l \o r)[i] = s[i + 1]
  <2> SUFFICES ASSUME NEW i \in k .. Len(s) - 1
               PROVE  (l \o r)[i] = s[i + 1]
    OBVIOUS
  <2>1. i - (k - 1) \in 1 .. Len(s) - k /\ k + (i - (k - 1)) = i + 1
    BY <1>0
  <2> QED
    BY <1>0, <1>1, <1>2, <1>3, <2>1
<1> QED
  BY <1>0, <1>1, <1>2, <1>3, <1>4, <1>5, <1>6

LEMMA MaxOfInterval ==
    ASSUME NEW n \in Nat, NEW T \in SUBSET (1 .. n), T # {}
    PROVE  Max(T) \in T /\ \A i \in T : i <= Max(T)
<1> DEFINE Gaps == {n - i : i \in T}
<1>1. Gaps \subseteq Nat
  <2>1. \A i \in T : i \in Int /\ i <= n
    OBVIOUS
  <2> QED
    BY <2>1
<1>2. Gaps # {}
  OBVIOUS
<1> HIDE DEF Gaps
<1>3. \E g \in Gaps : \A h \in Gaps : ~ (<<h, g>> \in OpToRel(<, Nat))
  BY ONLY <1>1, <1>2, NatLessThanWellFounded, WFMin, Zenon
<1>4. PICK g \in Gaps : \A h \in Gaps : ~ (<<h, g>> \in OpToRel(<, Nat))
  BY ONLY <1>3
<1>5. \A h \in Gaps : ~ (h < g)
  BY <1>1, <1>4 DEF OpToRel
<1>6. PICK m \in T : g = n - m
  BY <1>4 DEF Gaps
<1>7. \A i \in T : i <= m
  <2> SUFFICES ASSUME NEW i \in T
               PROVE  i <= m
    OBVIOUS
  <2>1. n - i \in Gaps
    BY DEF Gaps
  <2>2. ~ (n - i < n - m)
    BY ONLY <1>5, <1>6, <2>1
  <2>3. i \in Int /\ m \in Int
    OBVIOUS
  <2> QED
    BY ONLY <2>2, <2>3, n \in Nat
<1>8. \E x \in T : \A y \in T : x >= y
  <2>1. \A y \in T : m >= y
    BY <1>7
  <2> QED
    BY <2>1
<1>9. Max(T) \in T /\ \A y \in T : Max(T) >= y
  BY ONLY <1>8 DEF Max
<1> QED
  BY <1>9

\* Popping through a name leaves what was below its innermost span, or nothing.
LEMMA PoppedThroughProperties ==
    ASSUME NEW s \in Seq(Span), NEW name
    PROVE  \E n \in 0 .. Len(s) :
               /\ PoppedThrough(s, name) \in Seq(Span)
               /\ Len(PoppedThrough(s, name)) = n
               /\ \A i \in 1 .. n : PoppedThrough(s, name)[i] = s[i]
               /\ n < Len(s) \/ Len(s) = 0
               /\ n > 0 => s[n + 1].name = name
<1> DEFINE named == {i \in DOMAIN s : s[i].name = name}
           n == IF named = {} THEN 0 ELSE Max(named) - 1
<1>0. Len(s) \in Nat /\ \A i \in 1 .. Len(s) : s[i] \in Span
  OBVIOUS
<1>1. /\ n \in 0 .. Len(s)
      /\ n < Len(s) \/ Len(s) = 0
      /\ n > 0 => s[n + 1].name = name
  <2>0. /\ named \in SUBSET (1 .. Len(s))
        /\ \A i \in named : s[i].name = name
    OBVIOUS
  <2> HIDE DEF named
  <2>1. CASE named = {}
    BY <1>0, <2>1
  <2>2. CASE named # {}
    <3>1. Max(named) \in named
      BY ONLY <1>0, <2>0, <2>2, MaxOfInterval
    <3>2. Max(named) \in 1 .. Len(s) /\ s[Max(named)].name = name
      BY <2>0, <3>1
    <3> DEFINE m == Max(named)
    <3> HIDE DEF m
    <3>3. m \in 1 .. Len(s) /\ s[m].name = name /\ n = m - 1
      BY <2>2, <3>2 DEF m
    <3>4. n + 1 = m
      BY <3>3
    <3> QED
      BY <1>0, <3>3, <3>4
  <2> QED
    BY <2>1, <2>2
<1>2. PoppedThrough(s, name) = SubSeq(s, 1, n)
  BY DEF PoppedThrough
<1> HIDE DEF n, named
<1>3. \A i \in 1 .. n : s[i] \in Span
  BY <1>0, <1>1
<1>4. /\ SubSeq(s, 1, n) \in Seq(Span)
      /\ Len(SubSeq(s, 1, n)) = IF 1 <= n THEN n - 1 + 1 ELSE 0
      /\ \A i \in 1 .. n - 1 + 1 : SubSeq(s, 1, n)[i] = s[1 + i - 1]
  <2>1. 1 \in Int /\ n \in Int
    BY <1>0, <1>1
  <2> QED
    BY ONLY <1>3, <2>1, SubSeqProperties
<1>5. /\ SubSeq(s, 1, n) \in Seq(Span) /\ Len(SubSeq(s, 1, n)) = n
      /\ \A i \in 1 .. n : SubSeq(s, 1, n)[i] = s[i]
  BY ONLY <1>0, <1>1, <1>4
<1> QED
  BY <1>1, <1>2, <1>5

-----------------------------------------------------------------------------
(***************************************************************************)
(* Among: the spans of the stack and those that are open in the program.   *)
(***************************************************************************)

\* The spans t are the first of the spans u.
Extends(t, u) ==
    /\ Len(t) <= Len(u)
    /\ \A i \in 1 .. Len(t) : u[i] = t[i]

LEMMA AmongBy ==
    ASSUME NEW s \in Seq(Span), NEW t \in Seq(Span),
           NEW to \in [1 .. Len(s) -> 1 .. Len(t)],
           \A i \in 1 .. Len(s) : s[i] = t[to[i]],
           \A i, j \in 1 .. Len(s) : i < j => to[i] < to[j]
    PROVE  Among(s, t)
<1>1. DOMAIN s = 1 .. Len(s) /\ DOMAIN t = 1 .. Len(t)
  OBVIOUS
<1> QED
  BY <1>1, Zenon DEF Among

LEMMA AmongEmpty ==
    ASSUME NEW s \in Seq(Span), NEW t \in Seq(Span), Len(s) = 0
    PROVE  Among(s, t)
<1>1. DOMAIN s = {}
  OBVIOUS
<1> DEFINE place == [i \in DOMAIN s |-> 1]
<1>2. place \in [DOMAIN s -> DOMAIN t]
  BY <1>1
<1> QED
  BY <1>1, <1>2 DEF Among

\* Opening spans keeps those that are among the open ones.
LEMMA AmongExtended ==
    ASSUME NEW s \in Seq(Span), NEW t \in Seq(Span), NEW u \in Seq(Span),
           Among(s, t), Extends(t, u)
    PROVE  Among(s, u)
<1>1. PICK place \in [DOMAIN s -> DOMAIN t] :
          /\ \A i \in DOMAIN s : s[i] = t[place[i]]
          /\ \A i, j \in DOMAIN s : i < j => place[i] < place[j]
  BY DEF Among
<1>2. \A i \in DOMAIN t : i \in DOMAIN u /\ u[i] = t[i]
  <2>1. /\ DOMAIN t = 1 .. Len(t) /\ Len(t) \in Nat
        /\ DOMAIN u = 1 .. Len(u) /\ Len(u) \in Nat
    OBVIOUS
  <2>2. Len(t) <= Len(u) /\ \A i \in 1 .. Len(t) : u[i] = t[i]
    BY DEF Extends
  <2> QED
    BY ONLY <2>1, <2>2
<1>3. place \in [DOMAIN s -> DOMAIN u]
  BY <1>2
<1>4. \A i \in DOMAIN s : s[i] = u[place[i]]
  BY <1>1, <1>2
<1> QED
  BY <1>1, <1>3, <1>4 DEF Among

LEMMA AppendIsAt ==
    ASSUME NEW s \in Seq(Span), NEW x \in Span
    PROVE  /\ Append(s, x) \in Seq(Span)
           /\ Len(Append(s, x)) = Len(s) + 1
           /\ \A i \in 1 .. Len(s) : Append(s, x)[i] = s[i]
           /\ Append(s, x)[Len(s) + 1] = x
           /\ Last(Append(s, x)) = x
           /\ Extends(s, Append(s, x))
<1>1. /\ Append(s, x) \in Seq(Span)
      /\ Len(Append(s, x)) = Len(s) + 1
      /\ \A i \in 1 .. Len(s) : Append(s, x)[i] = s[i]
      /\ Append(s, x)[Len(s) + 1] = x
  OBVIOUS
<1> QED
  BY <1>1 DEF Last, Extends

LEMMA AmongAppended ==
    ASSUME NEW s \in Seq(Span), NEW t \in Seq(Span), NEW x \in Span, Among(s, t)
    PROVE  Among(Append(s, x), Append(t, x))
<1>1. PICK place \in [DOMAIN s -> DOMAIN t] :
          /\ \A i \in DOMAIN s : s[i] = t[place[i]]
          /\ \A i, j \in DOMAIN s : i < j => place[i] < place[j]
  BY DEF Among
<1>2. /\ DOMAIN s = 1 .. Len(s) /\ Len(s) \in Nat
      /\ DOMAIN t = 1 .. Len(t) /\ Len(t) \in Nat
      /\ DOMAIN Append(s, x) = 1 .. Len(s) + 1
      /\ DOMAIN Append(t, x) = 1 .. Len(t) + 1
  OBVIOUS
<1> DEFINE to == [i \in 1 .. Len(s) + 1 |-> IF i <= Len(s) THEN place[i] ELSE Len(t) + 1]
<1>3. \A i \in 1 .. Len(s) : to[i] = place[i] /\ to[i] \in 1 .. Len(t)
  BY <1>1, <1>2
<1>4. to[Len(s) + 1] = Len(t) + 1
  BY <1>2
<1>5. to \in [1 .. Len(s) + 1 -> 1 .. Len(t) + 1]
  BY <1>1, <1>2
<1> HIDE DEF to
<1>6. \A i \in 1 .. Len(s) + 1 : Append(s, x)[i] = Append(t, x)[to[i]]
  <2> SUFFICES ASSUME NEW i \in 1 .. Len(s) + 1
               PROVE  Append(s, x)[i] = Append(t, x)[to[i]]
    OBVIOUS
  <2>1. CASE i \in 1 .. Len(s)
    BY <1>1, <1>2, <1>3, <2>1, AppendIsAt
  <2>2. CASE i = Len(s) + 1
    BY <1>4, <2>2, AppendIsAt
  <2>3. Len(s) \in Nat
    BY <1>2
  <2>4. i \in 1 .. Len(s) \/ i = Len(s) + 1
    BY ONLY <2>3, i \in 1 .. Len(s) + 1
  <2> QED
    BY ONLY <2>1, <2>2, <2>4
<1>7. \A i, j \in 1 .. Len(s) + 1 : i < j => to[i] < to[j]
  <2> SUFFICES ASSUME NEW i \in 1 .. Len(s) + 1, NEW j \in 1 .. Len(s) + 1, i < j
               PROVE  to[i] < to[j]
    OBVIOUS
  <2>1. Len(s) \in Nat /\ Len(t) \in Nat
    BY <1>2
  <2>2. i \in 1 .. Len(s)
    BY ONLY <2>1, i \in 1 .. Len(s) + 1, j \in 1 .. Len(s) + 1, i < j
  <2>3. j \in 1 .. Len(s) \/ j = Len(s) + 1
    BY ONLY <2>1, j \in 1 .. Len(s) + 1
  <2>4. CASE j \in 1 .. Len(s)
    <3>1. place[i] < place[j]
      BY ONLY <1>1, <1>2, <2>2, <2>4, i < j
    <3> QED
      BY ONLY <1>3, <2>2, <2>4, <3>1
  <2>5. CASE j = Len(s) + 1
    BY ONLY <1>3, <1>4, <2>1, <2>2, <2>5
  <2> QED
    BY ONLY <2>3, <2>4, <2>5
<1>8. /\ Append(s, x) \in Seq(Span) /\ Len(Append(s, x)) = Len(s) + 1
      /\ Append(t, x) \in Seq(Span) /\ Len(Append(t, x)) = Len(t) + 1
  BY AppendIsAt
<1> DEFINE a == Append(s, x)
           b == Append(t, x)
           n == Len(s) + 1
<1>9. /\ a \in Seq(Span) /\ Len(a) = n /\ b \in Seq(Span)
      /\ to \in [1 .. Len(a) -> 1 .. Len(b)]
      /\ \A i \in 1 .. n : a[i] = b[to[i]]
      /\ \A i, j \in 1 .. n : i < j => to[i] < to[j]
  BY ONLY <1>5, <1>6, <1>7, <1>8
<1>10. Among(a, b)
  <2> HIDE DEF a, b, n
  <2> QED
    BY ONLY <1>9, AmongBy
<1> QED
  BY ONLY <1>10

\* The end of a span whose name no span of the stack has leaves the stack alone.
LEMMA AmongRemoved ==
    ASSUME NEW s \in Seq(Span), NEW t \in Seq(Span), NEW k \in 1 .. Len(t), Among(s, t),
           \A i \in 1 .. Len(s) : s[i].name # t[k].name
    PROVE  Among(s, RemoveAt(t, k))
<1>1. PICK place \in [DOMAIN s -> DOMAIN t] :
          /\ \A i \in DOMAIN s : s[i] = t[place[i]]
          /\ \A i, j \in DOMAIN s : i < j => place[i] < place[j]
  BY DEF Among
<1> DEFINE r == RemoveAt(t, k)
           to == [i \in 1 .. Len(s) |-> IF place[i] < k THEN place[i] ELSE place[i] - 1]
<1>2. /\ r \in Seq(Span) /\ Len(r) = Len(t) - 1
      /\ \A i \in 1 .. k - 1 : r[i] = t[i]
      /\ \A i \in k .. Len(t) - 1 : r[i] = t[i + 1]
  BY RemoveAtProperties
<1>3. /\ DOMAIN s = 1 .. Len(s) /\ Len(s) \in Nat
      /\ DOMAIN t = 1 .. Len(t) /\ Len(t) \in Nat
      /\ DOMAIN r = 1 .. Len(t) - 1
  BY <1>2
<1>4. \A i \in 1 .. Len(s) : place[i] \in 1 .. Len(t) /\ place[i] # k
  BY <1>1, <1>3
<1>5. to \in [1 .. Len(s) -> 1 .. Len(t) - 1]
  BY <1>3, <1>4
<1>6. \A i \in 1 .. Len(s) : to[i] = IF place[i] < k THEN place[i] ELSE place[i] - 1
  OBVIOUS
<1> HIDE DEF to, r
<1>7. \A i \in 1 .. Len(s) : s[i] = r[to[i]]
  <2> SUFFICES ASSUME NEW i \in 1 .. Len(s)
               PROVE  s[i] = r[to[i]]
    OBVIOUS
  <2>1. s[i] = t[place[i]]
    BY <1>1, <1>3
  <2>2. CASE place[i] < k
    BY <1>2, <1>3, <1>4, <1>6, <2>1, <2>2
  <2>3. CASE place[i] > k
    <3>1. place[i] - 1 \in k .. Len(t) - 1 /\ to[i] = place[i] - 1
      BY <1>3, <1>4, <1>6, <2>3
    <3>2. place[i] - 1 + 1 = place[i]
      BY <1>4
    <3> QED
      BY <1>2, <2>1, <3>1, <3>2
  <2> QED
    BY <1>4, <2>2, <2>3
<1>8. \A i, j \in 1 .. Len(s) : i < j => to[i] < to[j]
  <2> SUFFICES ASSUME NEW i \in 1 .. Len(s), NEW j \in 1 .. Len(s), i < j
               PROVE  to[i] < to[j]
    OBVIOUS
  <2>1. place[i] < place[j]
    BY <1>1, <1>3
  <2>2. /\ place[i] \in Int /\ place[i] # k
        /\ place[j] \in Int /\ place[j] # k /\ k \in Int
    BY <1>3, <1>4
  <2>3. /\ to[i] = IF place[i] < k THEN place[i] ELSE place[i] - 1
        /\ to[j] = IF place[j] < k THEN place[j] ELSE place[j] - 1
    BY <1>6
  <2> QED
    BY ONLY <2>1, <2>2, <2>3
<1> QED
  <2>1. Among(s, r)
    BY ONLY <1>2, <1>5, <1>7, <1>8, s \in Seq(Span), AmongBy
  <2> QED
    BY ONLY <2>1 DEF r

\* What is left of the stack after the end of the innermost span of a name is among
\* what is left in the program.
LEMMA AmongPopped ==
    ASSUME NEW s \in Seq(Span), NEW t \in Seq(Span), NEW k \in 1 .. Len(t), Among(s, t),
           \A j \in k + 1 .. Len(t) : t[j].name # t[k].name
    PROVE  Among(PoppedThrough(s, t[k].name), RemoveAt(t, k))
<1>1. PICK place \in [DOMAIN s -> DOMAIN t] :
          /\ \A i \in DOMAIN s : s[i] = t[place[i]]
          /\ \A i, j \in DOMAIN s : i < j => place[i] < place[j]
  BY DEF Among
<1> DEFINE r == RemoveAt(t, k)
           p == PoppedThrough(s, t[k].name)
<1>2. /\ r \in Seq(Span) /\ Len(r) = Len(t) - 1
      /\ \A i \in 1 .. k - 1 : r[i] = t[i]
  BY RemoveAtProperties
<1>3. /\ DOMAIN s = 1 .. Len(s) /\ Len(s) \in Nat
      /\ DOMAIN t = 1 .. Len(t) /\ Len(t) \in Nat
      /\ DOMAIN r = 1 .. Len(t) - 1
  BY <1>2
<1> DEFINE name == t[k].name
           LeavesFirst(n) == /\ PoppedThrough(s, name) \in Seq(Span)
                             /\ Len(PoppedThrough(s, name)) = n
                             /\ \A i \in 1 .. n : PoppedThrough(s, name)[i] = s[i]
                             /\ n < Len(s) \/ Len(s) = 0
                             /\ n > 0 => s[n + 1].name = name
<1>a. \E n \in 0 .. Len(s) : LeavesFirst(n)
  <2> HIDE DEF name
  <2> QED
    BY ONLY s \in Seq(Span), PoppedThroughProperties
<1>4. PICK n \in 0 .. Len(s) :
          /\ p \in Seq(Span)
          /\ Len(p) = n
          /\ \A i \in 1 .. n : p[i] = s[i]
          /\ n < Len(s) \/ Len(s) = 0
          /\ n > 0 => s[n + 1].name = t[k].name
  BY ONLY <1>a
<1> HIDE DEF r, p
<1>5. CASE n = 0
  BY <1>2, <1>4, <1>5, AmongEmpty DEF r, p
<1>6. CASE n > 0
  <2>1. n + 1 \in 1 .. Len(s)
    BY <1>3, <1>4, <1>6
  <2>2. place[n + 1] \in 1 .. Len(t) /\ t[place[n + 1]].name = t[k].name
    BY <1>1, <1>3, <1>4, <1>6, <2>1
  <2>3. place[n + 1] <= k
    BY <1>3, <2>2
  <2>4. \A i \in 1 .. n : place[i] \in 1 .. k - 1 /\ i \in 1 .. Len(s)
    <3> SUFFICES ASSUME NEW i \in 1 .. n
                 PROVE  place[i] \in 1 .. k - 1 /\ i \in 1 .. Len(s)
      OBVIOUS
    <3>1. i \in 1 .. Len(s) /\ i < n + 1
      BY <1>3, <2>1
    <3>2. place[i] \in 1 .. Len(t) /\ place[i] < place[n + 1]
      BY <1>1, <1>3, <2>1, <3>1
    <3> QED
      BY <1>3, <2>2, <2>3, <3>1, <3>2
  <2> DEFINE to == [i \in 1 .. n |-> place[i]]
  <2>5. to \in [1 .. n -> 1 .. Len(t) - 1]
    BY <1>3, <2>4
  <2>6. \A i \in 1 .. n : to[i] = place[i]
    OBVIOUS
  <2> HIDE DEF to
  <2>7. \A i \in 1 .. n : p[i] = r[to[i]]
    <3> SUFFICES ASSUME NEW i \in 1 .. n
                 PROVE  p[i] = r[to[i]]
      OBVIOUS
    <3>1. p[i] = s[i] /\ s[i] = t[place[i]]
      BY <1>1, <1>3, <1>4, <2>4
    <3>2. r[place[i]] = t[place[i]]
      BY ONLY <1>2, <2>4, i \in 1 .. n
    <3> QED
      BY <2>6, <3>1, <3>2
  <2>8. \A i, j \in 1 .. n : i < j => to[i] < to[j]
    BY <1>1, <1>3, <2>4, <2>6
  <2> QED
    <3>1. Among(p, r)
      BY ONLY <1>2, <1>4, <2>5, <2>7, <2>8, s \in Seq(Span), t \in Seq(Span), AmongBy
    <3> QED
      BY ONLY <3>1 DEF r, p
<1> QED
  BY <1>5, <1>6

-----------------------------------------------------------------------------
(***************************************************************************)
(* Shown: how many of the open spans can be on the stack.                  *)
(***************************************************************************)

ShownAt(s) == {i \in 1 .. Len(s) : s[i].name \notin Undecodable}

LEMMA ShownIsCount ==
    ASSUME NEW s \in Seq(Span)
    PROVE  /\ Shown(s) = Cardinality(ShownAt(s))
           /\ IsFiniteSet(ShownAt(s))
           /\ Shown(s) \in Nat
<1>1. Len(s) \in Nat /\ DOMAIN s = 1 .. Len(s)
  OBVIOUS
<1>2. IsFiniteSet(1 .. Len(s))
  BY <1>1, FS_Interval
<1>3. ShownAt(s) \in SUBSET (1 .. Len(s))
  BY DEF ShownAt
<1>4. IsFiniteSet(ShownAt(s))
  BY <1>2, <1>3, FS_Subset
<1>5. Shown(s) = Cardinality(ShownAt(s))
  BY <1>1 DEF Shown, ShownAt
<1> QED
  BY <1>4, <1>5, FS_CardinalityType

LEMMA ShownEmpty ==
    ASSUME NEW s \in Seq(Span), Len(s) = 0
    PROVE  Shown(s) = 0
<1>1. ShownAt(s) = {}
  BY DEF ShownAt
<1> QED
  BY <1>1, ShownIsCount, FS_EmptySet

LEMMA ShownAppended ==
    ASSUME NEW s \in Seq(Span), NEW x \in Span
    PROVE  Shown(Append(s, x)) = Shown(s) + IF x.name \in Undecodable THEN 0 ELSE 1
<1> DEFINE a == Append(s, x)
<1>1. /\ a \in Seq(Span) /\ Len(a) = Len(s) + 1 /\ Len(s) \in Nat
      /\ \A i \in 1 .. Len(s) : a[i] = s[i]
      /\ a[Len(s) + 1] = x
  BY AppendIsAt
<1> HIDE DEF a
<1>2. ShownAt(s) \subseteq 1 .. Len(s)
  BY DEF ShownAt
<1>3. ShownAt(a) = ShownAt(s) \cup (IF x.name \in Undecodable THEN {} ELSE {Len(s) + 1})
  <2>1. \A i : i \in 1 .. Len(a) <=> i \in 1 .. Len(s) \/ i = Len(s) + 1
    BY <1>1
  <2>2. \A i \in 1 .. Len(s) : i \in ShownAt(a) <=> i \in ShownAt(s)
    BY <1>1, <2>1 DEF ShownAt
  <2>3. Len(s) + 1 \in ShownAt(a) <=> x.name \notin Undecodable
    BY <1>1, <2>1 DEF ShownAt
  <2>4. ShownAt(a) \subseteq 1 .. Len(a)
    BY DEF ShownAt
  <2> QED
    BY <1>2, <2>1, <2>2, <2>3, <2>4
<1>4. Len(s) + 1 \notin ShownAt(s)
  BY <1>1, <1>2
<1>5. /\ Shown(a) = Cardinality(ShownAt(a))
      /\ Shown(s) = Cardinality(ShownAt(s)) /\ IsFiniteSet(ShownAt(s)) /\ Shown(s) \in Nat
  BY <1>1, ShownIsCount
<1>6. Cardinality(ShownAt(s) \cup {Len(s) + 1}) = Cardinality(ShownAt(s)) + 1
  BY <1>4, <1>5, FS_AddElement
<1>7. CASE x.name \in Undecodable
  BY <1>3, <1>5, <1>7 DEF a
<1>8. CASE x.name \notin Undecodable
  BY <1>3, <1>5, <1>6, <1>8 DEF a
<1> QED
  BY <1>7, <1>8

LEMMA ShownRemoved ==
    ASSUME NEW s \in Seq(Span), NEW k \in 1 .. Len(s)
    PROVE  Shown(RemoveAt(s, k)) >= Shown(s) - IF s[k].name \in Undecodable THEN 0 ELSE 1
<1> DEFINE r == RemoveAt(s, k)
           from == ShownAt(s) \ {k}
           to == [i \in from |-> IF i < k THEN i ELSE i - 1]
<1>0. /\ r \in Seq(Span) /\ Len(r) = Len(s) - 1
      /\ \A i \in 1 .. k - 1 : r[i] = s[i]
      /\ \A i \in k .. Len(s) - 1 : r[i] = s[i + 1]
  BY RemoveAtProperties
<1> HIDE DEF r
<1>1. /\ r \in Seq(Span) /\ Len(r) = Len(s) - 1 /\ Len(s) \in Nat
      /\ \A i \in 1 .. k - 1 : r[i] = s[i]
      /\ \A i \in k .. Len(s) - 1 : r[i] = s[i + 1]
  BY <1>0
<1>2. \A i \in from : i \in 1 .. Len(s) /\ i # k /\ s[i].name \notin Undecodable
  BY DEF ShownAt
<1>3. \A i \in from : to[i] \in ShownAt(r)
  <2> SUFFICES ASSUME NEW i \in from
               PROVE  to[i] \in ShownAt(r)
    OBVIOUS
  <2>1. i \in 1 .. Len(s) /\ i # k /\ s[i].name \notin Undecodable
    BY <1>2
  <2>2. CASE i < k
    <3>1. to[i] = i /\ i \in 1 .. k - 1 /\ i \in 1 .. Len(r)
      BY <1>1, <2>1, <2>2
    <3> QED
      BY <1>1, <2>1, <3>1 DEF ShownAt
  <2>3. CASE i > k
    <3>1. to[i] = i - 1 /\ i - 1 \in k .. Len(s) - 1 /\ i - 1 \in 1 .. Len(r) /\ i - 1 + 1 = i
      BY <1>1, <2>1, <2>3
    <3> QED
      BY <1>1, <2>1, <3>1 DEF ShownAt
  <2> QED
    BY <2>1, <2>2, <2>3
<1>4. \A i, j \in from : to[i] = to[j] => i = j
  BY <1>2
<1>5. to \in Injection(from, ShownAt(r))
  <2>1. to \in [from -> ShownAt(r)]
    BY <1>3
  <2>2. DOMAIN to = from
    OBVIOUS
  <2> HIDE DEF to, from
  <2> QED
    BY <1>4, <2>1, <2>2 DEF Injection, IsInjective
<1>6. /\ Shown(r) = Cardinality(ShownAt(r)) /\ IsFiniteSet(ShownAt(r)) /\ Shown(r) \in Nat
      /\ Shown(s) = Cardinality(ShownAt(s)) /\ IsFiniteSet(ShownAt(s)) /\ Shown(s) \in Nat
  BY <1>1, ShownIsCount
<1>7. Cardinality(from) = IF k \in ShownAt(s) THEN Shown(s) - 1 ELSE Shown(s)
  BY <1>6, FS_RemoveElement
<1> HIDE DEF from, to
<1>8. Cardinality(from) <= Shown(r)
  BY <1>5, <1>6, FS_Injection
<1>9. k \in ShownAt(s) <=> s[k].name \notin Undecodable
  BY DEF ShownAt
<1> QED
  BY <1>6, <1>7, <1>8, <1>9 DEF r

-----------------------------------------------------------------------------
(***************************************************************************)
(* The chain of records: how what was open on a CPU at one record follows  *)
(* from what was open at the record before.  View is the type of seen[c];  *)
(* orderly says that so far no end has been lost and no span been crossed. *)
(***************************************************************************)

View == [scope : Seq(Span), lost : Nat]

Delta(e) ==
    CASE e.kind = "msg" \/ e.name \in Undecodable -> 0
      [] e.kind = "span_start" /\ e.name \notin Undecodable -> 1
      [] e.kind = "span_end" /\ e.name \notin Undecodable -> -1

\* Record e takes the open spans from before to e.scope.
Via(before, e) ==
    \/ /\ e.kind = "msg"
       /\ e.scope = before
    \/ /\ e.kind = "span_start"
       /\ \E x \in Span : x.name = e.name /\ e.scope = Append(before, x)
    \/ /\ e.kind = "span_end"
       /\ \E k \in 1 .. Len(before) :
              /\ before[k].name = e.name
              /\ \A j \in k + 1 .. Len(before) : before[j].name # e.name
              /\ e.scope = RemoveAt(before, k)

\* Between the records v and e spans were started and ends of spans were lost.
Link(v, e, orderly) ==
    /\ Shown(e.scope) + e.lost >= Shown(v.scope) + v.lost + Delta(e)
    /\ orderly => \E before \in Seq(Span) : Extends(v.scope, before) /\ Via(before, e)

\* The same between record v and the present.
Current(v, spans, lost, orderly) ==
    /\ Shown(spans) + lost >= Shown(v.scope) + v.lost
    /\ orderly => Extends(v.scope, spans)

\* What the thread has seen of CPU c before the i-th record of the queue q is its j-th
\* record, or v if j is 0.
Precedes(q, c, j, i) ==
    /\ j = 0 \/ q[j].cpu = c
    /\ \A k \in j + 1 .. i - 1 : q[k].cpu # c

At(q, v, j) == IF j = 0 THEN v ELSE q[j]

Linked(q, v, c, orderly) ==
    \A i \in 1 .. Len(q), j \in 0 .. Len(q) :
        j < i /\ q[i].cpu = c /\ Precedes(q, c, j, i) => Link(At(q, v, j), q[i], orderly)

UpToDate(q, v, c, spans, lost, orderly) ==
    \A j \in 0 .. Len(q) :
        Precedes(q, c, j, Len(q) + 1) => Current(At(q, v, j), spans, lost, orderly)

LEMMA ExtendsTransitive ==
    ASSUME NEW s \in Seq(Span), NEW t \in Seq(Span), NEW u \in Seq(Span),
           Extends(s, t), Extends(t, u)
    PROVE  Extends(s, u)
<1>1. Len(s) \in Nat /\ Len(t) \in Nat /\ Len(u) \in Nat
  OBVIOUS
<1>2. Len(s) <= Len(u)
  BY <1>1 DEF Extends
<1>3. \A i \in 1 .. Len(s) : i \in 1 .. Len(t) /\ u[i] = s[i]
  BY <1>1 DEF Extends
<1> QED
  BY <1>2, <1>3 DEF Extends

LEMMA EventIsView ==
    ASSUME NEW e \in Event
    PROVE  e.scope \in Seq(Span) /\ e.lost \in Nat /\ e.kind \in Kinds /\ e.cpu \in Cpus
BY DEF Event

LEMMA DeltaIs ==
    ASSUME NEW e \in Event
    PROVE  /\ e.kind = "msg" \/ e.name \in Undecodable => Delta(e) = 0
           /\ e.kind = "span_start" /\ e.name \notin Undecodable => Delta(e) = 1
           /\ e.kind = "span_end" /\ e.name \notin Undecodable => Delta(e) = -1
           /\ Delta(e) \in -1 .. 1
<1>1. e.kind \in {"msg", "span_start", "span_end"}
  BY DEF Event, Kinds
<1> QED
  BY <1>1 DEF Delta

LEMMA ViewAt ==
    ASSUME NEW q \in Seq(Event), NEW v \in View, NEW j \in 0 .. Len(q)
    PROVE  At(q, v, j).scope \in Seq(Span) /\ At(q, v, j).lost \in Nat
<1>1. CASE j = 0
  BY <1>1 DEF At, View
<1>2. CASE j # 0
  <2>1. q[j] \in Event
    BY <1>2
  <2> QED
    BY <1>2, <2>1, EventIsView DEF At
<1> QED
  BY <1>1, <1>2

\* A record that is emitted now is linked to the one before.
LEMMA CurrentThenLink ==
    ASSUME NEW w, w.scope \in Seq(Span), w.lost \in Nat, NEW spans \in Seq(Span),
           NEW e \in Event, NEW before \in BOOLEAN, NEW after \in BOOLEAN,
           Current(w, spans, e.lost, before), after => before,
           Shown(e.scope) >= Shown(spans) + Delta(e), after => Via(spans, e)
    PROVE  Link(w, e, after)
<1>1. /\ Shown(e.scope) \in Nat /\ Shown(spans) \in Nat /\ Shown(w.scope) \in Nat
      /\ e.lost \in Nat /\ w.lost \in Nat /\ Delta(e) \in Int
  BY ShownIsCount, EventIsView, DeltaIs
<1>2. Shown(spans) + e.lost >= Shown(w.scope) + w.lost
  BY DEF Current
<1>3. Shown(e.scope) + e.lost >= Shown(w.scope) + w.lost + Delta(e)
  BY ONLY <1>1, <1>2, Shown(e.scope) >= Shown(spans) + Delta(e)
<1>4. ASSUME after
      PROVE  Extends(w.scope, spans) /\ Via(spans, e)
  BY <1>4 DEF Current
<1> QED
  BY <1>3, <1>4 DEF Link

LEMMA ExtendsItself ==
    ASSUME NEW s \in Seq(Span)
    PROVE  Extends(s, s)
BY DEF Extends

LEMMA PutProperties ==
    ASSUME NEW q \in Seq(Event), NEW e \in Event
    PROVE  /\ Append(q, e) \in Seq(Event)
           /\ Len(q) \in Nat
           /\ Len(Append(q, e)) = Len(q) + 1
           /\ \A i \in 1 .. Len(q) : Append(q, e)[i] = q[i]
           /\ Append(q, e)[Len(q) + 1] = e
OBVIOUS

LEMMA SamePrecedes ==
    ASSUME NEW p, NEW q, NEW c, NEW n \in Nat, \A i \in 1 .. n : p[i] = q[i],
           NEW i \in 1 .. n + 1, NEW j \in 0 .. n
    PROVE  Precedes(p, c, j, i) <=> Precedes(q, c, j, i)
<1>1. \A k \in j + 1 .. i - 1 : p[k] = q[k]
  OBVIOUS
<1>2. j = 0 \/ p[j] = q[j]
  OBVIOUS
<1> QED
  BY ONLY <1>1, <1>2 DEF Precedes

LEMMA PutLinked ==
    ASSUME NEW q \in Seq(Event), NEW v \in View, NEW c \in Cpus, NEW spans \in Seq(Span),
           NEW e \in Event, NEW before \in BOOLEAN, NEW after \in BOOLEAN,
           Linked(q, v, c, before), UpToDate(q, v, c, spans, e.lost, before),
           e.cpu = c, after => before,
           Shown(e.scope) >= Shown(spans) + Delta(e), after => Via(spans, e)
    PROVE  /\ Linked(Append(q, e), v, c, after)
           /\ UpToDate(Append(q, e), v, c, e.scope, e.lost, after)
<1> DEFINE p == Append(q, e)
           n == Len(q)
<1>1. /\ p \in Seq(Event) /\ n \in Nat /\ Len(p) = n + 1
      /\ \A i \in 1 .. n : p[i] = q[i]
      /\ p[n + 1] = e
  BY PutProperties
<1> HIDE DEF p
<1>2. \A j \in 0 .. n : At(p, v, j) = At(q, v, j)
  BY <1>1 DEF At
<1>3. \A i \in 1 .. n + 1, j \in 0 .. n : Precedes(p, c, j, i) <=> Precedes(q, c, j, i)
  BY ONLY <1>1, SamePrecedes
<1>4. Linked(p, v, c, after)
  <2> SUFFICES ASSUME NEW i \in 1 .. n + 1, NEW j \in 0 .. n + 1,
                      j < i, p[i].cpu = c, Precedes(p, c, j, i)
               PROVE  Link(At(p, v, j), p[i], after)
    BY <1>1 DEF Linked
  <2>1. j \in 0 .. n
    BY <1>1
  <2>2. At(p, v, j) = At(q, v, j) /\ Precedes(q, c, j, i)
    BY <1>2, <1>3, <2>1
  <2>3. CASE i \in 1 .. n
    <3>1. p[i] = q[i]
      BY <1>1, <2>3
    <3>2. Link(At(q, v, j), q[i], before)
      BY <2>1, <2>2, <2>3, <3>1 DEF Linked
    <3> QED
      BY <2>2, <3>1, <3>2 DEF Link
  <2>4. CASE i = n + 1
    <3>1. Current(At(q, v, j), spans, e.lost, before)
      BY <2>1, <2>2, <2>4 DEF UpToDate
    <3>2. At(q, v, j).scope \in Seq(Span) /\ At(q, v, j).lost \in Nat
      BY <2>1, ViewAt
    <3>3. Link(At(q, v, j), e, after)
      BY <3>1, <3>2, CurrentThenLink
    <3> QED
      BY <1>1, <2>2, <2>4, <3>3
  <2> QED
    BY <1>1, <2>3, <2>4
<1>5. UpToDate(p, v, c, e.scope, e.lost, after)
  <2> SUFFICES ASSUME NEW j \in 0 .. n + 1, Precedes(p, c, j, n + 2)
               PROVE  Current(At(p, v, j), e.scope, e.lost, after)
    <3>1. Len(p) + 1 = n + 2
      BY <1>1
    <3> QED
      BY <1>1, <3>1 DEF UpToDate
  <2>1. j = n + 1
    <3> SUFFICES ASSUME j # n + 1
                 PROVE  FALSE
      OBVIOUS
    <3>1. n + 1 \in j + 1 .. n + 2 - 1
      BY <1>1
    <3> QED
      BY <1>1, <3>1 DEF Precedes
  <2>2. At(p, v, j) = e
    BY <1>1, <2>1 DEF At
  <2>3. Shown(e.scope) \in Nat /\ e.lost \in Nat /\ Extends(e.scope, e.scope)
    BY EventIsView, ShownIsCount, ExtendsItself
  <2> QED
    BY <2>2, <2>3 DEF Current
<1> QED
  BY <1>4, <1>5 DEF p

\* A record of another CPU.
LEMMA PutElsewhere ==
    ASSUME NEW q \in Seq(Event), NEW v \in View, NEW c \in Cpus, NEW spans, NEW lost,
           NEW e \in Event, NEW orderly \in BOOLEAN,
           Linked(q, v, c, orderly), UpToDate(q, v, c, spans, lost, orderly), e.cpu # c
    PROVE  /\ Linked(Append(q, e), v, c, orderly)
           /\ UpToDate(Append(q, e), v, c, spans, lost, orderly)
<1> DEFINE p == Append(q, e)
           n == Len(q)
<1>1. /\ p \in Seq(Event) /\ n \in Nat /\ Len(p) = n + 1
      /\ \A i \in 1 .. n : p[i] = q[i]
      /\ p[n + 1] = e
  BY PutProperties
<1> HIDE DEF p
<1>2. \A j \in 0 .. n : At(p, v, j) = At(q, v, j)
  BY <1>1 DEF At
<1>3. \A i \in 1 .. n + 1, j \in 0 .. n : Precedes(p, c, j, i) <=> Precedes(q, c, j, i)
  BY ONLY <1>1, SamePrecedes
<1>4. Linked(p, v, c, orderly)
  <2> SUFFICES ASSUME NEW i \in 1 .. n + 1, NEW j \in 0 .. n + 1,
                      j < i, p[i].cpu = c, Precedes(p, c, j, i)
               PROVE  Link(At(p, v, j), p[i], orderly)
    BY <1>1 DEF Linked
  <2>1. j \in 0 .. n /\ i \in 1 .. n
    BY <1>1
  <2>2. At(p, v, j) = At(q, v, j) /\ Precedes(q, c, j, i) /\ p[i] = q[i]
    BY <1>1, <1>2, <1>3, <2>1
  <2> QED
    BY <2>1, <2>2 DEF Linked
<1>5. UpToDate(p, v, c, spans, lost, orderly)
  <2> SUFFICES ASSUME NEW j \in 0 .. n + 1, Precedes(p, c, j, n + 2)
               PROVE  Current(At(p, v, j), spans, lost, orderly)
    <3>1. Len(p) + 1 = n + 2
      BY <1>1
    <3> QED
      BY <1>1, <3>1 DEF UpToDate
  <2>1. j \in 0 .. n
    BY <1>1 DEF Precedes
  <2>2. Precedes(p, c, j, n + 1)
    BY <1>1 DEF Precedes
  <2>3. At(p, v, j) = At(q, v, j) /\ Precedes(q, c, j, n + 1)
    BY <1>1, <1>2, <1>3, <2>1, <2>2
  <2> QED
    BY <2>1, <2>3 DEF UpToDate
<1> QED
  BY <1>4, <1>5 DEF p

\* Nothing is emitted: spans are started or ends of spans get lost.
LEMMA QuietLinked ==
    ASSUME NEW q \in Seq(Event), NEW v \in View, NEW c \in Cpus,
           NEW spans \in Seq(Span), NEW lost \in Nat,
           NEW open \in Seq(Span), NEW missed \in Nat,
           NEW before \in BOOLEAN, NEW after \in BOOLEAN,
           Linked(q, v, c, before), UpToDate(q, v, c, spans, lost, before),
           after => before,
           Shown(open) + missed >= Shown(spans) + lost, after => Extends(spans, open)
    PROVE  /\ Linked(q, v, c, after)
           /\ UpToDate(q, v, c, open, missed, after)
<1>1. Linked(q, v, c, after)
  <2> SUFFICES ASSUME NEW i \in 1 .. Len(q), NEW j \in 0 .. Len(q),
                      j < i, q[i].cpu = c, Precedes(q, c, j, i)
               PROVE  Link(At(q, v, j), q[i], after)
    BY DEF Linked
  <2>1. Link(At(q, v, j), q[i], before)
    BY DEF Linked
  <2> QED
    BY <2>1 DEF Link
<1>2. UpToDate(q, v, c, open, missed, after)
  <2> SUFFICES ASSUME NEW j \in 0 .. Len(q), Precedes(q, c, j, Len(q) + 1)
               PROVE  Current(At(q, v, j), open, missed, after)
    BY DEF UpToDate
  <2> DEFINE w == At(q, v, j)
  <2>1. Current(w, spans, lost, before)
    BY DEF UpToDate
  <2>2. w.scope \in Seq(Span) /\ w.lost \in Nat
    BY ViewAt
  <2> HIDE DEF w
  <2>3. Shown(w.scope) \in Nat /\ Shown(spans) \in Nat /\ Shown(open) \in Nat
    BY <2>2, ShownIsCount
  <2>4. Shown(spans) + lost >= Shown(w.scope) + w.lost
    BY <2>1 DEF Current
  <2>5. Shown(open) + missed >= Shown(w.scope) + w.lost
    BY ONLY <2>2, <2>3, <2>4, lost \in Nat, missed \in Nat,
            Shown(open) + missed >= Shown(spans) + lost
  <2>6. after => Extends(w.scope, open)
    BY <2>1, <2>2, ExtendsTransitive DEF Current
  <2> QED
    BY <2>5, <2>6 DEF Current, w
<1> QED
  BY <1>1, <1>2

LEMMA TailAt ==
    ASSUME NEW q \in Seq(Event), q # << >>
    PROVE  /\ Tail(q) \in Seq(Event)
           /\ Len(q) \in Nat \ {0}
           /\ Len(Tail(q)) = Len(q) - 1
           /\ \A i \in 1 .. Len(q) - 1 : Tail(q)[i] = q[i + 1]
           /\ Head(q) = q[1]
           /\ Head(q) \in Event
OBVIOUS

\* What precedes what, when the first record of the queue q has been taken away.
LEMMA TailPrecedes ==
    ASSUME NEW t, NEW q, NEW c, NEW n \in Nat, Len(q) = n, Len(t) = n - 1,
           \A k \in 1 .. n - 1 : t[k] = q[k + 1], Head(q) = q[1], Head(q).cpu = c,
           NEW i \in 1 .. n, NEW j \in 0 .. n - 1, Precedes(t, c, j, i)
    PROVE  Precedes(q, c, j + 1, i + 1)
<1>1. q[j + 1].cpu = c
  <2>1. CASE j = 0
    BY <2>1
  <2>2. CASE j # 0
    BY <2>2 DEF Precedes
  <2> QED
    BY <2>1, <2>2
<1>2. ASSUME NEW k \in (j + 1) + 1 .. (i + 1) - 1
      PROVE  q[k].cpu # c
  <2>1. k - 1 \in j + 1 .. i - 1 /\ k - 1 \in 1 .. n - 1 /\ k - 1 + 1 = k
    OBVIOUS
  <2>2. t[k - 1].cpu # c
    BY <2>1 DEF Precedes
  <2> QED
    BY <2>1, <2>2
<1> QED
  BY <1>1, <1>2 DEF Precedes

LEMMA TailPrecedesElsewhere ==
    ASSUME NEW t, NEW q, NEW c, NEW n \in Nat, Len(q) = n, Len(t) = n - 1,
           \A k \in 1 .. n - 1 : t[k] = q[k + 1], Head(q) = q[1], Head(q).cpu # c,
           NEW i \in 1 .. n, NEW j \in 0 .. n - 1, Precedes(t, c, j, i)
    PROVE  Precedes(q, c, IF j = 0 THEN 0 ELSE j + 1, i + 1)
<1> DEFINE next == IF j = 0 THEN 0 ELSE j + 1
<1>1. next = 0 \/ q[next].cpu = c
  BY DEF Precedes
<1>2. ASSUME NEW k \in next + 1 .. (i + 1) - 1
      PROVE  q[k].cpu # c
  <2>1. CASE k = 1
    BY <2>1
  <2>2. CASE k # 1
    <3>1. k - 1 \in j + 1 .. i - 1 /\ k - 1 \in 1 .. n - 1 /\ k - 1 + 1 = k
      BY <2>2
    <3>2. t[k - 1].cpu # c
      BY <3>1 DEF Precedes
    <3> QED
      BY <3>1, <3>2
  <2> QED
    BY <2>1, <2>2
<1> QED
  BY <1>1, <1>2 DEF Precedes

\* The thread has received a record of CPU c.
LEMMA TailLinked ==
    ASSUME NEW q \in Seq(Event), q # << >>, NEW v, NEW w, NEW c \in Cpus,
           NEW spans, NEW lost, NEW orderly \in BOOLEAN,
           Linked(q, v, c, orderly), UpToDate(q, v, c, spans, lost, orderly),
           Head(q).cpu = c, w.scope = Head(q).scope, w.lost = Head(q).lost
    PROVE  /\ Link(v, Head(q), orderly)
           /\ Linked(Tail(q), w, c, orderly)
           /\ UpToDate(Tail(q), w, c, spans, lost, orderly)
<1> DEFINE t == Tail(q)
           n == Len(q)
<1>1. /\ t \in Seq(Event) /\ n \in Nat \ {0} /\ Len(t) = n - 1
      /\ \A i \in 1 .. n - 1 : t[i] = q[i + 1]
      /\ Head(q) = q[1]
  BY TailAt
<1> HIDE DEF t
<1>2. Link(v, Head(q), orderly)
  <2>1. 1 \in 1 .. n /\ 0 \in 0 .. n
    BY <1>1
  <2>2. Precedes(q, c, 0, 1) /\ At(q, v, 0) = v /\ q[1].cpu = c
    BY <1>1 DEF Precedes, At
  <2> QED
    BY <1>1, <2>1, <2>2 DEF Linked
<1>3. \A j \in 0 .. n - 1 : /\ At(t, w, j).scope = At(q, v, j + 1).scope
                            /\ At(t, w, j).lost = At(q, v, j + 1).lost
  BY <1>1 DEF At
<1>4. ASSUME NEW i \in 1 .. n, NEW j \in 0 .. n - 1, Precedes(t, c, j, i)
      PROVE  Precedes(q, c, j + 1, i + 1)
  BY ONLY <1>1, <1>4, Head(q).cpu = c, TailPrecedes
<1>5. Linked(t, w, c, orderly)
  <2> SUFFICES ASSUME NEW i \in 1 .. n - 1, NEW j \in 0 .. n - 1,
                      j < i, t[i].cpu = c, Precedes(t, c, j, i)
               PROVE  Link(At(t, w, j), t[i], orderly)
    BY <1>1 DEF Linked
  <2>0. i \in 1 .. n
    BY <1>1
  <2>1. Precedes(q, c, j + 1, i + 1)
    BY ONLY <1>4, <2>0, j \in 0 .. n - 1, Precedes(t, c, j, i)
  <2>2. /\ i + 1 \in 1 .. n /\ j + 1 \in 0 .. n /\ j + 1 < i + 1
        /\ t[i] = q[i + 1]
    BY <1>1
  <2>3. Link(At(q, v, j + 1), q[i + 1], orderly)
    BY <2>1, <2>2 DEF Linked
  <2> QED
    BY <1>3, <2>2, <2>3 DEF Link
<1>6. UpToDate(t, w, c, spans, lost, orderly)
  <2> SUFFICES ASSUME NEW j \in 0 .. n - 1, Precedes(t, c, j, n)
               PROVE  Current(At(t, w, j), spans, lost, orderly)
    <3>1. Len(t) + 1 = n
      BY <1>1
    <3> QED
      BY <1>1, <3>1 DEF UpToDate
  <2>1. Precedes(q, c, j + 1, n + 1) /\ j + 1 \in 0 .. n
    BY <1>1, <1>4
  <2>2. Current(At(q, v, j + 1), spans, lost, orderly)
    BY <2>1 DEF UpToDate
  <2> QED
    BY <1>3, <2>2 DEF Current
<1> QED
  BY <1>2, <1>5, <1>6 DEF t

\* The thread has received a record of another CPU.
LEMMA TailElsewhere ==
    ASSUME NEW q \in Seq(Event), q # << >>, NEW v, NEW c \in Cpus,
           NEW spans, NEW lost, NEW orderly \in BOOLEAN,
           Linked(q, v, c, orderly), UpToDate(q, v, c, spans, lost, orderly),
           Head(q).cpu # c
    PROVE  /\ Linked(Tail(q), v, c, orderly)
           /\ UpToDate(Tail(q), v, c, spans, lost, orderly)
<1> DEFINE t == Tail(q)
           n == Len(q)
           next(j) == IF j = 0 THEN 0 ELSE j + 1
<1>1. /\ t \in Seq(Event) /\ n \in Nat \ {0} /\ Len(t) = n - 1
      /\ \A i \in 1 .. n - 1 : t[i] = q[i + 1]
      /\ Head(q) = q[1]
  BY TailAt
<1> HIDE DEF t
<1>2. \A j \in 0 .. n - 1 : At(t, v, j) = At(q, v, next(j))
  BY <1>1 DEF At
<1>3. ASSUME NEW i \in 1 .. n, NEW j \in 0 .. n - 1, Precedes(t, c, j, i)
      PROVE  Precedes(q, c, next(j), i + 1)
  BY ONLY <1>1, <1>3, Head(q).cpu # c, TailPrecedesElsewhere
<1>4. Linked(t, v, c, orderly)
  <2> SUFFICES ASSUME NEW i \in 1 .. n - 1, NEW j \in 0 .. n - 1,
                      j < i, t[i].cpu = c, Precedes(t, c, j, i)
               PROVE  Link(At(t, v, j), t[i], orderly)
    BY <1>1 DEF Linked
  <2>0. i \in 1 .. n
    BY <1>1
  <2>1. Precedes(q, c, next(j), i + 1)
    BY ONLY <1>3, <2>0, j \in 0 .. n - 1, Precedes(t, c, j, i)
  <2>2. /\ i + 1 \in 1 .. n /\ next(j) \in 0 .. n /\ next(j) < i + 1
        /\ t[i] = q[i + 1]
    BY <1>1
  <2>3. Link(At(q, v, next(j)), q[i + 1], orderly)
    BY <2>1, <2>2 DEF Linked
  <2> QED
    BY <1>2, <2>2, <2>3
<1>5. UpToDate(t, v, c, spans, lost, orderly)
  <2> SUFFICES ASSUME NEW j \in 0 .. n - 1, Precedes(t, c, j, n)
               PROVE  Current(At(t, v, j), spans, lost, orderly)
    <3>1. Len(t) + 1 = n
      BY <1>1
    <3> QED
      BY <1>1, <3>1 DEF UpToDate
  <2>1. Precedes(q, c, next(j), n + 1) /\ next(j) \in 0 .. n
    BY <1>1, <1>3
  <2>2. Current(At(q, v, next(j)), spans, lost, orderly)
    BY <2>1 DEF UpToDate
  <2> QED
    BY <1>2, <2>2
<1> QED
  BY <1>4, <1>5 DEF t

-----------------------------------------------------------------------------
(***************************************************************************)
(* The stack of a CPU after its last record v, and what the next one does  *)
(* to it.                                                                  *)
(***************************************************************************)

StackGood(stack, v, orderly) ==
    /\ \A i \in 1 .. Len(stack) : stack[i].name \notin Undecodable
    /\ Len(stack) <= Shown(v.scope) + v.lost
    /\ orderly => Among(stack, v.scope)

LEMMA LinkCounts ==
    ASSUME NEW v \in View, NEW e \in Event, NEW orderly \in BOOLEAN, Link(v, e, orderly)
    PROVE  /\ Shown(v.scope) + v.lost \in Nat
           /\ Shown(e.scope) + e.lost \in Nat
           /\ Shown(e.scope) + e.lost >= Shown(v.scope) + v.lost + Delta(e)
<1>1. v.scope \in Seq(Span) /\ v.lost \in Nat
  BY DEF View
<1>2. e.scope \in Seq(Span) /\ e.lost \in Nat
  BY EventIsView
<1>3. Shown(v.scope) \in Nat /\ Shown(e.scope) \in Nat
  BY <1>1, <1>2, ShownIsCount
<1> QED
  BY <1>1, <1>2, <1>3 DEF Link

\* It is left alone by a record that is not decoded or is no end.
LEMMA StackKept ==
    ASSUME NEW stack \in Seq(Span), NEW v \in View, NEW e \in Event,
           NEW orderly \in BOOLEAN,
           StackGood(stack, v, orderly), Link(v, e, orderly),
           e.name \in Undecodable \/ e.kind # "span_end"
    PROVE  StackGood(stack, e, orderly)
<1>1. Len(stack) <= Shown(e.scope) + e.lost
  <2>1. Delta(e) \in 0 .. 1
    <3>1. e.kind \in {"msg", "span_start", "span_end"}
      BY DEF Event, Kinds
    <3> QED
      BY <3>1, DeltaIs
  <2>2. Len(stack) <= Shown(v.scope) + v.lost /\ Len(stack) \in Nat
    BY DEF StackGood
  <2> QED
    BY <2>1, <2>2, LinkCounts
<1>2. ASSUME orderly
      PROVE  Among(stack, e.scope)
  <2>1. PICK before \in Seq(Span) : Extends(v.scope, before) /\ Via(before, e)
    BY <1>2 DEF Link
  <2>2. Among(stack, before)
    BY <1>2, <2>1, AmongExtended DEF StackGood, View
  <2>3. CASE e.scope = before
    BY <2>2, <2>3
  <2>4. ASSUME NEW x \in Span, e.scope = Append(before, x)
        PROVE  Among(stack, e.scope)
    <3>1. e.scope \in Seq(Span) /\ Extends(before, e.scope)
      BY <2>4, AppendIsAt
    <3> QED
      BY ONLY <2>2, <3>1, stack \in Seq(Span), before \in Seq(Span), AmongExtended
  <2>5. ASSUME NEW k \in 1 .. Len(before), before[k].name = e.name,
               e.name \in Undecodable, e.scope = RemoveAt(before, k)
        PROVE  Among(stack, e.scope)
    <3>1. \A i \in 1 .. Len(stack) : stack[i].name # before[k].name
      BY <2>5 DEF StackGood
    <3> QED
      BY <2>2, <2>5, <3>1, AmongRemoved
  <2> QED
    BY <2>1, <2>3, <2>4, <2>5 DEF Via
<1> QED
  BY <1>1, <1>2 DEF StackGood

\* The start of a span is pushed.
LEMMA StackStarted ==
    ASSUME NEW stack \in Seq(Span), NEW v \in View, NEW e \in Event,
           NEW orderly \in BOOLEAN,
           StackGood(stack, v, orderly), Link(v, e, orderly),
           e.name \notin Undecodable, e.kind = "span_start",
           Last(e.scope) \in Span, Last(e.scope).name = e.name
    PROVE  StackGood(Append(stack, Last(e.scope)), e, orderly)
<1> DEFINE x == Last(e.scope)
           s == Append(stack, x)
<1>1. /\ s \in Seq(Span) /\ Len(s) = Len(stack) + 1 /\ Len(stack) \in Nat
      /\ \A i \in 1 .. Len(stack) : s[i] = stack[i]
      /\ s[Len(stack) + 1] = x
  BY AppendIsAt
<1> HIDE DEF s
<1>2. \A i \in 1 .. Len(s) : s[i].name \notin Undecodable
  <2>1. \A i \in 1 .. Len(s) : i \in 1 .. Len(stack) \/ i = Len(stack) + 1
    BY <1>1
  <2> QED
    BY <1>1, <2>1 DEF StackGood
<1>3. Len(s) <= Shown(e.scope) + e.lost
  <2>1. Delta(e) = 1
    BY DeltaIs
  <2>2. Len(stack) <= Shown(v.scope) + v.lost
    BY DEF StackGood
  <2> QED
    BY <1>1, <2>1, <2>2, LinkCounts
<1>4. ASSUME orderly
      PROVE  Among(s, e.scope)
  <2>1. PICK before \in Seq(Span) : Extends(v.scope, before) /\ Via(before, e)
    BY <1>4 DEF Link
  <2>2. Among(stack, before)
    BY <1>4, <2>1, AmongExtended DEF StackGood, View
  <2>3. PICK y \in Span : e.scope = Append(before, y)
    BY <2>1 DEF Via
  <2>4. x = y
    BY <2>3, AppendIsAt
  <2> QED
    BY <2>2, <2>3, <2>4, AmongAppended DEF s
<1> QED
  BY <1>2, <1>3, <1>4 DEF StackGood, s

\* The end of a span pops through its name.
LEMMA StackEnded ==
    ASSUME NEW stack \in Seq(Span), NEW v \in View, NEW e \in Event,
           NEW orderly \in BOOLEAN,
           StackGood(stack, v, orderly), Link(v, e, orderly),
           e.name \notin Undecodable, e.kind = "span_end"
    PROVE  /\ PoppedThrough(stack, e.name) \in Seq(Span)
           /\ StackGood(PoppedThrough(stack, e.name), e, orderly)
<1> DEFINE name == e.name
           s == PoppedThrough(stack, name)
<1>1. PICK n \in 0 .. Len(stack) :
          /\ s \in Seq(Span)
          /\ Len(s) = n
          /\ \A i \in 1 .. n : s[i] = stack[i]
          /\ n < Len(stack) \/ Len(stack) = 0
  <2> HIDE DEF name
  <2> QED
    BY ONLY stack \in Seq(Span), PoppedThroughProperties
<1> HIDE DEF s
<1>2. \A i \in 1 .. Len(s) : s[i].name \notin Undecodable
  <2>1. \A i \in 1 .. n : i \in 1 .. Len(stack)
    OBVIOUS
  <2> QED
    BY <1>1, <2>1 DEF StackGood
<1>3. Len(s) <= Shown(e.scope) + e.lost
  <2>1. Delta(e) = -1
    BY DeltaIs
  <2>2. Len(stack) <= Shown(v.scope) + v.lost /\ Len(stack) \in Nat
    BY DEF StackGood
  <2>3. /\ Shown(v.scope) + v.lost \in Nat
        /\ Shown(e.scope) + e.lost \in Nat
        /\ Shown(e.scope) + e.lost >= Shown(v.scope) + v.lost + Delta(e)
    BY LinkCounts
  <2> QED
    BY ONLY <1>1, <2>1, <2>2, <2>3, n \in 0 .. Len(stack)
<1>4. ASSUME orderly
      PROVE  Among(s, e.scope)
  <2>1. PICK before \in Seq(Span) : Extends(v.scope, before) /\ Via(before, e)
    BY <1>4 DEF Link
  <2>2. Among(stack, before)
    BY <1>4, <2>1, AmongExtended DEF StackGood, View
  <2>3. PICK k \in 1 .. Len(before) :
            /\ before[k].name = e.name
            /\ \A j \in k + 1 .. Len(before) : before[j].name # e.name
            /\ e.scope = RemoveAt(before, k)
    BY <2>1 DEF Via
  <2>4. Among(PoppedThrough(stack, before[k].name), RemoveAt(before, k))
    BY <2>2, <2>3, AmongPopped
  <2> QED
    BY <2>3, <2>4 DEF s
<1> QED
  BY <1>1, <1>2, <1>3, <1>4 DEF StackGood, s

-----------------------------------------------------------------------------
(***************************************************************************)
(* The inductive invariant.                                                *)
(***************************************************************************)

\* On CPU c no end has been lost and no span crossed.
Orderly(c) == lostEnds[c] = 0 /\ ~ crossed[c]

StartsItsSpan(e) ==
    e.kind = "span_start" => Last(e.scope) \in Span /\ Last(e.scope).name = e.name

QueueTyped ==
    /\ queue \in Seq(Event)
    /\ Len(queue) <= Capacity
    /\ missing \in [Cpus -> BOOLEAN]
    /\ losses \in 0 .. MaxLost
    /\ lostEnds \in [Cpus -> 0 .. MaxLost]
    /\ \A c \in Cpus : lostEnds[c] <= losses
    /\ \A i \in 1 .. Len(queue) : StartsItsSpan(queue[i])

ThreadTyped ==
    /\ stacks \in Seq(Seq(Span))
    /\ seen \in [Cpus -> View]
    /\ inSync \in [Cpus -> BOOLEAN]

TypeInv ==
    /\ QueueTyped
    /\ ThreadTyped
    /\ scope \in [Cpus -> Seq(Span)]
    /\ crossed \in [Cpus -> BOOLEAN]

\* With tracing off nothing is ever emitted, ends of spans included.
ChainInv ==
    /\ BpfLevel = 0 => queue = << >>
    /\ BpfLevel # 0 => \A c \in Cpus :
           /\ Linked(queue, seen[c], c, Orderly(c))
           /\ UpToDate(queue, seen[c], c, scope[c], lostEnds[c], Orderly(c))

StackInv == \A c \in Cpus : StackGood(StackOf(c), seen[c], Orderly(c))

Inv == TypeInv /\ ChainInv /\ StackInv

LEMMA CpuFacts ==
    ASSUME TypeInv, NEW c \in Cpus
    PROVE  /\ scope[c] \in Seq(Span) /\ lostEnds[c] \in Nat /\ seen[c] \in View
           /\ Orderly(c) \in BOOLEAN /\ Orderly(c)' \in BOOLEAN
           /\ StackOf(c) \in Seq(Span) /\ c \in Nat
<1>1. c \in Nat
  BY CpusAssumption
<1>2. StackOf(c) \in Seq(Span)
  <2>1. CASE c < Len(stacks)
    <3>1. c + 1 \in 1 .. Len(stacks)
      BY <1>1, <2>1 DEF TypeInv, QueueTyped, ThreadTyped
    <3> QED
      BY <2>1, <3>1 DEF TypeInv, QueueTyped, ThreadTyped, StackOf
  <2>2. CASE ~ (c < Len(stacks))
    BY <2>2 DEF StackOf
  <2> QED
    BY <2>1, <2>2
<1> QED
  BY <1>1, <1>2 DEF TypeInv, QueueTyped, ThreadTyped, Orderly

LEMMA InitInv == Init => Inv
<1> SUFFICES ASSUME Init
             PROVE  Inv
  OBVIOUS
<1> USE DEF Init, ProgramInit
<1>1. TypeInv
  <2>1. queue = << >> /\ Len(queue) = 0
    OBVIOUS
  <2>2. << >> \in Seq(Span) /\ << >> \in Seq(Event)
    OBVIOUS
  <2>3. stacks \in Seq(Seq(Span))
    <3>1. stacks \in [1 .. InitCpus -> Seq(Span)]
      BY <2>2
    <3> QED
      BY <3>1, InitCpusAssumption
  <2>4. NothingSeen \in View
    BY <2>2 DEF NothingSeen, View
  <2> QED
    BY <2>1, <2>2, <2>3, <2>4, BoundsAssumption DEF TypeInv, QueueTyped, ThreadTyped
<1>2. \A c \in Cpus : StackOf(c) = << >>
  BY CpusAssumption, InitCpusAssumption DEF StackOf
<1>0. << >> \in Seq(Span) /\ Len(<< >>) = 0
  OBVIOUS
<1>3. Shown(<< >>) = 0
  BY ONLY <1>0, ShownEmpty
<1>4. ChainInv
  <2> SUFFICES ASSUME BpfLevel # 0, NEW c \in Cpus
               PROVE  /\ Linked(queue, seen[c], c, Orderly(c))
                      /\ UpToDate(queue, seen[c], c, scope[c], lostEnds[c], Orderly(c))
    BY DEF ChainInv
  <2>1. queue = << >> /\ Len(queue) = 0
    OBVIOUS
  <2>2. Linked(queue, seen[c], c, Orderly(c))
    BY <2>1 DEF Linked
  <2>3. /\ scope[c] = << >> /\ lostEnds[c] = 0
        /\ seen[c].scope = << >> /\ seen[c].lost = 0
    BY DEF NothingSeen
  <2>4. Extends(<< >>, << >>)
    BY ONLY <1>0, ExtendsItself
  <2>5. Current(seen[c], scope[c], lostEnds[c], Orderly(c))
    BY <1>3, <2>3, <2>4 DEF Current
  <2>6. \A j \in 0 .. Len(queue) : At(queue, seen[c], j) = seen[c]
    BY <2>1 DEF At
  <2> QED
    BY <2>2, <2>5, <2>6 DEF UpToDate
<1>5. StackInv
  <2> SUFFICES ASSUME NEW c \in Cpus
               PROVE  StackGood(StackOf(c), seen[c], Orderly(c))
    BY DEF StackInv
  <2>1. seen[c].scope = << >> /\ seen[c].lost = 0
    BY DEF NothingSeen
  <2>2. Among(<< >>, << >>)
    BY ONLY <1>0, AmongEmpty
  <2> QED
    BY <1>2, <1>3, <2>1, <2>2 DEF StackGood
<1> QED
  BY <1>1, <1>4, <1>5 DEF Inv

-----------------------------------------------------------------------------
(***************************************************************************)
(* Steps of the eBPF programs.                                             *)
(***************************************************************************)

\* Only CPU c takes a step, and if it is orderly after it, it was before.
StepOf(c) ==
    /\ \A d \in Cpus : d # c =>
           scope'[d] = scope[d] /\ lostEnds'[d] = lostEnds[d] /\ crossed'[d] = crossed[d]
    /\ Orderly(c)' => Orderly(c)
    /\ UNCHANGED tracingVars

LEMMA StepKeepsStack ==
    ASSUME TypeInv, StackInv, NEW c \in Cpus, StepOf(c)
    PROVE  StackInv'
<1> SUFFICES ASSUME NEW d \in Cpus
             PROVE  StackGood(StackOf(d), seen[d], Orderly(d))'
  BY DEF StackInv
<1>1. StackOf(d)' = StackOf(d) /\ seen'[d] = seen[d]
  BY DEF StepOf, tracingVars, StackOf
<1>2. Orderly(d)' => Orderly(d)
  BY DEF StepOf, Orderly
<1>3. StackGood(StackOf(d), seen[d], Orderly(d))
  BY DEF StackInv
<1>4. StackGood(StackOf(d), seen[d], Orderly(d)')
  BY <1>2, <1>3 DEF StackGood
<1> QED
  BY <1>1, <1>4

LEMMA EmittingKeepsChain ==
    ASSUME TypeInv, ChainInv, BpfLevel # 0, NEW c \in Cpus, StepOf(c),
           NEW e \in Event, queue' = Append(queue, e), e.cpu = c,
           scope'[c] = e.scope, lostEnds'[c] = e.lost, lostEnds[c] = e.lost,
           Shown(e.scope) >= Shown(scope[c]) + Delta(e), Orderly(c)' => Via(scope[c], e)
    PROVE  ChainInv'
<1> SUFFICES ASSUME NEW d \in Cpus
             PROVE  /\ Linked(queue', seen'[d], d, Orderly(d)')
                    /\ UpToDate(queue', seen'[d], d, scope'[d], lostEnds'[d], Orderly(d)')
  BY DEF ChainInv
<1>1. seen'[d] = seen[d]
  BY DEF StepOf, tracingVars
<1>2. /\ Linked(queue, seen[d], d, Orderly(d))
      /\ UpToDate(queue, seen[d], d, scope[d], lostEnds[d], Orderly(d))
  BY DEF ChainInv
<1>3. /\ scope[d] \in Seq(Span) /\ seen[d] \in View /\ queue \in Seq(Event)
      /\ Orderly(d) \in BOOLEAN /\ Orderly(d)' \in BOOLEAN
  BY CpuFacts DEF TypeInv, QueueTyped
<1>4. CASE d = c
  <2>1. Orderly(d)' => Orderly(d)
    BY <1>4 DEF StepOf
  <2>2. Orderly(d)' => Via(scope[d], e)
    BY <1>4
  <2> DEFINE before == Orderly(d)
             after == Orderly(d)'
  <2>3. /\ Linked(queue, seen[d], d, before)
        /\ UpToDate(queue, seen[d], d, scope[d], e.lost, before)
        /\ before \in BOOLEAN /\ after \in BOOLEAN
        /\ after => before /\ Via(scope[d], e)
        /\ e.cpu = d /\ Shown(e.scope) >= Shown(scope[d]) + Delta(e)
    BY <1>2, <1>3, <1>4, <2>1, <2>2
  <2>4. /\ Linked(Append(queue, e), seen[d], d, after)
        /\ UpToDate(Append(queue, e), seen[d], d, e.scope, e.lost, after)
    <3> HIDE DEF before, after
    <3> QED
      BY ONLY <1>3, <2>3, d \in Cpus, e \in Event, PutLinked
  <2> QED
    BY <1>1, <1>4, <2>4
<1>5. CASE d # c
  <2>1. scope'[d] = scope[d] /\ lostEnds'[d] = lostEnds[d] /\ Orderly(d)' = Orderly(d)
    BY <1>5 DEF StepOf, Orderly
  <2>2. /\ Linked(Append(queue, e), seen[d], d, Orderly(d))
        /\ UpToDate(Append(queue, e), seen[d], d, scope[d], lostEnds[d], Orderly(d))
    BY <1>2, <1>3, <1>5, PutElsewhere
  <2> QED
    BY <1>1, <2>1, <2>2
<1> QED
  BY <1>4, <1>5

LEMMA QuietKeepsChain ==
    ASSUME TypeInv, ChainInv, NEW c \in Cpus, StepOf(c), UNCHANGED queue,
           scope'[c] \in Seq(Span), lostEnds'[c] \in Nat,
           BpfLevel # 0 => /\ Shown(scope'[c]) + lostEnds'[c] >= Shown(scope[c]) + lostEnds[c]
                           /\ Orderly(c)' => Extends(scope[c], scope'[c])
    PROVE  ChainInv'
<1> SUFFICES ASSUME BpfLevel # 0, NEW d \in Cpus
             PROVE  /\ Linked(queue', seen'[d], d, Orderly(d)')
                    /\ UpToDate(queue', seen'[d], d, scope'[d], lostEnds'[d], Orderly(d)')
  BY DEF ChainInv
<1>1. seen'[d] = seen[d] /\ queue' = queue
  BY DEF StepOf, tracingVars
<1>2. /\ Linked(queue, seen[d], d, Orderly(d))
      /\ UpToDate(queue, seen[d], d, scope[d], lostEnds[d], Orderly(d))
  BY DEF ChainInv
<1>3. /\ scope[d] \in Seq(Span) /\ seen[d] \in View /\ queue \in Seq(Event)
      /\ lostEnds[d] \in Nat
      /\ Orderly(d) \in BOOLEAN /\ Orderly(d)' \in BOOLEAN
  BY CpuFacts DEF TypeInv, QueueTyped
<1>4. CASE d = c
  <2> DEFINE before == Orderly(d)
             after == Orderly(d)'
             open == scope'[d]
             missed == lostEnds'[d]
  <2>1. /\ Linked(queue, seen[d], d, before)
        /\ UpToDate(queue, seen[d], d, scope[d], lostEnds[d], before)
        /\ before \in BOOLEAN /\ after \in BOOLEAN
        /\ after => before
        /\ open \in Seq(Span) /\ missed \in Nat
        /\ Shown(open) + missed >= Shown(scope[d]) + lostEnds[d]
        /\ after => Extends(scope[d], open)
    BY <1>2, <1>3, <1>4 DEF StepOf
  <2>2. /\ Linked(queue, seen[d], d, after)
        /\ UpToDate(queue, seen[d], d, open, missed, after)
    <3> HIDE DEF before, after, open, missed
    <3> QED
      BY ONLY <1>3, <2>1, d \in Cpus, QuietLinked
  <2> QED
    BY <1>1, <2>2
<1>5. CASE d # c
  <2>1. scope'[d] = scope[d] /\ lostEnds'[d] = lostEnds[d] /\ Orderly(d)' = Orderly(d)
    BY <1>5 DEF StepOf, Orderly
  <2> QED
    BY <1>1, <1>2, <2>1
<1> QED
  BY <1>4, <1>5

LEMMA SubmitProperties ==
    ASSUME TypeInv, NEW c \in Cpus, NEW kind \in Kinds, NEW level \in 0 .. MaxLevel,
           NEW name \in Names, NEW open \in Seq(Span), NEW inOrder \in BOOLEAN,
           kind = "span_start" => Last(open) \in Span /\ Last(open).name = name,
           Submit(c, kind, level, name, open, inOrder)
    PROVE  /\ QueueTyped'
           /\ lostEnds' = lostEnds
           /\ \E e \in Event :
                  /\ queue' = Append(queue, e)
                  /\ e.cpu = c /\ e.kind = kind /\ e.name = name
                  /\ e.scope = open /\ e.lost = lostEnds[c]
<1> DEFINE e == [cpu |-> c, kind |-> kind, level |-> level, name |-> name,
                 scope |-> open, lost |-> lostEnds[c], gap |-> missing[c] \/ ~ inOrder]
<1>1. e \in Event
  <2>1. lostEnds[c] \in Nat
    BY CpuFacts
  <2>2. (missing[c] \/ ~ inOrder) \in BOOLEAN
    OBVIOUS
  <2> QED
    BY <2>1, <2>2 DEF Event
<1>2. /\ e.cpu = c /\ e.kind = kind /\ e.name = name
      /\ e.scope = open /\ e.lost = lostEnds[c]
  OBVIOUS
<1>3. /\ queue' = Append(queue, e) /\ Len(queue) < Capacity
      /\ missing' = [missing EXCEPT ![c] = FALSE]
      /\ losses' = losses /\ lostEnds' = lostEnds
  BY DEF Submit, Put
<1> HIDE DEF e
<1>4. StartsItsSpan(e)
  BY <1>2 DEF StartsItsSpan
<1>5. /\ queue' \in Seq(Event) /\ Len(queue') = Len(queue) + 1 /\ Len(queue) \in Nat
      /\ \A i \in 1 .. Len(queue) : queue'[i] = queue[i]
      /\ queue'[Len(queue) + 1] = e
  BY <1>1, <1>3, PutProperties DEF TypeInv, QueueTyped
<1>6. \A i \in 1 .. Len(queue') : StartsItsSpan(queue'[i])
  <2> SUFFICES ASSUME NEW i \in 1 .. Len(queue')
               PROVE  StartsItsSpan(queue'[i])
    OBVIOUS
  <2>1. CASE i = Len(queue) + 1
    BY <1>4, <1>5, <2>1
  <2>2. CASE i # Len(queue) + 1
    <3>1. i \in 1 .. Len(queue)
      BY <1>5, <2>2
    <3> QED
      BY <1>5, <3>1 DEF TypeInv, QueueTyped
  <2> QED
    BY <2>1, <2>2
<1>7. Len(queue') <= Capacity
  BY <1>3, <1>5, BoundsAssumption
<1>8. QueueTyped'
  BY <1>3, <1>5, <1>6, <1>7 DEF TypeInv, QueueTyped
<1> QED
  BY <1>1, <1>2, <1>3, <1>8

LEMMA LoseRecordProperties ==
    ASSUME TypeInv, NEW c \in Cpus, NEW kind, LoseRecord(c, kind)
    PROVE  /\ QueueTyped'
           /\ UNCHANGED queue
           /\ lostEnds'[c] \in Nat
           /\ lostEnds'[c] = lostEnds[c] + IF kind = "span_end" THEN 1 ELSE 0
           /\ \A d \in Cpus : d # c => lostEnds'[d] = lostEnds[d]
<1>1. /\ lostEnds \in [Cpus -> 0 .. MaxLost] /\ losses \in 0 .. MaxLost
      /\ missing \in [Cpus -> BOOLEAN]
      /\ \A d \in Cpus : lostEnds[d] <= losses
  BY DEF TypeInv, QueueTyped
<1>2. /\ losses < MaxLost /\ losses' = losses + 1 /\ queue' = queue
      /\ missing' = [missing EXCEPT ![c] = TRUE]
      /\ lostEnds' = [lostEnds EXCEPT ![c] = @ + IF kind = "span_end" THEN 1 ELSE 0]
  BY DEF LoseRecord
<1>3. /\ lostEnds'[c] = lostEnds[c] + IF kind = "span_end" THEN 1 ELSE 0
      /\ \A d \in Cpus : d # c => lostEnds'[d] = lostEnds[d]
  BY <1>1, <1>2
<1>4. losses' \in 0 .. MaxLost /\ missing' \in [Cpus -> BOOLEAN]
  BY <1>1, <1>2, BoundsAssumption
<1>5. \A d \in Cpus : lostEnds'[d] \in 0 .. MaxLost /\ lostEnds'[d] <= losses'
  BY <1>1, <1>2, <1>3, BoundsAssumption
<1>6. lostEnds' \in [Cpus -> 0 .. MaxLost]
  BY <1>1, <1>2, <1>5
<1>7. QueueTyped'
  BY <1>2, <1>4, <1>5, <1>6 DEF TypeInv, QueueTyped
<1> QED
  BY <1>2, <1>3, <1>5, <1>7

\* What every step of a program keeps.
LEMMA MessageInv ==
    ASSUME Inv, UNCHANGED tracingVars, NEW c \in Cpus, NEW level \in Levels,
           NEW name \in Names, Message(c, level, name)
    PROVE  Inv'
<1>1. /\ TypeInv /\ ChainInv /\ StackInv /\ scope[c] \in Seq(Span) /\ lostEnds[c] \in Nat
      /\ scope' = scope /\ crossed' = crossed /\ level <= BpfLevel
      /\ EmitEvent(c, "msg", level, name, scope[c], TRUE)
  BY CpuFacts DEF Inv, Message
<1>2. BpfLevel # 0 /\ level \in 0 .. MaxLevel
  BY <1>1, LevelAssumption DEF Levels
<1>3. /\ \A e \in Event : e.kind = "msg" => Delta(e) = 0
      /\ Shown(scope[c]) \in Nat /\ Extends(scope[c], scope[c])
  BY <1>1, DeltaIs, ShownIsCount, ExtendsItself
<1>4. ThreadTyped'
  BY <1>1 DEF TypeInv, ThreadTyped, tracingVars
<1>5. CASE Submit(c, "msg", level, name, scope[c], TRUE)
  <2>1. /\ QueueTyped' /\ lostEnds' = lostEnds
        /\ \E e \in Event : /\ queue' = Append(queue, e)
                            /\ e.cpu = c /\ e.kind = "msg" /\ e.name = name
                            /\ e.scope = scope[c] /\ e.lost = lostEnds[c]
    <3> DEFINE kind == "msg"
               open == scope[c]
               inOrder == TRUE
    <3>1. /\ kind \in Kinds /\ open \in Seq(Span) /\ inOrder \in BOOLEAN
          /\ kind = "span_start" => Last(open) \in Span /\ Last(open).name = name
          /\ Submit(c, kind, level, name, open, inOrder)
      BY <1>1, <1>5 DEF Kinds
    <3> HIDE DEF kind, open, inOrder
    <3>2. /\ QueueTyped' /\ lostEnds' = lostEnds
          /\ \E e \in Event : /\ queue' = Append(queue, e)
                              /\ e.cpu = c /\ e.kind = kind /\ e.name = name
                              /\ e.scope = open /\ e.lost = lostEnds[c]
      BY ONLY <1>1, <1>2, <3>1, c \in Cpus, name \in Names, SubmitProperties
    <3> QED
      BY <3>2 DEF kind, open
  <2>2. StepOf(c)
    BY <1>1, <2>1 DEF StepOf, Orderly
  <2>3. ChainInv'
    BY <1>1, <1>2, <1>3, <2>1, <2>2, EmittingKeepsChain DEF Via
  <2>4. StackInv'
    BY <1>1, <2>2, StepKeepsStack
  <2> QED
    BY <1>1, <1>4, <2>1, <2>3, <2>4 DEF Inv, TypeInv
<1>6. CASE LoseRecord(c, "msg")
  <2>1. /\ QueueTyped' /\ UNCHANGED queue
        /\ lostEnds'[c] = lostEnds[c]
        /\ \A d \in Cpus : d # c => lostEnds'[d] = lostEnds[d]
    BY <1>1, <1>6, LoseRecordProperties
  <2>2. StepOf(c)
    BY <1>1, <2>1 DEF StepOf, Orderly
  <2>3. ChainInv'
    BY <1>1, <1>3, <2>1, <2>2, QuietKeepsChain
  <2>4. StackInv'
    BY <1>1, <2>2, StepKeepsStack
  <2> QED
    BY <1>1, <1>4, <2>1, <2>3, <2>4 DEF Inv, TypeInv
<1> QED
  BY <1>1, <1>5, <1>6 DEF EmitEvent

LEMMA StartSpanInv ==
    ASSUME Inv, UNCHANGED tracingVars, NEW c \in Cpus, NEW level \in Levels,
           NEW span \in Span, StartSpan(c, level, span)
    PROVE  Inv'
<1> DEFINE open == Append(scope[c], span)
           name == span.name
           inOrder == TRUE
           kind == "span_start"
<1>1. /\ TypeInv /\ ChainInv /\ StackInv /\ scope[c] \in Seq(Span) /\ lostEnds[c] \in Nat
      /\ scope' = [scope EXCEPT ![c] = open] /\ crossed' = crossed
      /\ \/ level <= BpfLevel /\ EmitEvent(c, kind, level, name, open, inOrder)
         \/ ~ (level <= BpfLevel) /\ UNCHANGED <<queue, losses, lostEnds>>
            /\ missing' = [missing EXCEPT ![c] = TRUE]
  BY CpuFacts DEF Inv, StartSpan
<1>2. /\ open \in Seq(Span) /\ Last(open) = span /\ Extends(scope[c], open)
      /\ Shown(open) = Shown(scope[c]) + IF name \in Undecodable THEN 0 ELSE 1
      /\ Shown(scope[c]) \in Nat
  BY <1>1, AppendIsAt, ShownAppended, ShownIsCount
<1>3. /\ name \in Names /\ kind \in Kinds /\ inOrder \in BOOLEAN
      /\ kind = "span_start" => Last(open) \in Span /\ Last(open).name = name
      /\ level \in 0 .. MaxLevel
  BY <1>2, LevelAssumption DEF Span, Kinds, Levels
<1>4. /\ scope' \in [Cpus -> Seq(Span)] /\ crossed' \in [Cpus -> BOOLEAN] /\ ThreadTyped'
      /\ scope'[c] = open /\ \A d \in Cpus : d # c => scope'[d] = scope[d]
  BY <1>1, <1>2 DEF TypeInv, ThreadTyped, tracingVars
<1>5. open = Append(scope[c], span) /\ span \in Span /\ name = span.name /\ kind = "span_start"
  OBVIOUS
<1> HIDE DEF open, name, inOrder, kind
<1>6. CASE level <= BpfLevel /\ Submit(c, kind, level, name, open, inOrder)
  <2>1. /\ QueueTyped' /\ lostEnds' = lostEnds
        /\ \E e \in Event : /\ queue' = Append(queue, e)
                            /\ e.cpu = c /\ e.kind = kind /\ e.name = name
                            /\ e.scope = open /\ e.lost = lostEnds[c]
    BY ONLY <1>1, <1>2, <1>3, <1>6, c \in Cpus, SubmitProperties
  <2>2. PICK e \in Event : /\ queue' = Append(queue, e)
                           /\ e.cpu = c /\ e.kind = kind /\ e.name = name
                           /\ e.scope = open /\ e.lost = lostEnds[c]
    BY <2>1
  <2>3. StepOf(c)
    BY <1>1, <1>4, <2>1 DEF StepOf, Orderly
  <2>4. Via(scope[c], e)
    BY <1>5, <2>2 DEF Via
  <2>5. Delta(e) = IF name \in Undecodable THEN 0 ELSE 1
    BY <1>5, <2>2, DeltaIs
  <2>6. Shown(e.scope) >= Shown(scope[c]) + Delta(e)
    BY <1>2, <2>2, <2>5
  <2>7. BpfLevel # 0
    BY <1>6, LevelAssumption DEF Levels
  <2>8. ChainInv'
    BY <1>1, <1>4, <2>1, <2>2, <2>3, <2>4, <2>6, <2>7, EmittingKeepsChain
  <2>9. StackInv'
    BY <1>1, <2>3, StepKeepsStack
  <2> QED
    BY <1>4, <2>1, <2>8, <2>9 DEF Inv, TypeInv
<1>7. CASE level <= BpfLevel /\ LoseRecord(c, kind)
  <2>1. /\ QueueTyped' /\ UNCHANGED queue
        /\ lostEnds'[c] = lostEnds[c]
        /\ \A d \in Cpus : d # c => lostEnds'[d] = lostEnds[d]
    BY <1>1, <1>5, <1>7, LoseRecordProperties
  <2>2. StepOf(c)
    BY <1>1, <1>4, <2>1 DEF StepOf, Orderly
  <2>3. ChainInv'
    BY <1>1, <1>2, <1>4, <2>1, <2>2, QuietKeepsChain
  <2>4. StackInv'
    BY <1>1, <2>2, StepKeepsStack
  <2> QED
    BY <1>4, <2>1, <2>3, <2>4 DEF Inv, TypeInv
<1>8. CASE ~ (level <= BpfLevel)
  <2>1. /\ UNCHANGED <<queue, losses, lostEnds>>
        /\ missing' = [missing EXCEPT ![c] = TRUE]
    BY <1>1, <1>8
  <2>2. QueueTyped'
    BY <1>1, <2>1 DEF TypeInv, QueueTyped, StartsItsSpan
  <2>3. StepOf(c)
    BY <1>1, <1>4, <2>1 DEF StepOf, Orderly
  <2>4. ChainInv'
    BY <1>1, <1>2, <1>4, <2>1, <2>3, QuietKeepsChain
  <2>5. StackInv'
    BY <1>1, <2>3, StepKeepsStack
  <2> QED
    BY <1>4, <2>2, <2>4, <2>5 DEF Inv, TypeInv
<1> QED
  BY <1>1, <1>6, <1>7, <1>8 DEF EmitEvent

LEMMA EndSpanInv ==
    ASSUME Inv, UNCHANGED tracingVars, NEW c \in Cpus, NEW k \in 1 .. Len(scope[c]),
           EndSpan(c, k)
    PROVE  Inv'
<1> DEFINE open == RemoveAt(scope[c], k)
           name == scope[c][k].name
           inOrder == k = Len(scope[c])
           kind == "span_end"
           level == 0
           hidden == \E j \in k + 1 .. Len(scope[c]) : scope[c][j].name = name
<1>1. /\ TypeInv /\ ChainInv /\ StackInv /\ scope[c] \in Seq(Span) /\ lostEnds[c] \in Nat
      /\ scope' = [scope EXCEPT ![c] = open]
      /\ crossed' = [crossed EXCEPT ![c] = @ \/ hidden]
      /\ \/ BpfLevel # 0 /\ EmitEvent(c, kind, level, name, open, inOrder)
         \/ BpfLevel = 0 /\ UNCHANGED <<queue, missing, losses, lostEnds>>
  BY CpuFacts DEF Inv, EndSpan
<1>2. /\ open \in Seq(Span)
      /\ Shown(open) >= Shown(scope[c]) - IF name \in Undecodable THEN 0 ELSE 1
      /\ Shown(scope[c]) \in Nat /\ Shown(open) \in Nat
  BY <1>1, RemoveAtProperties, ShownRemoved, ShownIsCount
<1>3. /\ name \in Names /\ kind \in Kinds /\ inOrder \in BOOLEAN
      /\ kind = "span_start" => Last(open) \in Span /\ Last(open).name = name
      /\ level \in 0 .. MaxLevel
  <2>1. scope[c][k] \in Span
    BY <1>1
  <2> QED
    BY <2>1, LevelAssumption DEF Span, Kinds
<1>4. /\ scope' \in [Cpus -> Seq(Span)] /\ crossed' \in [Cpus -> BOOLEAN] /\ ThreadTyped'
      /\ scope'[c] = open /\ \A d \in Cpus : d # c => scope'[d] = scope[d]
      /\ \A d \in Cpus : d # c => crossed'[d] = crossed[d]
      /\ crossed'[c] = (crossed[c] \/ hidden)
  BY <1>1, <1>2 DEF TypeInv, ThreadTyped, tracingVars
<1>5. /\ open = RemoveAt(scope[c], k) /\ name = scope[c][k].name /\ kind = "span_end"
      /\ ~ hidden => \A j \in k + 1 .. Len(scope[c]) : scope[c][j].name # name
  OBVIOUS
<1> HIDE DEF open, name, inOrder, kind, level, hidden
<1>6. CASE BpfLevel # 0 /\ Submit(c, kind, level, name, open, inOrder)
  <2>1. /\ QueueTyped' /\ lostEnds' = lostEnds
        /\ \E e \in Event : /\ queue' = Append(queue, e)
                            /\ e.cpu = c /\ e.kind = kind /\ e.name = name
                            /\ e.scope = open /\ e.lost = lostEnds[c]
    BY ONLY <1>1, <1>2, <1>3, <1>6, c \in Cpus, SubmitProperties
  <2>2. PICK e \in Event : /\ queue' = Append(queue, e)
                           /\ e.cpu = c /\ e.kind = kind /\ e.name = name
                           /\ e.scope = open /\ e.lost = lostEnds[c]
    BY <2>1
  <2>3. StepOf(c)
    BY <1>1, <1>4, <2>1 DEF StepOf, Orderly
  <2>4. Orderly(c)' => Via(scope[c], e)
    <3>1. Orderly(c)' => ~ hidden
      BY <1>4 DEF Orderly
    <3> QED
      BY <1>5, <2>2, <3>1 DEF Via
  <2>5. Delta(e) = IF name \in Undecodable THEN 0 ELSE -1
    BY <1>5, <2>2, DeltaIs
  <2>6. Shown(e.scope) >= Shown(scope[c]) + Delta(e)
    BY <1>2, <2>2, <2>5
  <2>8. ChainInv'
    BY <1>1, <1>4, <1>6, <2>1, <2>2, <2>3, <2>4, <2>6, EmittingKeepsChain
  <2>9. StackInv'
    BY <1>1, <2>3, StepKeepsStack
  <2> QED
    BY <1>4, <2>1, <2>8, <2>9 DEF Inv, TypeInv
<1>7. CASE BpfLevel # 0 /\ LoseRecord(c, kind)
  <2>1. /\ QueueTyped' /\ UNCHANGED queue
        /\ lostEnds'[c] = lostEnds[c] + 1
        /\ \A d \in Cpus : d # c => lostEnds'[d] = lostEnds[d]
    BY <1>1, <1>5, <1>7, LoseRecordProperties
  <2>2. StepOf(c) /\ ~ Orderly(c)'
    BY <1>1, <1>4, <2>1 DEF StepOf, Orderly
  <2>3. Shown(scope'[c]) + lostEnds'[c] >= Shown(scope[c]) + lostEnds[c]
    BY <1>1, <1>2, <1>4, <2>1
  <2>4. ChainInv'
    BY <1>1, <1>2, <1>4, <2>1, <2>2, <2>3, QuietKeepsChain
  <2>5. StackInv'
    BY <1>1, <2>2, StepKeepsStack
  <2> QED
    BY <1>4, <2>1, <2>4, <2>5 DEF Inv, TypeInv
<1>8. CASE BpfLevel = 0
  <2>1. UNCHANGED <<queue, missing, losses, lostEnds>>
    BY <1>1, <1>8
  <2>2. QueueTyped'
    BY <1>1, <2>1 DEF TypeInv, QueueTyped, StartsItsSpan
  <2>3. StepOf(c)
    BY <1>1, <1>4, <2>1 DEF StepOf, Orderly
  <2>4. ChainInv'
    BY <1>1, <1>2, <1>4, <1>8, <2>1, <2>3, QuietKeepsChain
  <2>5. StackInv'
    BY <1>1, <2>3, StepKeepsStack
  <2> QED
    BY <1>4, <2>2, <2>4, <2>5 DEF Inv, TypeInv
<1> QED
  BY <1>1, <1>6, <1>7, <1>8 DEF EmitEvent

-----------------------------------------------------------------------------
(***************************************************************************)
(* The step of the tracing thread.                                         *)
(***************************************************************************)

LEMMA GrownProperties ==
    ASSUME TypeInv, NEW c \in Cpus
    PROVE  /\ Grown(c) \in Seq(Seq(Span))
           /\ Len(Grown(c)) \in Nat /\ c < Len(Grown(c))
           /\ \A d \in Cpus : IF d < Len(Grown(c)) THEN Grown(c)[d + 1] = StackOf(d)
                                                   ELSE StackOf(d) = << >>
<1> DEFINE n == IF c < Len(stacks) THEN Len(stacks) ELSE c + 1
           f == [i \in 1 .. n |-> StackOf(i - 1)]
<1>1. stacks \in Seq(Seq(Span)) /\ Len(stacks) \in Nat /\ c \in Nat
  BY CpusAssumption DEF TypeInv, ThreadTyped
<1>2. n \in Nat /\ c < n /\ Len(stacks) <= n
  BY <1>1
<1>3. Grown(c) = f
  BY DEF Grown
<1> HIDE DEF n
<1>4. \A i \in 1 .. n : StackOf(i - 1) \in Seq(Span)
  <2> SUFFICES ASSUME NEW i \in 1 .. n
               PROVE  StackOf(i - 1) \in Seq(Span)
    OBVIOUS
  <2>1. CASE i - 1 < Len(stacks)
    <3>1. i \in 1 .. Len(stacks) /\ i - 1 + 1 = i
      BY <1>1, <1>2, <2>1
    <3>2. stacks[i - 1 + 1] \in Seq(Span)
      BY <1>1, <3>1
    <3> QED
      BY <2>1, <3>2 DEF StackOf
  <2>2. CASE ~ (i - 1 < Len(stacks))
    BY <2>2 DEF StackOf
  <2> QED
    BY <2>1, <2>2
<1>5. f \in Seq(Seq(Span)) /\ Len(f) = n
  <2>1. f \in [1 .. n -> Seq(Span)]
    BY <1>4
  <2>2. DOMAIN f = 1 .. n
    OBVIOUS
  <2> HIDE DEF f
  <2> QED
    BY <1>2, <2>1, <2>2
<1>f. \A i \in 1 .. n : f[i] = StackOf(i - 1)
  OBVIOUS
<1> HIDE DEF f
<1>6. ASSUME NEW d \in Cpus
      PROVE  IF d < n THEN f[d + 1] = StackOf(d) ELSE StackOf(d) = << >>
  <2>1. d \in Nat
    BY CpusAssumption
  <2>2. CASE d < n
    <3>1. d + 1 \in 1 .. n /\ (d + 1) - 1 = d
      BY <1>2, <2>1, <2>2
    <3>2. f[d + 1] = StackOf((d + 1) - 1)
      BY ONLY <1>f, <3>1, Zenon
    <3> QED
      BY <2>2, <3>1, <3>2, Zenon
  <2>3. CASE ~ (d < n)
    <3>1. ~ (d < Len(stacks))
      BY <1>1, <1>2, <2>1, <2>3
    <3> QED
      BY <2>3, <3>1 DEF StackOf
  <2> QED
    BY <2>2, <2>3
<1> QED
  BY <1>2, <1>3, <1>5, <1>6

\* Making room for a CPU changes no stack.
LEMMA StacksGrown ==
    ASSUME TypeInv, NEW c \in Cpus, stacks' = Grown(c)
    PROVE  /\ stacks' \in Seq(Seq(Span))
           /\ \A d \in Cpus : StackOf(d)' = StackOf(d)
BY GrownProperties, Zenon DEF StackOf

LEMMA StacksReplaced ==
    ASSUME TypeInv, NEW c \in Cpus, NEW stack \in Seq(Span),
           stacks' = [Grown(c) EXCEPT ![c + 1] = stack]
    PROVE  /\ stacks' \in Seq(Seq(Span))
           /\ StackOf(c)' = stack
           /\ \A d \in Cpus : d # c => StackOf(d)' = StackOf(d)
<1> DEFINE g == Grown(c)
<1>1. /\ g \in Seq(Seq(Span)) /\ Len(g) \in Nat /\ c < Len(g)
      /\ \A d \in Cpus : IF d < Len(g) THEN g[d + 1] = StackOf(d) ELSE StackOf(d) = << >>
  BY GrownProperties
<1>2. \A d \in Cpus : d \in Nat
  BY CpusAssumption
<1>3. stacks' = [g EXCEPT ![c + 1] = stack]
  OBVIOUS
<1> HIDE DEF g
<1>4. c + 1 \in 1 .. Len(g)
  BY <1>1, <1>2
<1>5. stacks' \in Seq(Seq(Span)) /\ Len(stacks') = Len(g)
  <2>1. g \in [1 .. Len(g) -> Seq(Span)]
    BY <1>1
  <2>2. stacks' \in [1 .. Len(g) -> Seq(Span)]
    BY <1>3, <2>1
  <2> DEFINE h == stacks'
             n == Len(g)
  <2>3. h \in [1 .. n -> Seq(Span)] /\ DOMAIN h = 1 .. n /\ n \in Nat
    BY <1>1, <2>2
  <2> HIDE DEF h, n
  <2>4. h \in Seq(Seq(Span)) /\ Len(h) = n
    BY ONLY <2>3
  <2> QED
    BY <2>4 DEF h, n
<1>6. stacks'[c + 1] = stack /\ \A i \in 1 .. Len(g) : i # c + 1 => stacks'[i] = g[i]
  BY <1>1, <1>3, <1>4
<1>7. StackOf(c)' = stack
  BY <1>1, <1>5, <1>6 DEF StackOf
<1>8. ASSUME NEW d \in Cpus, d # c
      PROVE  StackOf(d)' = StackOf(d)
  <2>1. CASE d < Len(g)
    <3>1. d + 1 \in 1 .. Len(g) /\ d + 1 # c + 1
      BY <1>1, <1>2, <1>8, <2>1
    <3> QED
      BY <1>1, <1>5, <1>6, <2>1, <3>1 DEF StackOf
  <2>2. CASE ~ (d < Len(g))
    BY <1>1, <1>5, <2>2 DEF StackOf
  <2> QED
    BY <2>1, <2>2
<1> QED
  BY <1>5, <1>7, <1>8

\* The types of the bookkeeping.
LEMMA ObserveProperties ==
    ASSUME TypeInv, NEW e \in Event, NEW stack, NEW skipped, Observe(e, stack, skipped)
    PROVE  /\ seen' \in [Cpus -> View] /\ inSync' \in [Cpus -> BOOLEAN]
           /\ seen'[e.cpu].scope = e.scope /\ seen'[e.cpu].lost = e.lost
           /\ \A d \in Cpus : d # e.cpu => seen'[d] = seen[d]
<1>1. e.scope \in Seq(Span) /\ e.lost \in Nat /\ e.cpu \in Cpus
  BY EventIsView
<1>2. [scope |-> e.scope, lost |-> e.lost] \in View
  BY <1>1 DEF View
<1>3. seen \in [Cpus -> View] /\ inSync \in [Cpus -> BOOLEAN]
  BY DEF TypeInv, ThreadTyped
<1>4. seen' = [seen EXCEPT ![e.cpu] = [scope |-> e.scope, lost |-> e.lost]]
  BY DEF Observe
<1>5. inSync' \in [Cpus -> BOOLEAN]
  BY <1>3 DEF Observe
<1> QED
  BY <1>1, <1>2, <1>3, <1>4, <1>5

\* What the thread does with record e, by cases.
Handles(e) ==
    \/ DecodeFails(e)
    \/ \E filter \in Filters :
           Filtered(e, filter) \/ EmitMessage(e, filter) \/ EmitStart(e, filter)
    \/ EmitEnd(e)

\* Only the stack of the CPU of the record can change, and it is good afterwards.
LEMMA HandledProperties ==
    ASSUME TypeInv, StackInv, NEW e \in Event, StartsItsSpan(e),
           Link(seen[e.cpu], e, Orderly(e.cpu)), Handles(e)
    PROVE  /\ ThreadTyped'
           /\ seen'[e.cpu].scope = e.scope /\ seen'[e.cpu].lost = e.lost
           /\ \A d \in Cpus : d # e.cpu => seen'[d] = seen[d] /\ StackOf(d)' = StackOf(d)
           /\ StackGood(StackOf(e.cpu)', e, Orderly(e.cpu))
<1> DEFINE c == e.cpu
           old == StackOf(c)
           v == seen[c]
           orderly == Orderly(c)
           Outcome(stack, skipped) ==
               /\ Observe(e, stack, skipped)
               /\ stacks' \in Seq(Seq(Span))
               /\ \A d \in Cpus : d # c => StackOf(d)' = StackOf(d)
               /\ StackGood(StackOf(c)', e, orderly)
<1>1. /\ c \in Cpus /\ old \in Seq(Span) /\ v \in View /\ orderly \in BOOLEAN
      /\ StackGood(old, v, orderly) /\ Link(v, e, orderly)
      /\ stacks \in Seq(Seq(Span))
  BY EventIsView, CpuFacts DEF StackInv, TypeInv, ThreadTyped
<1>2. ASSUME NEW stack, NEW skipped, Outcome(stack, skipped)
      PROVE  /\ ThreadTyped'
             /\ seen'[c].scope = e.scope /\ seen'[c].lost = e.lost
             /\ \A d \in Cpus : d # c => seen'[d] = seen[d] /\ StackOf(d)' = StackOf(d)
             /\ StackGood(StackOf(c)', e, orderly)
  BY <1>2, ObserveProperties DEF ThreadTyped
<1> SUFFICES \E stack, skipped : Outcome(stack, skipped)
  BY <1>2
<1>3. ASSUME e.name \in Undecodable \/ e.kind # "span_end",
             stacks' \in Seq(Seq(Span)), \A d \in Cpus : StackOf(d)' = StackOf(d)
      PROVE  StackGood(StackOf(c)', e, orderly)
  <2>1. StackOf(c)' = old
    BY <1>1, <1>3
  <2> HIDE DEF old, v, orderly, c
  <2>2. StackGood(old, e, orderly)
    BY ONLY <1>1, <1>3, e \in Event, StackKept
  <2> QED
    BY <2>1, <2>2
<1>4. CASE DecodeFails(e)
  <2>1. /\ e.name \in Undecodable /\ Observe(e, old, FALSE) /\ stacks' = stacks
    BY <1>4 DEF DecodeFails
  <2>2. stacks' \in Seq(Seq(Span)) /\ \A d \in Cpus : StackOf(d)' = StackOf(d)
    BY <1>1, <2>1 DEF StackOf
  <2>3. StackGood(StackOf(c)', e, orderly)
    BY <1>3, <2>1, <2>2
  <2>4. Outcome(old, FALSE)
    BY <2>1, <2>2, <2>3
  <2> QED
    BY <2>4
<1>5. CASE \E filter \in Filters : Filtered(e, filter) \/ EmitMessage(e, filter)
  <2>1. PICK skipped : e.kind # "span_end" /\ Observe(e, old, skipped) /\ stacks' = Grown(c)
    BY <1>5 DEF Filtered, EmitMessage
  <2>2. stacks' \in Seq(Seq(Span)) /\ \A d \in Cpus : StackOf(d)' = StackOf(d)
    BY <1>1, <2>1, StacksGrown
  <2>3. StackGood(StackOf(c)', e, orderly)
    BY <1>3, <2>1, <2>2
  <2>4. Outcome(old, skipped)
    BY <2>1, <2>2, <2>3
  <2> QED
    BY <2>4
<1>6. CASE \E filter \in Filters : EmitStart(e, filter)
  <2> DEFINE stack == Append(old, Last(e.scope))
  <2>1. /\ e.name \notin Undecodable /\ e.kind = "span_start" /\ Observe(e, stack, FALSE)
        /\ stacks' = [Grown(c) EXCEPT ![c + 1] = stack]
    BY <1>6 DEF EmitStart
  <2>2. Last(e.scope) \in Span /\ Last(e.scope).name = e.name
    BY <2>1 DEF StartsItsSpan
  <2>3. stack \in Seq(Span)
    BY <1>1, <2>2
  <2>4. StackGood(stack, e, orderly)
    <3> HIDE DEF old, v, orderly, c
    <3> QED
      BY ONLY <1>1, <2>1, <2>2, e \in Event, StackStarted
  <2>5. /\ stacks' \in Seq(Seq(Span)) /\ StackOf(c)' = stack
        /\ \A d \in Cpus : d # c => StackOf(d)' = StackOf(d)
    <3> HIDE DEF stack, c
    <3> QED
      BY <1>1, <2>1, <2>3, StacksReplaced
  <2>6. Outcome(stack, FALSE)
    BY <2>1, <2>4, <2>5
  <2> QED
    BY <2>6
<1>7. CASE EmitEnd(e)
  <2> DEFINE stack == PoppedThrough(old, e.name)
  <2>1. /\ e.name \notin Undecodable /\ e.kind = "span_end" /\ Observe(e, stack, FALSE)
        /\ stacks' = [Grown(c) EXCEPT ![c + 1] = stack]
    BY <1>7 DEF EmitEnd
  <2>2. stack \in Seq(Span) /\ StackGood(stack, e, orderly)
    <3> HIDE DEF old, v, orderly, c
    <3> QED
      BY ONLY <1>1, <2>1, e \in Event, StackEnded
  <2>3. /\ stacks' \in Seq(Seq(Span)) /\ StackOf(c)' = stack
        /\ \A d \in Cpus : d # c => StackOf(d)' = StackOf(d)
    <3> HIDE DEF stack, c
    <3> QED
      BY <1>1, <2>1, <2>2, StacksReplaced
  <2>4. Outcome(stack, FALSE)
    BY <2>1, <2>2, <2>3
  <2> QED
    BY <2>4
<1> QED
  BY <1>4, <1>5, <1>6, <1>7 DEF Handles

LEMMA ReceiveInv ==
    ASSUME Inv, Receive
    PROVE  Inv'
<1>0. Head(queue) \in Event
  BY TailAt DEF Inv, TypeInv, QueueTyped, Receive, Deliver
<1>e. PICK e \in Event : e = Head(queue)
  BY <1>0
<1> DEFINE c == e.cpu
<1>1. /\ TypeInv /\ ChainInv /\ StackInv /\ queue \in Seq(Event) /\ queue # << >>
      /\ queue' = Tail(queue)
      /\ UNCHANGED <<scope, missing, losses, lostEnds, crossed>>
      /\ Handles(e)
  BY <1>e, Zenon DEF Inv, TypeInv, QueueTyped, Receive, Deliver, Handles
<1>2. /\ e \in Event /\ c \in Cpus /\ StartsItsSpan(e)
  <2>1. e = queue[1] /\ 1 \in 1 .. Len(queue) /\ e \in Event
    BY <1>1, <1>e, TailAt
  <2> QED
    BY <1>1, <2>1, EventIsView DEF TypeInv, QueueTyped
<1>3. BpfLevel # 0
  BY <1>1 DEF ChainInv
<1>4. \A d \in Cpus :
          /\ Linked(queue, seen[d], d, Orderly(d))
          /\ UpToDate(queue, seen[d], d, scope[d], lostEnds[d], Orderly(d))
          /\ Orderly(d) \in BOOLEAN /\ seen[d] \in View
  BY <1>1, <1>3, CpuFacts DEF ChainInv
<1>5. \A d \in Cpus : Orderly(d)' = Orderly(d)
  BY <1>1 DEF Orderly
<1> HIDE DEF c
<1>6. Link(seen[c], e, Orderly(c))
  <2> DEFINE w == e
             v == seen[c]
             spans == scope[c]
             lost == lostEnds[c]
             orderly == Orderly(c)
  <2>1. /\ Linked(queue, v, c, orderly) /\ UpToDate(queue, v, c, spans, lost, orderly)
        /\ orderly \in BOOLEAN
        /\ Head(queue).cpu = c /\ w.scope = Head(queue).scope /\ w.lost = Head(queue).lost
    BY <1>2, <1>4, <1>e DEF c
  <2>2. Link(v, Head(queue), orderly)
    <3> HIDE DEF w, v, spans, lost, orderly
    <3> QED
      BY ONLY <1>1, <1>2, <2>1, TailLinked
  <2> QED
    BY <1>e, <2>2
<1>7. /\ ThreadTyped'
      /\ seen'[c].scope = e.scope /\ seen'[c].lost = e.lost
      /\ \A d \in Cpus : d # c => seen'[d] = seen[d] /\ StackOf(d)' = StackOf(d)
      /\ StackGood(StackOf(c)', e, Orderly(c))
  <2>1. Link(seen[e.cpu], e, Orderly(e.cpu))
    BY <1>6 DEF c
  <2>2. /\ ThreadTyped'
        /\ seen'[e.cpu].scope = e.scope /\ seen'[e.cpu].lost = e.lost
        /\ \A d \in Cpus : d # e.cpu => seen'[d] = seen[d] /\ StackOf(d)' = StackOf(d)
        /\ StackGood(StackOf(e.cpu)', e, Orderly(e.cpu))
    BY ONLY <1>1, <1>2, <2>1, HandledProperties
  <2> QED
    BY <2>2 DEF c
<1>8. QueueTyped'
  <2>1. /\ queue' \in Seq(Event) /\ Len(queue) \in Nat /\ Len(queue') = Len(queue) - 1
        /\ \A i \in 1 .. Len(queue) - 1 : queue'[i] = queue[i + 1]
    BY <1>1, TailAt
  <2>2. Len(queue') <= Capacity
    BY <1>1, <2>1, BoundsAssumption DEF TypeInv, QueueTyped
  <2>3. \A i \in 1 .. Len(queue') : StartsItsSpan(queue'[i])
    <3> SUFFICES ASSUME NEW i \in 1 .. Len(queue')
                 PROVE  StartsItsSpan(queue'[i])
      OBVIOUS
    <3>1. i + 1 \in 1 .. Len(queue) /\ queue'[i] = queue[i + 1]
      BY <2>1
    <3>2. StartsItsSpan(queue[i + 1])
      BY <1>1, <3>1 DEF TypeInv, QueueTyped
    <3> QED
      BY <3>1, <3>2, Zenon
  <2> QED
    BY <1>1, <2>1, <2>2, <2>3 DEF TypeInv, QueueTyped
<1>9. TypeInv'
  BY <1>1, <1>7, <1>8 DEF TypeInv
<1>10. ChainInv'
  <2> SUFFICES ASSUME NEW d \in Cpus
               PROVE  /\ Linked(queue', seen'[d], d, Orderly(d)')
                      /\ UpToDate(queue', seen'[d], d, scope'[d], lostEnds'[d], Orderly(d)')
    BY <1>3 DEF ChainInv
  <2> DEFINE w == seen'[d]
             v == seen[d]
             spans == scope[d]
             lost == lostEnds[d]
             orderly == Orderly(d)
  <2>1. /\ Linked(queue, v, d, orderly) /\ UpToDate(queue, v, d, spans, lost, orderly)
        /\ orderly \in BOOLEAN /\ v \in View
    BY <1>4
  <2>2. CASE d = c
    <3>1. Head(queue).cpu = d /\ w.scope = Head(queue).scope /\ w.lost = Head(queue).lost
      BY <1>7, <1>e, <2>2 DEF c
    <3>2. /\ Linked(Tail(queue), w, d, orderly)
          /\ UpToDate(Tail(queue), w, d, spans, lost, orderly)
      <4> HIDE DEF w, v, spans, lost, orderly
      <4> QED
        BY ONLY <1>1, <2>1, <3>1, d \in Cpus, TailLinked
    <3> QED
      BY <1>1, <1>5, <3>2
  <2>3. CASE d # c
    <3>1. Head(queue).cpu # d /\ seen'[d] = v
      BY <1>7, <1>e, <2>3 DEF c
    <3>2. /\ Linked(Tail(queue), v, d, orderly)
          /\ UpToDate(Tail(queue), v, d, spans, lost, orderly)
      <4> HIDE DEF w, v, spans, lost, orderly
      <4> QED
        BY ONLY <1>1, <2>1, <3>1, d \in Cpus, TailElsewhere
    <3> QED
      BY <1>1, <1>5, <3>1, <3>2
  <2> QED
    BY <2>2, <2>3
<1>11. StackInv'
  <2> SUFFICES ASSUME NEW d \in Cpus
               PROVE  StackGood(StackOf(d)', seen'[d], Orderly(d)')
    BY DEF StackInv
  <2>1. CASE d = c
    <3>1. StackGood(StackOf(c)', seen'[c], Orderly(c))
      BY <1>7 DEF StackGood
    <3>2. /\ StackOf(d)' = StackOf(c)' /\ seen'[d] = seen'[c]
          /\ Orderly(d)' = Orderly(c)
      BY <1>5, <2>1 DEF StackOf, Orderly
    <3> QED
      BY <3>1, <3>2
  <2>2. CASE d # c
    <3>1. StackGood(StackOf(d), seen[d], Orderly(d))
      BY <1>1 DEF StackInv
    <3> QED
      BY <1>5, <1>7, <2>2, <3>1
  <2> QED
    BY <2>1, <2>2
<1> QED
  BY <1>9, <1>10, <1>11 DEF Inv

-----------------------------------------------------------------------------
(***************************************************************************)
(* The theorems.                                                           *)
(***************************************************************************)

LEMMA ProgramInv ==
    ASSUME Inv, NEW c \in Cpus, Program(c), UNCHANGED tracingVars
    PROVE  Inv'
<1>1. CASE \E l \in Levels, n \in Names : Message(c, l, n)
  BY <1>1, MessageInv
<1>2. CASE \E l \in Levels, n \in Names, id \in FreshIds(c) :
               StartSpan(c, l, [name |-> n, id |-> id])
  <2>1. PICK l \in Levels, n \in Names, id \in FreshIds(c) :
            StartSpan(c, l, [name |-> n, id |-> id])
    BY <1>2
  <2>2. id \in Ids
    BY DEF FreshIds
  <2>3. [name |-> n, id |-> id] \in Span
    BY <2>2 DEF Span
  <2> QED
    BY <2>1, <2>3, StartSpanInv
<1>3. CASE \E k \in DOMAIN scope[c] : EndSpan(c, k)
  <2>1. DOMAIN scope[c] = 1 .. Len(scope[c])
    BY CpuFacts DEF Inv
  <2> QED
    BY <1>3, <2>1, EndSpanInv
<1> QED
  BY <1>1, <1>2, <1>3 DEF Program

LEMMA StutterInv ==
    ASSUME Inv, UNCHANGED vars
    PROVE  Inv'
<1>1. \A d \in Cpus : Orderly(d)' = Orderly(d) /\ StackOf(d)' = StackOf(d)
  BY DEF vars, programVars, tracingVars, Orderly, StackOf
<1>2. TypeInv'
  BY DEF Inv, TypeInv, QueueTyped, ThreadTyped, StartsItsSpan, vars, programVars, tracingVars
<1>3. ChainInv'
  BY <1>1 DEF Inv, ChainInv, vars, programVars, tracingVars
<1>4. StackInv'
  BY <1>1 DEF Inv, StackInv, vars, programVars, tracingVars
<1> QED
  BY <1>2, <1>3, <1>4 DEF Inv

\* What is known of records on their way, of the last one received from each CPU and of
\* the stacks is kept by every step of the programs and of the tracing thread.
THEOREM InvCorrect == Spec => []Inv
<1>1. Init => Inv
  BY InitInv
<1>2. Inv /\ [Next]_vars => Inv'
  <2> SUFFICES ASSUME Inv, [Next]_vars
               PROVE  Inv'
    OBVIOUS
  <2>1. CASE \E c \in Cpus : Program(c) /\ UNCHANGED tracingVars
    BY <2>1, ProgramInv
  <2>2. CASE Receive
    BY <2>2, ReceiveInv
  <2>3. CASE UNCHANGED vars
    BY <2>3, StutterInv
  <2> QED
    BY <2>1, <2>2, <2>3 DEF Next
<1> QED
  BY <1>1, <1>2, PTL DEF Spec

\* The records on their way, the stacks and the bookkeeping have their types, however
\* many CPUs appear after the stacks were allocated.
THEOREM TypeCorrect == Spec => []TypeOK
<1>1. Inv => TypeOK
  <2> SUFFICES ASSUME Inv
               PROVE  TypeOK
    OBVIOUS
  <2>1. Range(queue) \subseteq Event
    BY DEF Inv, TypeInv, QueueTyped, Range
  <2> QED
    BY <2>1 DEF Inv, TypeInv, QueueTyped, ThreadTyped, TypeOK, View
<1> QED
  BY <1>1, InvCorrect, PTL

\* Whatever records are lost, filtered out or not decoded, nothing is nested in a span
\* that was not open, as long as no end is lost and no span ended below one of its name.
THEOREM NoPhantomNestingCorrect == Spec => []NoPhantomNesting
<1>1. Inv => NoPhantomNesting
  BY DEF Inv, StackInv, StackGood, Orderly, NoPhantomNesting
<1> QED
  BY <1>1, InvCorrect, PTL

\* Every span that stays on a stack after it was ended is accounted for by an end that
\* was lost, whatever the programs, the filters and the decoder do.
THEOREM StaleSpansCorrect == Spec => []StaleSpansAreBounded
<1>1. Inv => StaleSpansAreBounded
  BY DEF Inv, StackInv, StackGood, StaleSpansAreBounded
<1> QED
  BY <1>1, InvCorrect, PTL

=============================================================================
