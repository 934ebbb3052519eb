------------------------- MODULE SubsequenceProofs --------------------------
(***************************************************************************)
(* What TLAPS proves about Kept, for every sequence and every set.         *)
(*                                                                         *)
(* Kept is defined by recursion over the positions of the sequence.  The   *)
(* induction theorems of the library cannot be instantiated, so an         *)
(* induction looks for the least position where something goes wrong.      *)
(***************************************************************************)
EXTENDS Subsequences, SequenceTheorems, WellFoundedInduction, TLAPS

LEMMA LeastOf ==
    ASSUME NEW T, T \subseteq Nat, T # {}
    PROVE  \E n \in T : \A m \in T : n <= m
<1>1. \E x \in T : \A y \in T : ~ (<<y, x>> \in OpToRel(<, Nat))
  BY NatLessThanWellFounded, WFMin, Zenon
<1>2. PICK x \in T : \A y \in T : ~ (<<y, x>> \in OpToRel(<, Nat))
  BY <1>1
<1>3. \A y \in T : ~ (y < x)
  BY <1>2 DEF OpToRel
<1>4. \A y \in T : x <= y
  BY <1>3
<1> QED
  BY <1>4

\* The table that the definition of Kept computes, up to position n.
IsTable(k, s, T, n) ==
    k = [i \in 0 .. n |-> IF i = 0 THEN << >>
                          ELSE IF s[i] \in T THEN Append(k[i - 1], s[i])
                          ELSE k[i - 1]]

LEMMA TableExists ==
    ASSUME NEW s, NEW T, NEW n \in Nat
    PROVE  \E k : IsTable(k, s, T, n)
<1> DEFINE Wrong == {m \in Nat : ~ \E k : IsTable(k, s, T, m)}
<1>1. SUFFICES ASSUME Wrong # {}
               PROVE  FALSE
  OBVIOUS
<1>2. PICK m \in Wrong : \A l \in Wrong : m <= l
  BY <1>1, LeastOf
<1>3. m # 0
  <2>1. IsTable([i \in 0 .. 0 |-> << >>], s, T, 0)
    BY DEF IsTable
  <2> QED
    BY <2>1
<1>4. m - 1 \in Nat /\ m - 1 \notin Wrong
  BY <1>2, <1>3
<1>5. PICK k : IsTable(k, s, T, m - 1)
  BY <1>4
<1> DEFINE new == IF s[m] \in T THEN Append(k[m - 1], s[m]) ELSE k[m - 1]
           l == [i \in 0 .. m |-> IF i = m THEN new ELSE k[i]]
<1>6. IsTable(l, s, T, m)
  <2> DEFINE r == [i \in 0 .. m |-> IF i = 0 THEN << >>
                                    ELSE IF s[i] \in T THEN Append(l[i - 1], s[i])
                                    ELSE l[i - 1]]
  <2>1. ASSUME NEW i \in 0 .. m
        PROVE  l[i] = r[i]
    <3>1. CASE i = 0
      BY <1>3, <1>5, <3>1 DEF IsTable
    <3>2. CASE i # 0 /\ i # m
      <4>1. i - 1 \in 0 .. m - 1 /\ i \in 0 .. m - 1 /\ i - 1 \in 0 .. m /\ i - 1 # m
        BY <3>2
      <4>2. k[i] = IF s[i] \in T THEN Append(k[i - 1], s[i]) ELSE k[i - 1]
        BY <1>5, <3>2, <4>1 DEF IsTable
      <4>3. l[i] = k[i] /\ l[i - 1] = k[i - 1]
        BY <3>2, <4>1
      <4> QED
        BY <3>2, <4>2, <4>3
    <3>3. CASE i = m
      <4>1. m - 1 \in 0 .. m /\ m - 1 # m
        BY <1>4
      <4> QED
        BY <1>3, <3>3, <4>1
    <3> QED
      BY <3>1, <3>2, <3>3
  <2>2. l = r
    BY <2>1
  <2> QED
    BY <2>2 DEF IsTable
<1> QED
  BY <1>2, <1>6

LEMMA KeptTable ==
    ASSUME NEW S, NEW s \in Seq(S), NEW T
    PROVE  \E k : IsTable(k, s, T, Len(s)) /\ Kept(s, T) = k[Len(s)]
<1> DEFINE k == CHOOSE k : IsTable(k, s, T, Len(s))
<1>1. IsTable(k, s, T, Len(s))
  BY TableExists
<1>2. Kept(s, T) = k[Len(s)]
  BY DEF Kept, IsTable
<1> QED
  BY <1>1, <1>2

LEMMA TableStep ==
    ASSUME NEW k, NEW s, NEW T, NEW n \in Nat, IsTable(k, s, T, n)
    PROVE  /\ k[0] = << >>
           /\ \A i \in 1 .. n : k[i] = IF s[i] \in T THEN Append(k[i - 1], s[i]) ELSE k[i - 1]
<1>1. ASSUME NEW i \in 0 .. n
      PROVE  k[i] = IF i = 0 THEN << >>
                    ELSE IF s[i] \in T THEN Append(k[i - 1], s[i]) ELSE k[i - 1]
  BY DEF IsTable
<1>2. k[0] = << >>
  BY <1>1
<1>3. \A i \in 1 .. n : i \in 0 .. n /\ i # 0
  OBVIOUS
<1> QED
  BY <1>1, <1>2, <1>3

\* r is the elements of T among the first n of s, where f says which they are.
Embeds(f, r, s, T, n) ==
    /\ f \in [1 .. Len(r) -> 1 .. n]
    /\ \A i \in 1 .. Len(r) : r[i] = s[f[i]]
    /\ \A i, j \in 1 .. Len(r) : i < j => f[i] < f[j]
    /\ \A i \in 1 .. n : s[i] \in T <=> \E j \in 1 .. Len(r) : f[j] = i

LEMMA EmbedsOneMore ==
    ASSUME NEW S, NEW s \in Seq(S), NEW T, NEW n \in 1 .. Len(s),
           NEW r \in Seq(S), NEW f, Embeds(f, r, s, T, n - 1),
           NEW q, q = IF s[n] \in T THEN Append(r, s[n]) ELSE r
    PROVE  q \in Seq(S) /\ \E g : Embeds(g, q, s, T, n)
<1>0. /\ s[n] \in S /\ Len(r) \in Nat
      /\ \A i \in 1 .. Len(r) : f[i] \in 1 .. n - 1 /\ r[i] = s[f[i]]
      /\ \A i, j \in 1 .. Len(r) : i < j => f[i] < f[j]
      /\ \A i \in 1 .. n - 1 : s[i] \in T <=> \E j \in 1 .. Len(r) : f[j] = i
  <2>1. s[n] \in S /\ Len(r) \in Nat
    OBVIOUS
  <2>2. /\ f \in [1 .. Len(r) -> 1 .. n - 1]
        /\ \A i \in 1 .. Len(r) : r[i] = s[f[i]]
        /\ \A i, j \in 1 .. Len(r) : i < j => f[i] < f[j]
    BY DEF Embeds
  <2>3. \A i \in 1 .. n - 1 : s[i] \in T <=> \E j \in 1 .. Len(r) : f[j] = i
    BY Zenon DEF Embeds
  <2> QED
    BY <2>1, <2>2, <2>3
<1>1. CASE s[n] \notin T
  <2>1. q = r
    BY <1>1
  <2>2. f \in [1 .. Len(q) -> 1 .. n]
    BY <2>1, <1>0 DEF Embeds
  <2>3. \A i \in 1 .. n : s[i] \in T <=> \E j \in 1 .. Len(q) : f[j] = i
    BY <1>0, <1>1, <2>1
  <2>4. Embeds(f, q, s, T, n)
    BY ONLY <1>0, <2>1, <2>2, <2>3, Zenon DEF Embeds
  <2> QED
    BY <2>1, <2>4
<1>2. CASE s[n] \in T
  <2> DEFINE g == [i \in 1 .. Len(q) |-> IF i = Len(q) THEN n ELSE f[i]]
  <2>1. /\ q \in Seq(S) /\ Len(q) = Len(r) + 1
        /\ \A i \in 1 .. Len(r) : q[i] = r[i]
        /\ q[Len(q)] = s[n]
    BY <1>0, <1>2, AppendProperties
  <2>2. g \in [1 .. Len(q) -> 1 .. n]
    BY <1>0, <2>1
  <2>3. /\ g[Len(q)] = n
        /\ \A i \in 1 .. Len(r) : g[i] = f[i]
    BY <1>0, <2>1
  <2> HIDE DEF g
  <2>4. \A i \in 1 .. Len(q) : i \in 1 .. Len(r) \/ i = Len(q)
    BY <1>0, <2>1
  <2>5. \A i \in 1 .. Len(q) : q[i] = s[g[i]]
    BY <1>0, <2>1, <2>3, <2>4
  <2>6. \A i, j \in 1 .. Len(q) : i < j => g[i] < g[j]
    BY <1>0, <2>1, <2>3, <2>4
  <2>7. ASSUME NEW i \in 1 .. n
        PROVE  s[i] \in T <=> \E j \in 1 .. Len(q) : g[j] = i
    <3>1. CASE i = n
      BY <1>0, <1>2, <2>1, <2>3, <3>1
    <3>2. CASE i # n
      <4>1. i \in 1 .. n - 1
        BY <3>2
      <4>2. ASSUME NEW j \in 1 .. Len(q), g[j] = i
            PROVE  j \in 1 .. Len(r) /\ f[j] = i
        BY <2>3, <2>4, <3>2, <4>2
      <4>3. ASSUME NEW j \in 1 .. Len(r), f[j] = i
            PROVE  j \in 1 .. Len(q) /\ g[j] = i
        BY <1>0, <2>1, <2>3, <4>3
      <4>4. s[i] \in T <=> \E j \in 1 .. Len(r) : f[j] = i
        BY ONLY <1>0, <4>1, Zenon
      <4> QED
        BY ONLY <4>2, <4>3, <4>4, Zenon
    <3> QED
      BY <3>1, <3>2
  <2>8. Embeds(g, q, s, T, n)
    BY ONLY <2>2, <2>5, <2>6, <2>7, Zenon DEF Embeds
  <2> QED
    BY <2>1, <2>8
<1> QED
  BY <1>1, <1>2

\* Kept is those of the elements of a sequence that are in T, all of them, and in
\* their order.
LEMMA KeptEmbeds ==
    ASSUME NEW S, NEW s \in Seq(S), NEW T
    PROVE  /\ Kept(s, T) \in Seq(S)
           /\ \E f : Embeds(f, Kept(s, T), s, T, Len(s))
<1>0. Len(s) \in Nat
  OBVIOUS
<1>1. PICK k : IsTable(k, s, T, Len(s)) /\ Kept(s, T) = k[Len(s)]
  BY KeptTable
<1>2. /\ k[0] = << >>
      /\ \A i \in 1 .. Len(s) : k[i] = IF s[i] \in T THEN Append(k[i - 1], s[i]) ELSE k[i - 1]
  BY <1>0, <1>1, TableStep
<1> DEFINE Right(n) == k[n] \in Seq(S) /\ \E f : Embeds(f, k[n], s, T, n)
           Wrong == {n \in 0 .. Len(s) : ~ Right(n)}
<1>3. ASSUME Wrong # {}
      PROVE  FALSE
  <2>1. PICK n \in Wrong : \A m \in Wrong : n <= m
    <3>1. Wrong \subseteq Nat
      BY <1>0
    <3> HIDE DEF Wrong
    <3> QED
      BY <1>3, <3>1, LeastOf
  <2>2. Right(0)
    <3>1. Embeds(<< >>, << >>, s, T, 0)
      BY DEF Embeds
    <3> QED
      BY <1>2, <3>1
  <2>3. n \in 1 .. Len(s) /\ n - 1 \in 0 .. Len(s) /\ n - 1 \notin Wrong
    BY <1>0, <2>1, <2>2
  <2>4. Right(n - 1)
    BY <2>3
  <2>5. PICK f : Embeds(f, k[n - 1], s, T, n - 1)
    BY <2>4
  <2>6. Right(n)
    <3>1. k[n] = IF s[n] \in T THEN Append(k[n - 1], s[n]) ELSE k[n - 1]
      BY <1>2, <2>3
    <3>2. k[n - 1] \in Seq(S)
      BY <2>4
    <3> DEFINE r == k[n - 1]
               q == k[n]
    <3>3. /\ n \in 1 .. Len(s) /\ r \in Seq(S) /\ Embeds(f, r, s, T, n - 1)
          /\ q = IF s[n] \in T THEN Append(r, s[n]) ELSE r
      BY <2>3, <2>5, <3>1, <3>2
    <3> HIDE DEF r, q, Wrong, Right
    <3>4. q \in Seq(S) /\ \E g : Embeds(g, q, s, T, n)
      BY <3>3, EmbedsOneMore
    <3> QED
      BY <3>4 DEF q, Right
  <2> QED
    BY <2>1, <2>6
<1>4. Right(Len(s))
  BY <1>0, <1>3
<1> QED
  BY <1>1, <1>4

\* Keeping is done element by element.
LEMMA KeptAppend ==
    ASSUME NEW S, NEW s \in Seq(S), NEW e \in S, NEW T
    PROVE  Kept(Append(s, e), T) =
               IF e \in T THEN Append(Kept(s, T), e) ELSE Kept(s, T)
<1> DEFINE t == Append(s, e)
<1>0. /\ t \in Seq(S) /\ Len(s) \in Nat /\ Len(t) = Len(s) + 1
      /\ \A i \in 1 .. Len(s) : t[i] = s[i]
      /\ t[Len(t)] = e
  BY AppendProperties
<1> HIDE DEF t
<1>1. PICK k : IsTable(k, s, T, Len(s)) /\ Kept(s, T) = k[Len(s)]
  BY KeptTable
<1>2. PICK l : IsTable(l, t, T, Len(t)) /\ Kept(t, T) = l[Len(t)]
  BY <1>0, KeptTable
<1>3. /\ k[0] = << >>
      /\ \A i \in 1 .. Len(s) : k[i] = IF s[i] \in T THEN Append(k[i - 1], s[i]) ELSE k[i - 1]
  BY <1>0, <1>1, TableStep
<1>4. /\ l[0] = << >>
      /\ \A i \in 1 .. Len(t) : l[i] = IF t[i] \in T THEN Append(l[i - 1], t[i]) ELSE l[i - 1]
  BY <1>0, <1>2, TableStep
<1> DEFINE Wrong == {n \in 0 .. Len(s) : k[n] # l[n]}
<1>5. ASSUME Wrong # {}
      PROVE  FALSE
  <2>1. PICK n \in Wrong : \A m \in Wrong : n <= m
    <3>1. Wrong \subseteq Nat
      BY <1>0
    <3> HIDE DEF Wrong
    <3> QED
      BY <1>5, <3>1, LeastOf
  <2>2. n \in 1 .. Len(s) /\ n \in 1 .. Len(t) /\ k[n - 1] = l[n - 1]
    BY <1>0, <1>3, <1>4, <2>1
  <2>3. k[n] = l[n]
    BY <1>0, <1>3, <1>4, <2>2
  <2> QED
    BY <2>1, <2>3
<1>6. k[Len(s)] = l[Len(s)]
  BY <1>0, <1>5
<1>7. l[Len(t)] = IF e \in T THEN Append(l[Len(s)], e) ELSE l[Len(s)]
  <2>1. Len(t) \in 1 .. Len(t) /\ Len(t) - 1 = Len(s)
    BY <1>0
  <2> QED
    BY <1>0, <1>4, <2>1
<1> QED
  BY <1>1, <1>2, <1>6, <1>7 DEF t

LEMMA KeptOfNothing ==
    ASSUME NEW T
    PROVE  Kept(<< >>, T) = << >>
<1>1. << >> \in Seq({}) /\ Len(<< >>) = 0
  OBVIOUS
<1>2. PICK k : IsTable(k, << >>, T, 0) /\ Kept(<< >>, T) = k[0]
  BY <1>1, KeptTable
<1> QED
  BY <1>2, TableStep

=============================================================================
