--------------------------- MODULE HashMapProofs ----------------------------
(***************************************************************************)
(* What TLAPS proves about HashMap, for all keys, values, buckets, sizes   *)
(* and threads: what the calls of several system calls guarantee, whatever *)
(* others do to the map between them.                                      *)
(***************************************************************************)
EXTENDS HashMap, SubsequenceProofs, FiniteSetTheorems

-----------------------------------------------------------------------------
(***************************************************************************)
(* Sequences of entries.                                                   *)
(***************************************************************************)

KeysOf(es) == {es[i].key : i \in DOMAIN es}

Has(es, e) == \E i \in DOMAIN es : es[i] = e

\* The entry of key a is somewhere in front of that of key b.
Ahead(es, a, b) == \E i, j \in DOMAIN es : i < j /\ es[i].key = a /\ es[j].key = b

\* No key twice, and bucket by bucket.
Wellformed(es) ==
    /\ es \in Seq(Entry)
    /\ \A i, j \in DOMAIN es : es[i].key = es[j].key => i = j
    /\ \A i, j \in DOMAIN es : i < j => Bucket[es[i].key] <= Bucket[es[j].key]

LEMMA EntryIs ==
    ASSUME NEW e \in Entry
    PROVE  /\ e.key \in Keys /\ e.val \in Values /\ Bucket[e.key] \in Nat
           /\ e = [key |-> e.key, val |-> e.val]
  BY BucketAssumption DEF Entry

LEMMA WellformedIs ==
    ASSUME NEW es, Wellformed(es)
    PROVE  /\ es \in Seq(Entry) /\ Len(es) \in Nat /\ DOMAIN es = 1 .. Len(es)
           /\ \A i \in 1 .. Len(es) : /\ es[i] \in Entry /\ es[i].key \in Keys
                                      /\ es[i].val \in Values
                                      /\ Bucket[es[i].key] \in Nat
  BY EntryIs DEF Wellformed

LEMMA NothingIsWellformed == Wellformed(<< >>)
  BY DEF Wellformed

LEMMA OneEntryPerKey ==
    ASSUME NEW es, Wellformed(es), NEW d, NEW e, Has(es, d), Has(es, e), d.key = e.key
    PROVE  d = e
  BY DEF Wellformed, Has

LEMMA HasItsKey ==
    ASSUME NEW es, Wellformed(es)
    PROVE  /\ \A e : Has(es, e) => e \in Entry /\ e.key \in KeysOf(es)
           /\ \A k \in KeysOf(es) : k \in Keys /\ \E v \in Values : Has(es, [key |-> k, val |-> v])
<1>1. ASSUME NEW e, Has(es, e)
      PROVE  e \in Entry /\ e.key \in KeysOf(es)
  BY <1>1, WellformedIs DEF Has, KeysOf
<1>2. ASSUME NEW k \in KeysOf(es)
      PROVE  k \in Keys /\ \E v \in Values : Has(es, [key |-> k, val |-> v])
  <2>1. PICK i \in DOMAIN es : es[i].key = k
    BY DEF KeysOf
  <2>2. es[i] \in Entry
    BY WellformedIs
  <2>3. es[i] = [key |-> k, val |-> es[i].val] /\ es[i].val \in Values /\ k \in Keys
    BY <2>1, <2>2, EntryIs
  <2> QED
    BY <2>3 DEF Has
<1> QED
  BY <1>1, <1>2

LEMMA SegmentCounted ==
    ASSUME NEW n \in Nat
    PROVE  IsFiniteSet(1 .. n) /\ Cardinality(1 .. n) = n
<1>1. 1 \in Int /\ n \in Int
  OBVIOUS
<1>2. IsFiniteSet(1 .. n) /\ Cardinality(1 .. n) = IF 1 > n THEN 0 ELSE n - 1 + 1
  BY <1>1, FS_Interval
<1> QED
  BY <1>2

\* The keys of a sequence of entries are as many as its entries.
LEMMA KeysCounted ==
    ASSUME NEW es, Wellformed(es)
    PROVE  Cardinality(KeysOf(es)) = Len(es)
<1>0. Len(es) \in Nat /\ DOMAIN es = 1 .. Len(es)
  BY WellformedIs
<1> DEFINE f == [i \in 1 .. Len(es) |-> es[i].key]
<1>1. f \in Bijection(1 .. Len(es), KeysOf(es))
  <2>1. f \in [1 .. Len(es) -> KeysOf(es)]
    BY <1>0 DEF KeysOf
  <2>2. \A i, j \in 1 .. Len(es) : f[i] = f[j] => i = j
    BY <1>0 DEF Wellformed
  <2>3. \A k \in KeysOf(es) : \E i \in 1 .. Len(es) : f[i] = k
    BY <1>0 DEF KeysOf
  <2> QED
    BY <2>1, <2>2, <2>3 DEF Bijection, Injection, Surjection, IsInjective
<1>2. ExistsBijection(1 .. Len(es), KeysOf(es))
  BY <1>1 DEF ExistsBijection
<1> QED
  BY <1>0, <1>2, FS_CountingElements

KeptKeys(ks) == [key : Keys \ ks, val : Values]

\* Removing keys leaves the other entries, in their order.
LEMMA RemovedFrom ==
    ASSUME NEW es, Wellformed(es), NEW ks,
           NEW r, r = Kept(es, KeptKeys(ks))
    PROVE  /\ Wellformed(r) /\ Len(r) <= Len(es)
           /\ KeysOf(r) = KeysOf(es) \ ks
           /\ \A e : Has(r, e) <=> Has(es, e) /\ e.key \notin ks
           /\ \A a, b : Ahead(r, a, b) => Ahead(es, a, b)
<1>0. /\ es \in Seq(Entry) /\ Len(es) \in Nat /\ DOMAIN es = 1 .. Len(es)
      /\ \A i \in 1 .. Len(es) : es[i] \in Entry
  BY WellformedIs
<1>1. PICK f : r \in Seq(Entry) /\ Embeds(f, r, es, KeptKeys(ks), Len(es))
  BY <1>0, KeptEmbeds
<1>2. /\ Len(r) \in Nat /\ DOMAIN r = 1 .. Len(r)
      /\ \A i \in 1 .. Len(r) : f[i] \in 1 .. Len(es) /\ r[i] = es[f[i]]
      /\ \A i, j \in 1 .. Len(r) : i < j => f[i] < f[j]
  BY <1>1 DEF Embeds
<1>3. \A i \in 1 .. Len(es) : es[i].key \notin ks <=> \E j \in 1 .. Len(r) : f[j] = i
  <2>1. ASSUME NEW i \in 1 .. Len(es)
        PROVE  es[i].key \notin ks <=> es[i] \in KeptKeys(ks)
    BY <1>0, EntryIs DEF KeptKeys, Entry
  <2>2. ASSUME NEW i \in 1 .. Len(es)
        PROVE  es[i] \in KeptKeys(ks) <=> \E j \in 1 .. Len(r) : f[j] = i
    BY <1>1, Zenon DEF Embeds
  <2> QED
    BY <2>1, <2>2, Zenon
<1>4. \A i, j \in 1 .. Len(r) : f[i] = f[j] => i = j
  BY <1>2
<1>5. Wellformed(r)
  <2>1. \A i, j \in 1 .. Len(r) : r[i].key = r[j].key => i = j
    BY <1>0, <1>2, <1>4 DEF Wellformed
  <2>2. \A i, j \in 1 .. Len(r) : i < j => Bucket[r[i].key] <= Bucket[r[j].key]
    BY <1>0, <1>2 DEF Wellformed
  <2> QED
    BY <1>1, <1>2, <2>1, <2>2 DEF Wellformed
<1>6. Len(r) <= Len(es)
  <2>1. f \in Injection(1 .. Len(r), 1 .. Len(es))
    BY <1>1, <1>4 DEF Embeds, Injection, IsInjective
  <2>2. /\ IsFiniteSet(1 .. Len(es)) /\ Cardinality(1 .. Len(es)) = Len(es)
        /\ IsFiniteSet(1 .. Len(r)) /\ Cardinality(1 .. Len(r)) = Len(r)
    BY <1>0, <1>2, SegmentCounted
  <2> QED
    BY <2>1, <2>2, FS_Injection
<1>7. ASSUME NEW e
      PROVE  Has(r, e) <=> Has(es, e) /\ e.key \notin ks
  <2>1. ASSUME NEW i \in 1 .. Len(r), r[i] = e
        PROVE  Has(es, e) /\ e.key \notin ks
    BY <1>0, <1>2, <1>3, <2>1 DEF Has
  <2>2. ASSUME NEW i \in 1 .. Len(es), es[i] = e, e.key \notin ks
        PROVE  Has(r, e)
    <3>1. PICK j \in 1 .. Len(r) : f[j] = i
      BY <1>3, <2>2
    <3> QED
      BY <1>2, <2>2, <3>1 DEF Has
  <2> QED
    BY <1>0, <1>2, <2>1, <2>2 DEF Has
<1>8. KeysOf(r) = KeysOf(es) \ ks
  <2>1. \A k : k \in KeysOf(r) <=> \E e : Has(r, e) /\ e.key = k
    BY DEF KeysOf, Has
  <2>2. \A k : k \in KeysOf(es) <=> \E e : Has(es, e) /\ e.key = k
    BY DEF KeysOf, Has
  <2> QED
    BY <1>7, <2>1, <2>2
<1>9. ASSUME NEW a, NEW b, Ahead(r, a, b)
      PROVE  Ahead(es, a, b)
  BY <1>0, <1>2, <1>9 DEF Ahead
<1> QED
  BY <1>5, <1>6, <1>7, <1>8, <1>9

\* A set of positions with everything in front of it is the beginning.
LEMMA Beginning ==
    ASSUME NEW n \in Nat, NEW B, B \subseteq 1 .. n,
           \A i \in B : \A j \in 1 .. n : j < i => j \in B
    PROVE  Cardinality(B) \in 0 .. n /\ B = 1 .. Cardinality(B)
<1> DEFINE Out == {i \in Nat : i # 0 /\ i \notin B}
<1>1. n + 1 \in Out
  OBVIOUS
<1>2. PICK m \in Out : \A l \in Out : m <= l
  BY <1>1, LeastOf
<1>3. m \in 1 .. n + 1 /\ \A i \in 1 .. m - 1 : i \in B
  BY <1>1, <1>2
<1>4. \A i \in B : i < m
  BY <1>2, <1>3
<1>5. B = 1 .. m - 1
  <2>1. ASSUME NEW i \in B
        PROVE  i \in 1 .. m - 1
    <3>1. i \in 1 .. n /\ i < m /\ m \in Nat
      BY <1>3, <1>4
    <3> QED
      BY <3>1
  <2> QED
    BY <1>3, <2>1
<1>6. m - 1 \in Nat /\ Cardinality(1 .. m - 1) = m - 1
  BY <1>3, SegmentCounted
<1> QED
  BY <1>3, <1>5, <1>6

LEMMA ConcatIs ==
    ASSUME NEW S, NEW l \in Seq(S), NEW r \in Seq(S), NEW q, q = l \o r
    PROVE  /\ q \in Seq(S) /\ Len(q) = Len(l) + Len(r)
           /\ \A j \in 1 .. Len(l) + Len(r) : q[j] = IF j <= Len(l) THEN l[j] ELSE r[j - Len(l)]
  BY ConcatProperties

LEMMA InsertAtIs ==
    ASSUME NEW S, NEW s \in Seq(S), NEW e \in S, NEW i \in 1 .. Len(s) + 1,
           NEW p, p = InsertAt(s, i, e)
    PROVE  /\ p \in Seq(S) /\ Len(p) = Len(s) + 1
           /\ \A j \in 1 .. i - 1 : p[j] = s[j]
           /\ p[i] = e
           /\ \A j \in i .. Len(s) : p[j + 1] = s[j]
<1>1. PICK l : l = SubSeq(s, 1, i - 1)
  OBVIOUS
<1>2. PICK r : r = SubSeq(s, i, Len(s))
  OBVIOUS
<1>3. PICK le : le = l \o <<e>> /\ p = le \o r
  BY <1>1, <1>2 DEF InsertAt
<1>4. /\ l \in Seq(S) /\ Len(l) = i - 1
      /\ \A j \in 1 .. i - 1 : l[j] = s[j]
  BY <1>1
<1>5. /\ r \in Seq(S) /\ Len(r) = Len(s) - i + 1
      /\ \A j \in 1 .. Len(s) - i + 1 : r[j] = s[i + j - 1]
  BY <1>2
<1>6. /\ le \in Seq(S) /\ Len(le) = i
      /\ \A j \in 1 .. i - 1 : le[j] = s[j]
      /\ le[i] = e
  <2>1. le = Append(l, e)
    BY <1>3, <1>4
  <2>2. le \in Seq(S) /\ Len(le) = i
    BY <1>4, <2>1
  <2>3. \A j \in 1 .. i - 1 : le[j] = s[j]
    BY <1>4, <2>1
  <2>4. le[i] = e
    BY <1>4, <2>1
  <2> QED
    BY <2>2, <2>3, <2>4
<1>7. /\ p \in Seq(S) /\ Len(p) = Len(le) + Len(r)
      /\ \A j \in 1 .. Len(le) + Len(r) : p[j] = IF j <= Len(le) THEN le[j] ELSE r[j - Len(le)]
  <2>1. le \in Seq(S) /\ r \in Seq(S) /\ p = le \o r
    BY <1>3, <1>5, <1>6
  <2>2. p \in Seq(S)
    BY <2>1, ConcatIs
  <2>3. Len(p) = Len(le) + Len(r)
    BY <2>1, ConcatIs
  <2>4. \A j \in 1 .. Len(le) + Len(r) : p[j] = IF j <= Len(le) THEN le[j] ELSE r[j - Len(le)]
    BY <2>1, ConcatIs
  <2> QED
    BY <2>2, <2>3, <2>4
<1>8. Len(p) = Len(s) + 1
  BY <1>5, <1>6, <1>7
<1>9. \A j \in 1 .. i : p[j] = le[j]
  BY <1>5, <1>6, <1>7
<1>10. ASSUME NEW j \in i .. Len(s)
       PROVE  p[j + 1] = s[j]
  <2>1. /\ j + 1 \in 1 .. Len(le) + Len(r) /\ ~ (j + 1 <= Len(le))
        /\ j + 1 - Len(le) = j - i + 1
    BY <1>5, <1>6
  <2>2. j - i + 1 \in 1 .. Len(s) - i + 1 /\ i + (j - i + 1) - 1 = j
    OBVIOUS
  <2>3. p[j + 1] = r[j + 1 - Len(le)]
    BY <1>7, <2>1
  <2>4. r[j - i + 1] = s[i + (j - i + 1) - 1]
    BY <1>5, <2>2
  <2> QED
    BY <2>1, <2>2, <2>3, <2>4
<1>11. p[i] = e /\ \A j \in 1 .. i - 1 : p[j] = s[j]
  BY <1>6, <1>9
<1> QED
  BY <1>7, <1>8, <1>10, <1>11, Zenon

\* A new entry keeps the others in their order, and is behind the entries of the
\* buckets in front of its own only.
LEMMA PlacedIs ==
    ASSUME NEW es, Wellformed(es), NEW e \in Entry, e.key \notin KeysOf(es),
           NEW p, p = Placed(es, e)
    PROVE  /\ Wellformed(p) /\ Len(p) = Len(es) + 1
           /\ KeysOf(p) = KeysOf(es) \cup {e.key}
           /\ \A x : Has(p, x) <=> Has(es, x) \/ x = e
           /\ \A a, b : a # e.key /\ b # e.key /\ Ahead(p, a, b) => Ahead(es, a, b)
           /\ \A a : Ahead(p, a, e.key) => Bucket[a] < Bucket[e.key]
<1> DEFINE before == {i \in DOMAIN es : Bucket[es[i].key] < Bucket[e.key]}
           at == Cardinality(before) + 1
<1>0. /\ es \in Seq(Entry) /\ Len(es) \in Nat /\ DOMAIN es = 1 .. Len(es)
      /\ \A i \in 1 .. Len(es) : /\ es[i] \in Entry /\ es[i].key # e.key
                                 /\ Bucket[es[i].key] \in Nat
      /\ Bucket[e.key] \in Nat
  BY WellformedIs, EntryIs DEF KeysOf
<1>1. \A i, j \in 1 .. Len(es) : i < j => Bucket[es[i].key] <= Bucket[es[j].key]
  BY <1>0 DEF Wellformed
<1>2. /\ Cardinality(before) \in 0 .. Len(es)
      /\ before = 1 .. Cardinality(before)
  <2>1. before \subseteq 1 .. Len(es)
    BY <1>0
  <2>2. \A i \in before : \A j \in 1 .. Len(es) : j < i => j \in before
    BY <1>0, <1>1
  <2> QED
    BY <1>0, <2>1, <2>2, Beginning
<1>3. /\ at \in 1 .. Len(es) + 1
      /\ \A i \in 1 .. Len(es) : i < at <=> Bucket[es[i].key] < Bucket[e.key]
  <2>1. ASSUME NEW i \in 1 .. Len(es)
        PROVE  i < at <=> i \in 1 .. Cardinality(before)
    BY <1>0, <1>2
  <2>2. ASSUME NEW i \in 1 .. Len(es)
        PROVE  i \in before <=> Bucket[es[i].key] < Bucket[e.key]
    BY <1>0
  <2> QED
    BY <1>0, <1>2, <2>1, <2>2
<1>4. p = InsertAt(es, at, e)
  BY DEF Placed
<1> HIDE DEF before, at
<1>5. /\ p \in Seq(Entry) /\ Len(p) = Len(es) + 1 /\ DOMAIN p = 1 .. Len(es) + 1
      /\ \A j \in 1 .. at - 1 : p[j] = es[j]
      /\ p[at] = e
      /\ \A j \in at .. Len(es) : p[j + 1] = es[j]
  <2>1. /\ p \in Seq(Entry) /\ Len(p) = Len(es) + 1
        /\ \A j \in 1 .. at - 1 : p[j] = es[j]
        /\ p[at] = e
        /\ \A j \in at .. Len(es) : p[j + 1] = es[j]
    <3>1. es \in Seq(Entry) /\ at \in 1 .. Len(es) + 1
      BY <1>0, <1>3
    <3> QED
      BY <1>4, <3>1, InsertAtIs
  <2> QED
    BY <2>1
<1> DEFINE old(q) == IF q < at THEN q ELSE q - 1
<1>6. ASSUME NEW q \in 1 .. Len(es) + 1, q # at
      PROVE  /\ old(q) \in 1 .. Len(es) /\ p[q] = es[old(q)]
             /\ q < at <=> old(q) < at
  <2>1. CASE q < at
    BY <1>0, <1>3, <1>5, <2>1
  <2>2. CASE q > at
    <3>1. q - 1 \in at .. Len(es) /\ q - 1 + 1 = q /\ q - 1 \in 1 .. Len(es)
      BY <1>0, <1>3, <2>2
    <3> QED
      BY <1>3, <1>5, <2>2, <3>1
  <2> QED
    BY <1>3, <1>6, <2>1, <2>2
<1>7. \A q, r \in 1 .. Len(es) + 1 : q # at /\ r # at /\ q < r => old(q) < old(r)
  BY <1>0, <1>3
<1> HIDE DEF old
<1>8. ASSUME NEW i \in 1 .. Len(es) + 1, NEW j \in 1 .. Len(es) + 1, i < j
      PROVE  p[i].key # p[j].key /\ Bucket[p[i].key] <= Bucket[p[j].key]
  <2>1. \A k, l \in 1 .. Len(es) : es[k].key = es[l].key => k = l
    BY <1>0 DEF Wellformed
  <2>2. CASE i # at /\ j # at
    <3>1. old(i) \in 1 .. Len(es) /\ old(j) \in 1 .. Len(es) /\ old(i) < old(j)
      BY <1>6, <1>7, <1>8, <2>2
    <3>2. old(i) # old(j)
      BY <3>1
    <3> QED
      BY <1>1, <1>6, <2>1, <2>2, <3>1, <3>2
  <2>3. CASE i = at
    <3>1. old(j) \in 1 .. Len(es) /\ p[j] = es[old(j)] /\ ~ (old(j) < at)
      BY <1>3, <1>6, <1>8, <2>3
    <3> QED
      BY <1>0, <1>3, <1>5, <2>3, <3>1
  <2>4. CASE j = at
    <3>1. old(i) \in 1 .. Len(es) /\ p[i] = es[old(i)] /\ old(i) < at
      BY <1>3, <1>6, <1>8, <2>4
    <3> QED
      BY <1>0, <1>3, <1>5, <2>4, <3>1
  <2> QED
    BY <2>2, <2>3, <2>4
<1>9. ASSUME NEW i \in 1 .. Len(es) + 1, NEW j \in 1 .. Len(es) + 1, p[i].key = p[j].key
      PROVE  i = j
  <2>1. ~ (i < j) /\ ~ (j < i)
    BY <1>8, <1>9
  <2> QED
    BY <2>1, <1>0
<1>10. Wellformed(p)
  BY <1>5, <1>8, <1>9 DEF Wellformed
<1>11. ASSUME NEW x
       PROVE  Has(p, x) <=> Has(es, x) \/ x = e
  <2>1. ASSUME NEW i \in 1 .. Len(es)
        PROVE  \E q \in 1 .. Len(es) + 1 : p[q] = es[i]
    <3>1. CASE i < at
      BY <1>0, <1>3, <1>5, <3>1
    <3>2. CASE i >= at
      BY <1>0, <1>3, <1>5, <3>2
    <3> QED
      BY <1>3, <3>1, <3>2
  <2> QED
    <3>1. ASSUME Has(p, x)
          PROVE  Has(es, x) \/ x = e
      <4>1. PICK q \in 1 .. Len(es) + 1 : p[q] = x
        BY <1>5, <3>1 DEF Has
      <4>2. CASE q = at
        BY <1>5, <4>1, <4>2
      <4>3. CASE q # at
        BY <1>0, <1>6, <4>1, <4>3 DEF Has
      <4> QED
        BY <4>2, <4>3
    <3>2. Has(es, x) => Has(p, x)
      BY <1>0, <1>5, <2>1 DEF Has
    <3>3. x = e => Has(p, x)
      BY <1>3, <1>5 DEF Has
    <3> QED
      BY <3>1, <3>2, <3>3
<1>12. KeysOf(p) = KeysOf(es) \cup {e.key}
  <2>1. \A k : k \in KeysOf(p) <=> \E x : Has(p, x) /\ x.key = k
    BY DEF KeysOf, Has
  <2>2. \A k : k \in KeysOf(es) <=> \E x : Has(es, x) /\ x.key = k
    BY DEF KeysOf, Has
  <2> QED
    BY <1>11, <2>1, <2>2
<1>13. ASSUME NEW a, NEW b, a # e.key, b # e.key, Ahead(p, a, b)
       PROVE  Ahead(es, a, b)
  <2>1. PICK i, j \in 1 .. Len(es) + 1 : i < j /\ p[i].key = a /\ p[j].key = b
    BY <1>5, <1>13 DEF Ahead
  <2>2. i # at /\ j # at
    BY <1>5, <1>13, <2>1
  <2>3. /\ old(i) \in 1 .. Len(es) /\ old(j) \in 1 .. Len(es) /\ old(i) < old(j)
        /\ p[i] = es[old(i)] /\ p[j] = es[old(j)]
    BY <1>6, <1>7, <2>1, <2>2
  <2> QED
    BY <1>0, <2>1, <2>3 DEF Ahead
<1>14. ASSUME NEW a, Ahead(p, a, e.key)
       PROVE  Bucket[a] < Bucket[e.key]
  <2>1. PICK i, j \in 1 .. Len(es) + 1 : i < j /\ p[i].key = a /\ p[j].key = e.key
    BY <1>5, <1>14 DEF Ahead
  <2>2. j = at
    BY <1>0, <1>6, <2>1
  <2>3. old(i) < at /\ old(i) \in 1 .. Len(es) /\ p[i] = es[old(i)]
    BY <1>3, <1>6, <2>1, <2>2
  <2> QED
    BY <1>3, <2>1, <2>3
<1> QED
  BY <1>5, <1>10, <1>11, <1>12, <1>13, <1>14

-----------------------------------------------------------------------------
(***************************************************************************)
(* The system calls.                                                       *)
(***************************************************************************)

LEMMA PresentIs == Present = KeysOf(entries) /\ Present' = KeysOf(entries')
  BY DEF Present, KeysOf

LEMMA IndexIs ==
    ASSUME Wellformed(entries), NEW k \in Present
    PROVE  /\ IndexOf(k) \in 1 .. Len(entries) /\ entries[IndexOf(k)].key = k
           /\ \A i \in 1 .. Len(entries) : entries[i].key = k => i = IndexOf(k)
<1>1. \E i \in DOMAIN entries : entries[i].key = k
  BY DEF Present
<1>2. IndexOf(k) \in DOMAIN entries /\ entries[IndexOf(k)].key = k
  BY <1>1 DEF IndexOf
<1> QED
  BY <1>2, WellformedIs DEF Wellformed

LookupIn(es, k) ==
    IF k \in KeysOf(es) THEN es[CHOOSE i \in DOMAIN es : es[i].key = k].val ELSE None

LEMMA LookupInIs ==
    ASSUME NEW es, Wellformed(es), NEW k
    PROVE  /\ k \notin KeysOf(es) => LookupIn(es, k) = None
           /\ k \in KeysOf(es) => /\ k \in Keys
                                  /\ LookupIn(es, k) \in Values /\ LookupIn(es, k) # None
                                  /\ Has(es, [key |-> k, val |-> LookupIn(es, k)])
           /\ \A v : Has(es, [key |-> k, val |-> v]) =>
                         k \in KeysOf(es) /\ LookupIn(es, k) = v
<1>1. k \notin KeysOf(es) => LookupIn(es, k) = None
  BY DEF LookupIn
<1>2. ASSUME k \in KeysOf(es)
      PROVE  /\ k \in Keys /\ LookupIn(es, k) \in Values /\ LookupIn(es, k) # None
             /\ Has(es, [key |-> k, val |-> LookupIn(es, k)])
  <2> DEFINE at == CHOOSE i \in DOMAIN es : es[i].key = k
  <2>1. \E i \in DOMAIN es : es[i].key = k
    BY <1>2 DEF KeysOf
  <2>2. at \in DOMAIN es /\ es[at].key = k
    BY <2>1
  <2>3. es[at] \in Entry /\ LookupIn(es, k) = es[at].val
    BY <1>2, <2>2, WellformedIs DEF LookupIn
  <2>4. es[at] = [key |-> k, val |-> LookupIn(es, k)] /\ k \in Keys /\ LookupIn(es, k) \in Values
    BY <2>2, <2>3, EntryIs
  <2> QED
    BY <2>2, <2>4, NoneAssumption DEF Has
<1>3. ASSUME NEW v, Has(es, [key |-> k, val |-> v])
      PROVE  k \in KeysOf(es) /\ LookupIn(es, k) = v
  <2> DEFINE e == [key |-> k, val |-> v]
  <2>1. Has(es, e) /\ e.key = k /\ e.val = v
    BY <1>3
  <2>2. k \in KeysOf(es)
    BY <2>1, HasItsKey
  <2>3. e = [key |-> k, val |-> LookupIn(es, k)]
    BY <1>2, <2>1, <2>2, OneEntryPerKey
  <2> QED
    BY <2>1, <2>2, <2>3
<1> QED
  BY <1>1, <1>2, <1>3

LEMMA LookupIs == \A k : Lookup(k) = LookupIn(entries, k) /\ Lookup(k)' = LookupIn(entries', k)
  BY DEF Lookup, LookupIn, IndexOf, Present, KeysOf

\* What a write or a removal of key k may do: evict and reorder, but never bring
\* back another entry, and put no entry in front of k's but those of the buckets
\* in front of k's.
Changed(k) ==
    /\ Wellformed(entries') /\ Len(entries') <= maxEntries
    /\ \A e : e.key # k /\ Has(entries', e) => Has(entries, e)
    /\ \A a, b : a # k /\ Ahead(entries', a, b) =>
                     Ahead(entries, a, b) \/ Bucket[a] < Bucket[b]

LEMMA WithoutIs ==
    ASSUME Wellformed(entries), NEW ks, NEW r, r = Without(ks)
    PROVE  /\ Wellformed(r) /\ Len(r) <= Len(entries)
           /\ KeysOf(r) = KeysOf(entries) \ ks
           /\ \A e : Has(r, e) <=> Has(entries, e) /\ e.key \notin ks
           /\ \A a, b : Ahead(r, a, b) => Ahead(entries, a, b)
<1>1. r = Kept(entries, KeptKeys(ks))
  BY DEF Without, KeptKeys
<1> QED
  BY <1>1, RemovedFrom

LEMMA WithoutChanges ==
    ASSUME Wellformed(entries), maxEntries \in Nat, Len(entries) <= maxEntries,
           NEW k, NEW ks, entries' = Without(ks)
    PROVE  Changed(k)
<1>1. /\ Wellformed(entries') /\ Len(entries') <= Len(entries)
      /\ \A e : Has(entries', e) <=> Has(entries, e) /\ e.key \notin ks
      /\ \A a, b : Ahead(entries', a, b) => Ahead(entries, a, b)
  BY WithoutIs
<1>2. Len(entries') \in Nat /\ Len(entries) \in Nat
  BY <1>1, WellformedIs
<1> QED
  BY <1>1, <1>2 DEF Changed

LEMMA DeleteIs ==
    ASSUME Wellformed(entries), maxEntries \in Nat, Len(entries) <= maxEntries,
           NEW k, Delete(k)
    PROVE  Changed(k) /\ Present' = Present \ {k}
<1>1. KeysOf(entries') = KeysOf(entries) \ {k}
  BY WithoutIs DEF Delete
<1> QED
  BY <1>1, WithoutChanges, PresentIs DEF Delete

LEMMA UpdateIs ==
    ASSUME Wellformed(entries), maxEntries \in Nat, Len(entries) <= maxEntries,
           NEW k \in Keys, NEW v \in Values, NEW flag, Update(k, v, flag)
    PROVE  /\ Changed(k)
           /\ UpdateResult(k, flag) = "ok" => Has(entries', [key |-> k, val |-> v])
           /\ ~ lru => \A e : e.key # k /\ Has(entries, e) => Has(entries', e)
<1>1. PICK evicted \in Evictable(k) :
          IF UpdateResult(k, flag) # "ok" THEN entries' = Without(evicted)
          ELSE /\ Len(Without(evicted \cup {k})) < maxEntries
               /\ entries' = Placed(Without(evicted \cup {k}), [key |-> k, val |-> v])
  BY DEF Update
<1>2. ~ lru => evicted = {}
  BY <1>1 DEF Evictable
<1>3. CASE UpdateResult(k, flag) # "ok"
  <2>1. \A e : Has(entries', e) <=> Has(entries, e) /\ e.key \notin evicted
    BY <1>1, <1>3, WithoutIs
  <2> QED
    BY <1>1, <1>2, <1>3, <2>1, WithoutChanges
<1>4. CASE UpdateResult(k, flag) = "ok"
  <2> DEFINE others == Without(evicted \cup {k})
             new == [key |-> k, val |-> v]
  <2>1. /\ Wellformed(others) /\ KeysOf(others) = KeysOf(entries) \ (evicted \cup {k})
        /\ \A e : Has(others, e) <=> Has(entries, e) /\ e.key \notin evicted \cup {k}
        /\ \A a, b : Ahead(others, a, b) => Ahead(entries, a, b)
    BY WithoutIs
  <2>2. new \in Entry /\ new.key = k
    BY DEF Entry
  <2>3. Len(others) < maxEntries /\ entries' = Placed(others, new)
    BY <1>1, <1>4
  <2> HIDE DEF others, new
  <2>4. /\ Wellformed(entries') /\ Len(entries') = Len(others) + 1
        /\ \A x : Has(entries', x) <=> Has(others, x) \/ x = new
        /\ \A a, b : a # k /\ b # k /\ Ahead(entries', a, b) => Ahead(others, a, b)
        /\ \A a : Ahead(entries', a, k) => Bucket[a] < Bucket[k]
    BY <2>1, <2>2, <2>3, PlacedIs
  <2>5. Len(others) \in Nat
    BY <2>1, WellformedIs
  <2>6. Len(entries') <= maxEntries
    BY <2>3, <2>4, <2>5
  <2>7. ASSUME NEW a, NEW b, a # k, Ahead(entries', a, b)
        PROVE  Ahead(entries, a, b) \/ Bucket[a] < Bucket[b]
    BY <2>1, <2>4, <2>7
  <2>8. \A e : e.key # k /\ Has(entries', e) => Has(entries, e)
    BY <2>1, <2>2, <2>4
  <2>9. Changed(k)
    BY <2>4, <2>6, <2>7, <2>8 DEF Changed
  <2>10. Has(entries', new)
    BY <2>4
  <2>11. ~ lru => \A e : e.key # k /\ Has(entries, e) => Has(entries', e)
    BY <1>2, <2>1, <2>4
  <2> QED
    BY <2>9, <2>10, <2>11 DEF new
<1> QED
  BY <1>3, <1>4

\* The results of the system calls.
LEMMA Results ==
    ASSUME NEW k, NEW flag
    PROVE  /\ UpdateResult(k, flag) \in {"ok", "full", "exists", "not_found"}
           /\ UpdateResult(k, "any") \in {"ok", "full"}
           /\ flag = "noexist" => UpdateResult(k, flag) \in {"ok", "full", "exists"}
           /\ flag = "exist" => UpdateResult(k, flag) \in {"ok", "full", "not_found"}
           /\ DeleteResult(k) \in {"ok", "not_found"}
           /\ DeleteResult(k) = "ok" <=> k \in Present
  BY DEF UpdateResult, DeleteResult

-----------------------------------------------------------------------------
(***************************************************************************)
(* The inductive invariant: what a thread in the middle of a call may      *)
(* still rely on, expressed with what others have touched since it began.  *)
(***************************************************************************)

TypeInv ==
    /\ Wellformed(entries) /\ Len(entries) <= maxEntries
    /\ lru \in BOOLEAN
    /\ maxEntries \in Sizes
    /\ frozen \in BOOLEAN
    /\ call \in [Clients -> Calls]
    /\ \A c \in Clients : call[c].op \in Batches => call[c].done <= Len(call[c].list)
    /\ touched \in [Clients -> SUBSET Keys]

\* What insert and remove have read is still what the map holds.
OldIsCurrent(c) ==
    call[c].op \in {"insert", "remove"} /\ call[c].key \notin touched[c] =>
        call[c].old = LookupIn(entries, call[c].key)

\* The iteration of clear has passed no key: those in front of the last one it has
\* got, and those of the buckets in front, it has got as well.
NoneIsPassed(c) ==
    call[c].op = "clear" /\ call[c].got # << >> =>
        LET l == Last(call[c].got)
        IN  \A k \in KeysOf(entries) \ touched[c] :
                Bucket[k] < Bucket[l] \/ Ahead(entries, k, l) => k \in Range(call[c].got)

\* What clear has not yet removed is on the rest of its list.
RestIsListed(c) ==
    call[c].op = "clear_batch" =>
        \A k \in KeysOf(entries) \ touched[c] :
            \E i \in call[c].done + 1 .. Len(call[c].list) : call[c].list[i] = k

\* Undisturbed, an iteration gets the keys in the order of the map, each once, and
\* clear has exactly those left to remove that are in the map.
UndisturbedIsExact(c) ==
    touched[c] = {} =>
        /\ call[c].op \in {"clear", "len"} =>
               \A i \in DOMAIN call[c].got :
                   i \in DOMAIN entries /\ call[c].got[i] = entries[i].key
        /\ call[c].op = "clear_batch" =>
               /\ \A i, j \in DOMAIN call[c].list :
                      call[c].list[i] = call[c].list[j] => i = j
               /\ \A i \in DOMAIN call[c].list :
                      i > call[c].done => call[c].list[i] \in KeysOf(entries)

\* What a batch has done is still done, or was touched, or done again.
DoneIsDone(c) ==
    /\ call[c].op = "insert_batch" /\ ~ lru =>
           LET list == call[c].list
           IN  \A i \in 1 .. call[c].done :
                   \/ list[i].key \in touched[c]
                   \/ \E j \in i + 1 .. call[c].done : list[j].key = list[i].key
                   \/ Has(entries, list[i])
    /\ call[c].op \in {"remove_batch", "clear_batch"} =>
           \A i \in 1 .. call[c].done : call[c].list[i] \in KeysOf(entries) => call[c].list[i] \in touched[c]

CallInv(c) ==
    /\ OldIsCurrent(c) /\ NoneIsPassed(c) /\ RestIsListed(c)
    /\ UndisturbedIsExact(c) /\ DoneIsDone(c)

Inv == TypeInv /\ \A c \in Clients : CallInv(c)

-----------------------------------------------------------------------------
(***************************************************************************)
(* The kinds of calls.                                                     *)
(***************************************************************************)

Outcomes == Values \cup {None, "ok", "true", "false"} \cup Errors

LEMMA CallKinds ==
    ASSUME NEW x \in Calls
    PROVE  /\ x.op \in {"idle", "insert", "remove", "clear", "len"} \cup Batches
           /\ x.op = "insert" => x.key \in Keys /\ x.val \in Values /\ x.old \in Values \cup {None}
           /\ x.op = "remove" => x.key \in Keys /\ x.old \in Values
           /\ x.op \in {"clear", "len"} => x \in [op : {"clear", "len"}, got : Seq(Keys)]
           /\ x.op = "insert_batch" =>
                  x \in [op : {"insert_batch"}, list : Seq(Entry), done : Nat]
           /\ x.op \in {"remove_batch", "clear_batch"} =>
                  x \in [op : {"remove_batch", "clear_batch"}, list : Seq(Keys), done : Nat]
  BY DEF Calls, Batches

LEMMA NewCalls ==
    /\ \A r \in Outcomes : [op |-> "idle", result |-> r] \in Calls
    /\ \A k \in Keys, v \in Values, o \in Values \cup {None} :
           [op |-> "insert", key |-> k, val |-> v, old |-> o] \in Calls
    /\ \A k \in Keys, o \in Values : [op |-> "remove", key |-> k, old |-> o] \in Calls
    /\ \A op \in {"clear", "len"}, got \in Seq(Keys) : [op |-> op, got |-> got] \in Calls
    /\ \A list \in Seq(Entry), n \in Nat :
           [op |-> "insert_batch", list |-> list, done |-> n] \in Calls
    /\ \A op \in {"remove_batch", "clear_batch"}, list \in Seq(Keys), n \in Nat :
           [op |-> op, list |-> list, done |-> n] \in Calls
<1>1. \A r \in Outcomes : [op |-> "idle", result |-> r] \in Calls
  BY DEF Calls, Outcomes
<1>2. \A k \in Keys, v \in Values, o \in Values \cup {None} :
          [op |-> "insert", key |-> k, val |-> v, old |-> o] \in Calls
  BY DEF Calls
<1>3. \A k \in Keys, o \in Values : [op |-> "remove", key |-> k, old |-> o] \in Calls
  BY DEF Calls
<1>4. \A op \in {"clear", "len"}, got \in Seq(Keys) : [op |-> op, got |-> got] \in Calls
  BY DEF Calls
<1>5. \A list \in Seq(Entry), n \in Nat :
          [op |-> "insert_batch", list |-> list, done |-> n] \in Calls
  BY DEF Calls
<1>6. \A op \in {"remove_batch", "clear_batch"}, list \in Seq(Keys), n \in Nat :
          [op |-> op, list |-> list, done |-> n] \in Calls
  BY DEF Calls
<1> QED
  BY <1>1, <1>2, <1>3, <1>4, <1>5, <1>6

\* One more key of an iteration, one more item of a batch.
LEMMA OneMoreKey ==
    ASSUME NEW x \in [op : {"clear", "len"}, got : Seq(Keys)], NEW k \in Keys,
           NEW y, y = [x EXCEPT !.got = Append(@, k)]
    PROVE  /\ y \in Calls /\ y \in [op : {"clear", "len"}, got : Seq(Keys)]
           /\ y.op = x.op /\ y.got = Append(x.got, k)
<1>1. x.op \in {"clear", "len"} /\ x.got \in Seq(Keys) /\ x = [op |-> x.op, got |-> x.got]
  OBVIOUS
<1>2. Append(x.got, k) \in Seq(Keys)
  BY <1>1
<1> DEFINE more == Append(x.got, k)
<1>3. y = [x EXCEPT !.got = more]
  OBVIOUS
<1> HIDE DEF more
<1>4. /\ y \in [op : {"clear", "len"}, got : Seq(Keys)]
      /\ y.op = x.op /\ y.got = more
  BY <1>1, <1>2, <1>3 DEF more
<1> QED
  BY <1>4 DEF Calls, more

LEMMA OneMoreDone ==
    ASSUME NEW x \in Calls, x.op \in Batches, NEW y, y = [x EXCEPT !.done = @ + 1]
    PROVE  y \in Calls /\ y.op = x.op /\ y.list = x.list /\ x.done \in Nat /\ y.done = x.done + 1
<1>1. CASE x.op = "insert_batch"
  <2>1. x \in [op : {"insert_batch"}, list : Seq(Entry), done : Nat]
    BY <1>1, CallKinds
  <2>2. /\ y \in [op : {"insert_batch"}, list : Seq(Entry), done : Nat]
        /\ y.op = x.op /\ y.list = x.list /\ x.done \in Nat /\ y.done = x.done + 1
    BY <2>1
  <2> QED
    BY <2>2 DEF Calls
<1>2. CASE x.op \in {"remove_batch", "clear_batch"}
  <2>1. x \in [op : {"remove_batch", "clear_batch"}, list : Seq(Keys), done : Nat]
    BY <1>2, CallKinds
  <2>2. /\ y \in [op : {"remove_batch", "clear_batch"}, list : Seq(Keys), done : Nat]
        /\ y.op = x.op /\ y.list = x.list /\ x.done \in Nat /\ y.done = x.done + 1
    BY <2>1
  <2> QED
    BY <2>2 DEF Calls
<1> QED
  BY <1>1, <1>2 DEF Batches

-----------------------------------------------------------------------------
(***************************************************************************)
(* A step of another actor, as thread c sees it in the middle of a call.   *)
(***************************************************************************)

Harmless(c) ==
    /\ call'[c] = call[c] /\ lru' = lru
    /\ touched[c] \subseteq touched'[c]
    /\ \A e : e.key \notin touched'[c] => (Has(entries', e) <=> Has(entries, e))
    /\ \A a, b : a \notin touched'[c] /\ Ahead(entries', a, b) =>
                     Ahead(entries, a, b) \/ Bucket[a] < Bucket[b]
    /\ touched'[c] = {} => entries' = entries

LEMMA OthersAreHarmless ==
    ASSUME TypeInv, NEW c \in Clients, call[c].op # "idle", call'[c] = call[c], lru' = lru,
           NEW a, a # c, NEW ks, Observe(a, ks),
           \/ entries' = entries
           \/ frozen' = frozen /\ \E k \in ks : Changed(k)
    PROVE  Harmless(c)
<1> DEFINE hit == IF frozen' # frozen THEN Keys
                  ELSE IF entries' = entries THEN {}
                  ELSE ks \cup (Present \ Present')
<1>1. touched'[c] = touched[c] \cup hit
  BY DEF Observe
<1>2. CASE entries' = entries
  BY <1>1, <1>2 DEF Harmless
<1>3. CASE entries' # entries
  <2>1. PICK k \in ks : Changed(k)
    BY <1>3
  <2>2. hit = ks \cup (Present \ Present')
    BY <1>3
  <2> HIDE DEF hit
  <2>3. ASSUME NEW e, e.key \notin touched'[c], Has(entries, e)
        PROVE  Has(entries', e)
    <3>1. e.key \in Present /\ e.key # k /\ Wellformed(entries)
      BY <1>1, <2>2, <2>3, HasItsKey, PresentIs DEF TypeInv
    <3>2. e.key \in KeysOf(entries')
      BY <1>1, <2>2, <2>3, <3>1, PresentIs
    <3>3. PICK v \in Values : Has(entries', [key |-> e.key, val |-> v])
      BY <2>1, <3>2, HasItsKey DEF Changed
    <3> DEFINE d == [key |-> e.key, val |-> v]
    <3>4. d.key = e.key /\ Has(entries', d)
      BY <3>3
    <3> HIDE DEF d
    <3>5. Has(entries, d)
      BY <2>1, <3>1, <3>4 DEF Changed
    <3> QED
      BY <2>3, <3>1, <3>4, <3>5, OneEntryPerKey
  <2>4. \A e : e.key \notin touched'[c] => (Has(entries', e) <=> Has(entries, e))
    BY <1>1, <2>1, <2>2, <2>3 DEF Changed
  <2>5. \A x, y : x \notin touched'[c] /\ Ahead(entries', x, y) =>
                      Ahead(entries, x, y) \/ Bucket[x] < Bucket[y]
    BY <1>1, <2>1, <2>2 DEF Changed
  <2>6. k \in touched'[c]
    BY <1>1, <2>2
  <2> QED
    BY <1>1, <2>4, <2>5, <2>6 DEF Harmless
<1> QED
  BY <1>2, <1>3

\* The keys that are in the map and that nobody has touched.
LEMMA UntouchedStay ==
    ASSUME NEW c \in Clients, Wellformed(entries), Wellformed(entries'), Harmless(c)
    PROVE  \A k : k \notin touched'[c] =>
               /\ k \notin touched[c]
               /\ k \in KeysOf(entries') <=> k \in KeysOf(entries)
               /\ LookupIn(entries', k) = LookupIn(entries, k)
<1> SUFFICES ASSUME NEW k, k \notin touched'[c]
             PROVE  /\ k \notin touched[c]
                    /\ k \in KeysOf(entries') <=> k \in KeysOf(entries)
                    /\ LookupIn(entries', k) = LookupIn(entries, k)
  OBVIOUS
<1>1. \A v : Has(entries', [key |-> k, val |-> v]) <=> Has(entries, [key |-> k, val |-> v])
  BY DEF Harmless
<1>2. \A v : Has(entries, [key |-> k, val |-> v]) =>
                 k \in KeysOf(entries) /\ LookupIn(entries, k) = v
  BY LookupInIs
<1>3. \A v : Has(entries', [key |-> k, val |-> v]) =>
                 k \in KeysOf(entries') /\ LookupIn(entries', k) = v
  BY LookupInIs
<1>4. CASE k \in KeysOf(entries)
  <2>1. Has(entries, [key |-> k, val |-> LookupIn(entries, k)])
    BY <1>4, LookupInIs
  <2> QED
    BY <1>1, <1>3, <1>4, <2>1 DEF Harmless
<1>5. CASE k \notin KeysOf(entries)
  <2>1. k \notin KeysOf(entries')
    <3>1. k \in KeysOf(entries') => Has(entries', [key |-> k, val |-> LookupIn(entries', k)])
      BY LookupInIs
    <3> QED
      BY <1>1, <1>2, <1>5, <3>1
  <2> QED
    BY <1>5, <2>1, LookupInIs DEF Harmless
<1> QED
  BY <1>4, <1>5

LEMMA StillHolds ==
    ASSUME NEW c \in Clients, Wellformed(entries), Wellformed(entries'), Harmless(c), CallInv(c)
    PROVE  CallInv(c)'
<1>0. /\ call'[c] = call[c] /\ lru' = lru
      /\ \A k : k \notin touched'[c] => /\ k \notin touched[c]
                                        /\ k \in KeysOf(entries') <=> k \in KeysOf(entries)
                                        /\ LookupIn(entries', k) = LookupIn(entries, k)
  BY UntouchedStay DEF Harmless
<1>1. OldIsCurrent(c)'
  BY <1>0 DEF CallInv, OldIsCurrent
<1>2. NoneIsPassed(c)'
  <2>1. \A a, b : a \notin touched'[c] /\ Ahead(entries', a, b) =>
                      Ahead(entries, a, b) \/ Bucket[a] < Bucket[b]
    BY DEF Harmless
  <2> QED
    BY <1>0, <2>1 DEF CallInv, NoneIsPassed
<1>3. RestIsListed(c)'
  BY <1>0 DEF CallInv, RestIsListed
<1>4. UndisturbedIsExact(c)'
  <2>1. touched'[c] = {} => entries' = entries /\ touched[c] = {}
    BY DEF Harmless
  <2> QED
    BY <1>0, <2>1 DEF CallInv, UndisturbedIsExact
<1>5. DoneIsDone(c)'
  <2>1. \A e : e.key \notin touched'[c] => (Has(entries', e) <=> Has(entries, e))
    BY DEF Harmless
  <2> QED
    BY <1>0, <2>1 DEF CallInv, DoneIsDone
<1> QED
  BY <1>1, <1>2, <1>3, <1>4, <1>5 DEF CallInv

LEMMA IdleNeedsNothing ==
    ASSUME NEW c \in Clients, call[c].op = "idle"
    PROVE  CallInv(c)
  BY DEF CallInv, OldIsCurrent, NoneIsPassed, RestIsListed, UndisturbedIsExact, DoneIsDone

-----------------------------------------------------------------------------
(***************************************************************************)
(* A step of thread c itself.                                              *)
(***************************************************************************)

LEMMA TouchedIs ==
    ASSUME TypeInv, NEW a, NEW ks, ks \subseteq Keys, Observe(a, ks)
    PROVE  /\ touched' \in [Clients -> SUBSET Keys]
           /\ \A c \in Clients : c = a /\ call'[c].op # "idle" => touched'[c] = touched[c]
<1>1. Present \subseteq Keys
  BY HasItsKey, PresentIs DEF TypeInv
<1>2. /\ DOMAIN touched' = Clients
      /\ touched' = [d \in Clients |-> touched'[d]]
  BY DEF Observe
<1>3. ASSUME NEW d \in Clients
      PROVE  touched'[d] \subseteq Keys
  BY <1>1 DEF Observe, TypeInv
<1>4. touched' \in [Clients -> SUBSET Keys]
  BY <1>2, <1>3
<1>5. \A c \in Clients : c = a /\ call'[c].op # "idle" => touched'[c] = touched[c]
  BY DEF Observe
<1> QED
  BY <1>4, <1>5

\* It is enough to look at the call of c.
LEMMA OwnStep ==
    ASSUME Inv, NEW c \in Clients,
           NEW s \in Calls, s.op \in Batches => s.done <= Len(s.list), Goto(c, s),
           NEW ks, ks \subseteq Keys, Observe(c, ks),
           entries' = entries \/ \E k \in ks : Changed(k),
           call'[c] = s /\ (s.op # "idle" => touched'[c] = touched[c]) => CallInv(c)'
    PROVE  Inv'
<1>0. TypeInv
  BY DEF Inv
<1>1. /\ call' = [call EXCEPT ![c] = s] /\ lru' = lru
      /\ maxEntries' = maxEntries /\ frozen' = frozen
  BY DEF Goto
<1>2. /\ call' \in [Clients -> Calls] /\ call'[c] = s
      /\ \A d \in Clients : d # c => call'[d] = call[d]
  BY <1>0, <1>1 DEF TypeInv
<1>3. touched' \in [Clients -> SUBSET Keys] /\ (s.op # "idle" => touched'[c] = touched[c])
  BY <1>0, <1>2, TouchedIs
<1>4. Wellformed(entries') /\ Len(entries') <= maxEntries
  BY <1>0 DEF Changed, TypeInv
<1>5. TypeInv'
  BY <1>0, <1>1, <1>2, <1>3, <1>4 DEF TypeInv
<1>6. ASSUME NEW d \in Clients
      PROVE  CallInv(d)'
  <2>1. CASE d = c
    BY <1>2, <1>3, <2>1
  <2>2. CASE d # c /\ call[d].op = "idle"
    <3>1. call'[d].op = "idle"
      BY <1>2, <2>2
    <3> QED
      BY <3>1 DEF CallInv, OldIsCurrent, NoneIsPassed, RestIsListed, UndisturbedIsExact, DoneIsDone
  <2>3. CASE d # c /\ call[d].op # "idle"
    <3>1. Harmless(d)
      BY <1>0, <1>1, <1>2, <2>3, OthersAreHarmless
    <3> QED
      BY <1>0, <1>4, <3>1, StillHolds DEF Inv, TypeInv
  <2> QED
    BY <2>1, <2>2, <2>3
<1> QED
  BY <1>5, <1>6 DEF Inv

LEMMA WriteIs ==
    ASSUME TypeInv, NEW k \in Keys, NEW v \in Values, NEW flag, Write(k, v, flag)
    PROVE  /\ entries' = entries \/ Changed(k)
           /\ WriteResult(k, flag) = "ok" => Has(entries', [key |-> k, val |-> v])
           /\ ~ lru => \A e : e.key # k /\ Has(entries, e) => Has(entries', e)
           /\ WriteResult(k, "any") \in {"ok", "full", "denied"}
           /\ flag = "noexist" => WriteResult(k, flag) \in {"ok", "full", "denied", "exists"}
           /\ flag = "exist" => WriteResult(k, flag) \in {"ok", "full", "denied", "not_found"}
<1>1. Wellformed(entries) /\ maxEntries \in Nat /\ Len(entries) <= maxEntries
  BY SizesAssumption DEF TypeInv
<1>2. CASE frozen
  BY <1>2 DEF Write, WriteResult
<1>3. CASE ~ frozen
  <2>1. Update(k, v, flag) /\ \A f : WriteResult(k, f) = UpdateResult(k, f)
    BY <1>3 DEF Write, WriteResult
  <2> QED
    BY <1>1, <2>1, UpdateIs, Results
<1> QED
  BY <1>2, <1>3

LEMMA EraseIs ==
    ASSUME TypeInv, NEW k \in Keys, Erase(k)
    PROVE  /\ entries' = entries \/ Changed(k)
           /\ KeysOf(entries') \subseteq KeysOf(entries)
           /\ ~ frozen => KeysOf(entries') = KeysOf(entries) \ {k}
           /\ EraseResult(k) \in {"ok", "denied", "not_found"}
           /\ EraseResult(k) = "denied" => frozen
           /\ EraseResult(k) = "ok" => k \in KeysOf(entries) /\ ~ frozen
           /\ EraseResult(k) = "not_found" => k \notin KeysOf(entries)
<1>1. Wellformed(entries) /\ maxEntries \in Nat /\ Len(entries) <= maxEntries
  BY SizesAssumption DEF TypeInv
<1>2. CASE frozen
  BY <1>2 DEF Erase, EraseResult
<1>3. CASE ~ frozen
  <2>1. Delete(k) /\ EraseResult(k) = DeleteResult(k)
    BY <1>3 DEF Erase, EraseResult
  <2>2. Changed(k) /\ KeysOf(entries') = KeysOf(entries) \ {k}
    BY <1>1, <2>1, DeleteIs, PresentIs
  <2> QED
    BY <1>3, <2>1, <2>2, Results, PresentIs
<1> QED
  BY <1>2, <1>3

LEMMA ReturnStep ==
    ASSUME Inv, NEW c \in Clients, NEW r \in Outcomes, Return(c, r),
           NEW ks, ks \subseteq Keys, Observe(c, ks),
           entries' = entries \/ \E k \in ks : Changed(k)
    PROVE  Inv'
<1> DEFINE s == [op |-> "idle", result |-> r]
<1>1. s \in Calls /\ s.op = "idle" /\ Goto(c, s)
  BY NewCalls DEF Return
<1> HIDE DEF s
<1>2. call'[c] = s => CallInv(c)'
  BY <1>1 DEF CallInv, OldIsCurrent, NoneIsPassed, RestIsListed, UndisturbedIsExact, DoneIsDone
<1> QED
  BY <1>1, <1>2, OwnStep DEF Batches

LEMMA SingleCallStep ==
    ASSUME Inv, NEW c \in Clients, SingleCall(c)
    PROVE  Inv'
<1>0. TypeInv
  BY DEF Inv
<1>1. ASSUME NEW k \in Keys, NEW v \in Values, UpdateCall(c, k, v)
      PROVE  Inv'
  <2>1. WriteResult(k, "any") \in Outcomes /\ (entries' = entries \/ Changed(k))
    BY <1>0, <1>1, WriteIs DEF UpdateCall, Outcomes, Errors
  <2> QED
    BY <1>1, <2>1, ReturnStep DEF UpdateCall
<1>2. ASSUME NEW k \in Keys, NEW v \in Values, InsertNew(c, k, v)
      PROVE  Inv'
  <2>1. /\ Expected(WriteResult(k, "noexist"), "exists") \in Outcomes
        /\ entries' = entries \/ Changed(k)
    BY <1>0, <1>2, WriteIs DEF InsertNew, Outcomes, Errors, Expected
  <2> QED
    BY <1>2, <2>1, ReturnStep DEF InsertNew
<1>3. ASSUME NEW k \in Keys, NEW v \in Values, Replace(c, k, v)
      PROVE  Inv'
  <2>1. /\ Expected(WriteResult(k, "exist"), "not_found") \in Outcomes
        /\ entries' = entries \/ Changed(k)
    BY <1>0, <1>3, WriteIs DEF Replace, Outcomes, Errors, Expected
  <2> QED
    BY <1>3, <2>1, ReturnStep DEF Replace
<1>4. ASSUME NEW k \in Keys, DeleteCall(c, k)
      PROVE  Inv'
  <2>1. EraseResult(k) \in Outcomes /\ (entries' = entries \/ Changed(k))
    BY <1>0, <1>4, EraseIs DEF DeleteCall, Outcomes, Errors
  <2> QED
    BY <1>4, <2>1, ReturnStep DEF DeleteCall
<1> QED
  BY <1>1, <1>2, <1>3, <1>4 DEF SingleCall

LEMMA InsertGetStep ==
    ASSUME Inv, NEW c \in Clients, NEW k \in Keys, NEW v \in Values, InsertGet(c, k, v)
    PROVE  Inv'
<1> DEFINE s == [op |-> "insert", key |-> k, val |-> v, old |-> Lookup(k)]
<1>1. Wellformed(entries) /\ entries' = entries /\ Observe(c, {}) /\ Goto(c, s)
  BY DEF Inv, TypeInv, InsertGet, ReadOnly
<1>2. Lookup(k) \in Values \cup {None} /\ Lookup(k) = LookupIn(entries, k)
  BY <1>1, LookupIs, LookupInIs
<1>3. s \in Calls /\ s.op = "insert" /\ s.key = k /\ s.old = LookupIn(entries, k)
  BY <1>2, NewCalls
<1> HIDE DEF s
<1>4. call'[c] = s => CallInv(c)'
  BY <1>1, <1>3
  DEF CallInv, OldIsCurrent, NoneIsPassed, RestIsListed, UndisturbedIsExact, DoneIsDone
<1> QED
  BY <1>1, <1>3, <1>4, OwnStep DEF Batches

LEMMA InsertUpdateStep ==
    ASSUME Inv, NEW c \in Clients, InsertUpdate(c)
    PROVE  Inv'
<1> DEFINE k == call[c].key
           r == WriteResult(k, "any")
<1>0. /\ TypeInv
      /\ k \in Keys /\ call[c].val \in Values /\ call[c].old \in Values \cup {None}
  BY CallKinds DEF Inv, TypeInv, InsertUpdate
<1>1. /\ Write(k, call[c].val, "any") /\ Observe(c, {k})
      /\ Return(c, IF r = "ok" THEN call[c].old ELSE r)
  BY DEF InsertUpdate
<1>2. (IF r = "ok" THEN call[c].old ELSE r) \in Outcomes /\ (entries' = entries \/ Changed(k))
  BY <1>0, <1>1, WriteIs DEF Outcomes, Errors
<1> QED
  BY <1>0, <1>1, <1>2, ReturnStep

LEMMA RemoveGetStep ==
    ASSUME Inv, NEW c \in Clients, NEW k \in Keys, RemoveGet(c, k)
    PROVE  Inv'
<1>1. Wellformed(entries) /\ entries' = entries /\ Observe(c, {})
  BY DEF Inv, TypeInv, RemoveGet, ReadOnly
<1>2. CASE k \in Present
  <2> DEFINE s == [op |-> "remove", key |-> k, old |-> Lookup(k)]
  <2>1. Goto(c, s)
    BY <1>2 DEF RemoveGet
  <2>2. Lookup(k) \in Values /\ Lookup(k) = LookupIn(entries, k)
    BY <1>1, <1>2, LookupIs, LookupInIs, PresentIs
  <2>3. s \in Calls /\ s.op = "remove" /\ s.key = k /\ s.old = LookupIn(entries, k)
    BY <2>2, NewCalls
  <2> HIDE DEF s
  <2>4. call'[c] = s => CallInv(c)'
    BY <1>1, <2>3
    DEF CallInv, OldIsCurrent, NoneIsPassed, RestIsListed, UndisturbedIsExact, DoneIsDone
  <2> QED
    BY <1>1, <2>1, <2>3, <2>4, OwnStep DEF Batches
<1>3. CASE k \notin Present
  <2>1. Return(c, None) /\ None \in Outcomes
    BY <1>3 DEF RemoveGet, Outcomes
  <2> QED
    BY <1>1, <2>1, ReturnStep
<1> QED
  BY <1>2, <1>3

LEMMA RemoveDeleteStep ==
    ASSUME Inv, NEW c \in Clients, RemoveDelete(c)
    PROVE  Inv'
<1> DEFINE k == call[c].key
           r == EraseResult(k)
<1>0. TypeInv /\ k \in Keys /\ call[c].old \in Values
  BY CallKinds DEF Inv, TypeInv, RemoveDelete
<1>1. /\ Erase(k) /\ Observe(c, {k})
      /\ Return(c, IF r = "ok" THEN call[c].old ELSE r)
  BY DEF RemoveDelete
<1>2. (IF r = "ok" THEN call[c].old ELSE r) \in Outcomes /\ (entries' = entries \/ Changed(k))
  BY <1>0, <1>1, EraseIs DEF Outcomes, Errors
<1> QED
  BY <1>0, <1>1, <1>2, ReturnStep

\* A reading step that does not end the call.
LEMMA ReadOnlyStep ==
    ASSUME Inv, NEW c \in Clients,
           NEW s \in Calls, s.op \in Batches => s.done <= Len(s.list), Goto(c, s), ReadOnly(c),
           entries' = entries /\ call'[c] = s /\ (s.op # "idle" => touched'[c] = touched[c])
               => CallInv(c)'
    PROVE  Inv'
  BY OwnStep DEF ReadOnly

LEMMA IterateStep ==
    ASSUME Inv, NEW c \in Clients, NEW op \in {"clear", "len"}, Iterate(c, op)
    PROVE  Inv'
<1> DEFINE s == [op |-> op, got |-> << >>]
<1>1. << >> \in Seq(Keys) /\ DOMAIN << >> = {}
  OBVIOUS
<1>2. s \in Calls /\ s.op = op /\ s.got = << >>
  BY <1>1, NewCalls
<1>3. Goto(c, s) /\ ReadOnly(c)
  BY DEF Iterate
<1> HIDE DEF s
<1>4. call'[c] = s => CallInv(c)'
  BY <1>1, <1>2
  DEF CallInv, OldIsCurrent, NoneIsPassed, RestIsListed, UndisturbedIsExact, DoneIsDone
<1> QED
  BY <1>2, <1>3, <1>4, ReadOnlyStep DEF Batches

LEMMA LastIs ==
    ASSUME NEW ks \in Seq(Keys), ks # << >>
    PROVE  /\ Len(ks) \in DOMAIN ks /\ ks[Len(ks)] = Last(ks)
           /\ Last(ks) \in Keys /\ Last(ks) \in Range(ks)
<1>1. Len(ks) \in 1 .. Len(ks) /\ DOMAIN ks = 1 .. Len(ks) /\ ks[Len(ks)] \in Keys
  OBVIOUS
<1> QED
  BY <1>1 DEF Last, Range

LEMMA AppendIs ==
    ASSUME NEW ks \in Seq(Keys), NEW x \in Keys, NEW more, more = Append(ks, x)
    PROVE  /\ more \in Seq(Keys) /\ Last(more) = x
           /\ Range(ks) \subseteq Range(more) /\ x \in Range(more)
           /\ Len(more) = Len(ks) + 1 /\ Len(ks) \in Nat
           /\ \A i \in DOMAIN ks : more[i] = ks[i]
           /\ more[Len(ks) + 1] = x
           /\ \A i \in DOMAIN more : i \in DOMAIN ks \/ i = Len(ks) + 1
<1>1. /\ more \in Seq(Keys) /\ Len(more) = Len(ks) + 1 /\ Len(ks) \in Nat
      /\ DOMAIN ks = 1 .. Len(ks) /\ DOMAIN more = 1 .. Len(ks) + 1
      /\ \A i \in 1 .. Len(ks) : more[i] = ks[i]
      /\ more[Len(ks) + 1] = x
  OBVIOUS
<1>2. more # << >> /\ Last(more) = x
  BY <1>1 DEF Last
<1>3. Range(ks) \subseteq Range(more) /\ x \in Range(more)
  BY <1>1 DEF Range
<1> QED
  BY <1>1, <1>2, <1>3

\* Where the successor is looked for.
LEMMA NextIs ==
    ASSUME Wellformed(entries), NEW got \in Seq(Keys)
    PROVE  \/ /\ got = << >> \/ Last(got) \notin KeysOf(entries)
              /\ NextIndex(got) = 1
           \/ /\ got # << >>
              /\ \E i \in 1 .. Len(entries) :
                     /\ entries[i].key = Last(got) /\ NextIndex(got) = i + 1
                     /\ \A j \in 1 .. Len(entries) : entries[j].key = Last(got) => j = i
<1>1. CASE got = << >> \/ Last(got) \notin KeysOf(entries)
  BY <1>1, PresentIs DEF NextIndex
<1>2. CASE got # << >> /\ Last(got) \in KeysOf(entries)
  <2>1. Last(got) \in Present /\ NextIndex(got) = IndexOf(Last(got)) + 1
    BY <1>2, PresentIs DEF NextIndex
  <2> QED
    BY <1>2, <2>1, IndexIs
<1> QED
  BY <1>1, <1>2

\* Every untouched key in front of the next one has been got.
LEMMA NextPassesNone ==
    ASSUME TypeInv, NEW c \in Clients, NoneIsPassed(c), call[c].op = "clear",
           NEW got, got = call[c].got, got \in Seq(Keys),
           NEW a \in KeysOf(entries) \ touched[c], NEW i \in 1 .. Len(entries),
           entries[i].key = a, i < NextIndex(got)
    PROVE  a \in Range(got)
<1>0. Wellformed(entries)
  BY DEF TypeInv
<1>1. CASE NextIndex(got) = 1
  BY <1>1
<1>2. CASE NextIndex(got) # 1
  <2>1. PICK j \in 1 .. Len(entries) :
            entries[j].key = Last(got) /\ NextIndex(got) = j + 1 /\ got # << >>
    BY <1>0, <1>2, NextIs
  <2>2. CASE i = j
    BY <2>1, <2>2, LastIs
  <2>3. CASE i # j
    <3>1. i < j
      BY <2>1, <2>3
    <3>2. Ahead(entries, a, Last(got))
      BY <1>0, <2>1, <3>1, WellformedIs DEF Ahead
    <3> QED
      BY <2>1, <3>2 DEF NoneIsPassed
  <2> QED
    BY <2>2, <2>3
<1> QED
  BY <1>1, <1>2

LEMMA UndisturbedNext ==
    ASSUME TypeInv, NEW c \in Clients, UndisturbedIsExact(c), touched[c] = {},
           call[c].op \in {"clear", "len"}, call[c].got \in Seq(Keys)
    PROVE  NextIndex(call[c].got) = Len(call[c].got) + 1
<1> DEFINE got == call[c].got
<1>0. Wellformed(entries)
  BY DEF TypeInv
<1>1. CASE got = << >>
  BY <1>1 DEF NextIndex
<1>2. CASE got # << >>
  <2>1. Len(got) \in DOMAIN got /\ got[Len(got)] = Last(got)
    BY <1>2, LastIs
  <2>2. Len(got) \in DOMAIN entries /\ entries[Len(got)].key = Last(got)
    BY <2>1 DEF UndisturbedIsExact
  <2>3. Last(got) \in KeysOf(entries) /\ Len(got) \in 1 .. Len(entries)
    BY <1>0, <2>2, WellformedIs DEF KeysOf
  <2> QED
    BY <1>0, <1>2, <2>2, <2>3, NextIs
<1> QED
  BY <1>1, <1>2

LEMMA NextKeyStep ==
    ASSUME Inv, NEW c \in Clients, NextKey(c)
    PROVE  Inv'
<1> DEFINE got == call[c].got
           n == NextIndex(got)
           k == entries[n].key
           s == [call[c] EXCEPT !.got = Append(@, k)]
<1>0. /\ TypeInv /\ Wellformed(entries) /\ CallInv(c)
      /\ call[c] \in Calls /\ call[c].op \in {"clear", "len"}
      /\ n \in 1 .. Len(entries) /\ k \in Keys
      /\ Goto(c, s) /\ ReadOnly(c)
  <2>1. TypeInv /\ Wellformed(entries) /\ CallInv(c) /\ call[c] \in Calls
    BY DEF Inv, TypeInv
  <2>2. call[c].op \in {"clear", "len"} /\ n \in DOMAIN entries /\ ReadOnly(c)
    BY DEF NextKey
  <2>3. Goto(c, s)
    BY DEF NextKey
  <2> QED
    BY <2>1, <2>2, <2>3, WellformedIs
<1>1. call[c] \in [op : {"clear", "len"}, got : Seq(Keys)] /\ got \in Seq(Keys)
  <2>1. call[c] \in [op : {"clear", "len"}, got : Seq(Keys)]
    BY <1>0, CallKinds
  <2> QED
    BY <2>1
<1> HIDE DEF n
<1>2. s \in Calls /\ s.op = call[c].op /\ s.got = Append(got, k)
  BY <1>0, <1>1, OneMoreKey
<1> HIDE DEF s, k, got
<1>3. /\ Last(s.got) = k /\ Range(got) \subseteq Range(s.got)
      /\ Len(got) \in Nat /\ s.got[Len(got) + 1] = k
      /\ \A i \in DOMAIN got : s.got[i] = got[i]
      /\ \A i \in DOMAIN s.got : i \in DOMAIN got \/ i = Len(got) + 1
  <2>1. PICK more : more = s.got /\ more = Append(got, k)
    BY <1>2
  <2>2. got \in Seq(Keys) /\ k \in Keys
    BY <1>0, <1>1
  <2>3. Last(more) = k
    BY <2>1, <2>2 DEF Last
  <2>4. Range(got) \subseteq Range(more)
    BY <2>1, <2>2, AppendIs
  <2>5. Len(got) \in Nat /\ more[Len(got) + 1] = k
    BY <2>1, <2>2, AppendIs
  <2>6. \A i \in DOMAIN got : more[i] = got[i]
    BY <2>1, <2>2, AppendIs
  <2>7. \A i \in DOMAIN more : i \in DOMAIN got \/ i = Len(got) + 1
    BY <2>1, <2>2, AppendIs
  <2> QED
    BY <2>1, <2>3, <2>4, <2>5, <2>6, <2>7
<1>4. ASSUME entries' = entries, call'[c] = s, touched'[c] = touched[c]
      PROVE  CallInv(c)'
  <2>0. call'[c].op = call[c].op /\ call'[c].got = s.got
    BY <1>2, <1>4
  <2>1. OldIsCurrent(c)' /\ RestIsListed(c)' /\ DoneIsDone(c)'
    BY <1>0, <2>0 DEF OldIsCurrent, RestIsListed, DoneIsDone
  <2>2. NoneIsPassed(c)'
    <3>1. SUFFICES ASSUME call[c].op = "clear", NEW a \in KeysOf(entries) \ touched[c],
                          Bucket[a] < Bucket[k] \/ Ahead(entries, a, k)
                   PROVE  a \in Range(s.got)
      BY <1>4, <1>3, <2>0 DEF NoneIsPassed
    <3>2. PICK i \in 1 .. Len(entries) : entries[i].key = a /\ i < n
      <4>1. CASE Ahead(entries, a, k)
        <5>1. PICK i, j \in 1 .. Len(entries) : i < j /\ entries[i].key = a /\ entries[j].key = k
          BY <1>0, <4>1, WellformedIs DEF Ahead
        <5>2. j = n
          BY <1>0, <5>1, WellformedIs DEF Wellformed, k
        <5> QED
          BY <5>1, <5>2
      <4>2. CASE Bucket[a] < Bucket[k]
        <5>1. PICK i \in 1 .. Len(entries) : entries[i].key = a
          BY <1>0, WellformedIs DEF KeysOf
        <5>2. Bucket[a] \in Nat /\ Bucket[k] \in Nat
          BY <1>0, <5>1, WellformedIs DEF k
        <5>3. n < i => Bucket[k] <= Bucket[a]
          BY <1>0, <5>1, WellformedIs DEF Wellformed, k
        <5>4. n # i
          BY <4>2, <5>1, <5>2 DEF k
        <5> QED
          BY <1>0, <4>2, <5>1, <5>2, <5>3, <5>4
      <4> QED
        BY <3>1, <4>1, <4>2
    <3>3. a \in Range(got)
      BY <1>0, <1>1, <3>1, <3>2, NextPassesNone DEF CallInv, got, n
    <3> QED
      BY <1>3, <3>3
  <2>3. UndisturbedIsExact(c)'
    <3>1. SUFFICES ASSUME touched[c] = {}, NEW i \in DOMAIN s.got
                   PROVE  i \in DOMAIN entries /\ s.got[i] = entries[i].key
      BY <1>0, <1>2, <1>4, <2>0 DEF UndisturbedIsExact
    <3>2. n = Len(got) + 1
      BY <1>0, <1>1, <3>1, UndisturbedNext DEF CallInv, n, got
    <3>3. CASE i \in DOMAIN got
      BY <1>0, <1>3, <3>1, <3>3 DEF CallInv, UndisturbedIsExact, got
    <3>4. CASE i = Len(got) + 1
      BY <1>0, <1>3, <3>2, <3>4, WellformedIs DEF k
    <3> QED
      BY <1>3, <3>3, <3>4
  <2> QED
    BY <2>1, <2>2, <2>3 DEF CallInv
<1> QED
  BY <1>0, <1>2, <1>4, ReadOnlyStep DEF Batches

LEMMA NoNextKeyStep ==
    ASSUME Inv, NEW c \in Clients, NoNextKey(c)
    PROVE  Inv'
<1> DEFINE got == call[c].got
           s == [op |-> "clear_batch", list |-> got, done |-> 0]
<1>0. /\ TypeInv /\ Wellformed(entries) /\ CallInv(c) /\ call[c] \in Calls
      /\ call[c].op \in {"clear", "len"}
      /\ NextIndex(got) \notin 1 .. Len(entries) /\ ReadOnly(c)
  <2>1. TypeInv /\ Wellformed(entries) /\ CallInv(c) /\ call[c] \in Calls
    BY DEF Inv, TypeInv
  <2>2. /\ call[c].op \in {"clear", "len"} /\ ReadOnly(c)
        /\ NextIndex(got) \notin DOMAIN entries
    BY DEF NoNextKey
  <2> QED
    BY <2>1, <2>2, WellformedIs
<1>1. got \in Seq(Keys)
  <2>1. call[c] \in [op : {"clear", "len"}, got : Seq(Keys)]
    BY <1>0, CallKinds
  <2> QED
    BY <2>1
<1>2. CASE call[c].op = "len" \/ got = << >>
  <2>1. Return(c, "ok") /\ "ok" \in Outcomes
    BY <1>2 DEF NoNextKey, Outcomes
  <2> QED
    BY <1>0, <2>1, ReturnStep DEF ReadOnly
<1>3. CASE call[c].op = "clear" /\ got # << >>
  <2>1. Goto(c, s)
    BY <1>3 DEF NoNextKey
  <2>2. s \in Calls /\ s.op = "clear_batch" /\ s.list = got /\ s.done = 0
    BY <1>1, NewCalls
  <2> HIDE DEF s
  <2>3. ASSUME NEW a \in KeysOf(entries) \ touched[c]
        PROVE  \E i \in 1 .. Len(got) : got[i] = a
    <3>1. PICK i \in 1 .. Len(entries) : entries[i].key = a
      BY <1>0, WellformedIs DEF KeysOf
    <3>2. i < NextIndex(got)
      <4>1. NextIndex(got) \in Nat /\ NextIndex(got) > 0 /\ Len(entries) \in Nat
        BY <1>0, <1>1, NextIs, WellformedIs
      <4> QED
        BY <1>0, <3>1, <4>1
    <3>3. a \in Range(got)
      BY <1>0, <1>1, <1>3, <3>1, <3>2, NextPassesNone DEF CallInv
    <3> QED
      BY <1>1, <3>3 DEF Range
  <2>4. ASSUME entries' = entries, call'[c] = s, touched'[c] = touched[c]
        PROVE  CallInv(c)'
    <3>1. OldIsCurrent(c)' /\ NoneIsPassed(c)' /\ DoneIsDone(c)'
      BY <2>2, <2>4 DEF OldIsCurrent, NoneIsPassed, DoneIsDone
    <3>2. RestIsListed(c)'
      BY <2>2, <2>3, <2>4 DEF RestIsListed
    <3>3. UndisturbedIsExact(c)'
      <4>1. ASSUME touched[c] = {}, NEW i \in DOMAIN got
            PROVE  i \in DOMAIN entries /\ got[i] = entries[i].key /\ got[i] \in KeysOf(entries)
        BY <1>0, <4>1 DEF CallInv, UndisturbedIsExact, KeysOf
      <4>2. ASSUME touched[c] = {}, NEW i \in DOMAIN got, NEW j \in DOMAIN got, got[i] = got[j]
            PROVE  i = j
        BY <1>0, <4>1, <4>2 DEF Wellformed
      <4> QED
        BY <2>2, <2>4, <4>1, <4>2 DEF UndisturbedIsExact
    <3> QED
      BY <3>1, <3>2, <3>3 DEF CallInv
  <2> QED
    BY <1>0, <1>1, <2>1, <2>2, <2>4, ReadOnlyStep
<1> QED
  BY <1>0, <1>2, <1>3

LEMMA ListsAre ==
    ASSUME NEW S, NEW list \in Lists(S)
    PROVE  list \in Seq(S)
<1>1. PICK n \in 0 .. MaxBatch : list \in [1 .. n -> S]
  BY DEF Lists
<1>2. n \in Nat
  BY BoundsAssumption
<1> QED
  BY <1>1, <1>2

LEMMA BatchStep ==
    ASSUME Inv, NEW c \in Clients, NEW op, NEW list, Batch(c, op, list),
           \/ op = "insert_batch" /\ list \in Lists(Entry)
           \/ op = "remove_batch" /\ list \in Lists(Keys)
    PROVE  Inv'
<1>1. ReadOnly(c)
  BY DEF Batch
<1>2. CASE list = << >>
  <2>1. Return(c, "ok") /\ "ok" \in Outcomes
    BY <1>2 DEF Batch, Outcomes
  <2> QED
    BY <1>1, <2>1, ReturnStep DEF ReadOnly
<1>3. CASE list # << >>
  <2> DEFINE s == [op |-> op, list |-> list, done |-> 0]
  <2>1. Goto(c, s)
    BY <1>3 DEF Batch
  <2>2. s \in Calls /\ Len(list) \in Nat
    <3>1. CASE op = "insert_batch" /\ list \in Lists(Entry)
      <4>1. list \in Seq(Entry)
        BY <3>1, ListsAre
      <4> QED
        BY <3>1, <4>1, NewCalls
    <3>2. CASE op = "remove_batch" /\ list \in Lists(Keys)
      <4>1. list \in Seq(Keys)
        BY <3>2, ListsAre
      <4> QED
        BY <3>2, <4>1, NewCalls
    <3> QED
      BY <3>1, <3>2
  <2>3. s.op = op /\ op \in {"insert_batch", "remove_batch"} /\ s.list = list /\ s.done = 0
    OBVIOUS
  <2> HIDE DEF s
  <2>4. call'[c] = s => CallInv(c)'
    BY <2>3
    DEF CallInv, OldIsCurrent, NoneIsPassed, RestIsListed, UndisturbedIsExact, DoneIsDone
  <2> QED
    BY <1>1, <2>1, <2>2, <2>3, <2>4, ReadOnlyStep
<1> QED
  BY <1>2, <1>3

\* What is known of a batch that is not over.
LEMMA NextItem ==
    ASSUME TypeInv, NEW c \in Clients, call[c].op \in Batches, ~ AllDone(c)
    PROVE  /\ call[c] \in Calls /\ call[c].done \in Nat /\ Len(call[c].list) \in Nat
           /\ call[c].done + 1 \in 1 .. Len(call[c].list)
           /\ DOMAIN call[c].list = 1 .. Len(call[c].list)
           /\ call[c].op = "insert_batch" => \A i \in 1 .. Len(call[c].list) : call[c].list[i] \in Entry
           /\ call[c].op # "insert_batch" => \A i \in 1 .. Len(call[c].list) : call[c].list[i] \in Keys
<1>0. call[c] \in Calls /\ call[c].done <= Len(call[c].list) /\ call[c].done # Len(call[c].list)
  BY DEF TypeInv, AllDone
<1>1. CASE call[c].op = "insert_batch"
  <2>1. call[c] \in [op : {"insert_batch"}, list : Seq(Entry), done : Nat]
    BY <1>0, <1>1, CallKinds
  <2>2. call[c].list \in Seq(Entry) /\ call[c].done \in Nat
    BY <2>1
  <2> QED
    BY <1>0, <1>1, <2>2
<1>2. CASE call[c].op # "insert_batch"
  <2>1. call[c] \in [op : {"remove_batch", "clear_batch"}, list : Seq(Keys), done : Nat]
    BY <1>0, <1>2, CallKinds DEF Batches
  <2>2. call[c].list \in Seq(Keys) /\ call[c].done \in Nat
    BY <2>1
  <2> QED
    BY <1>0, <1>2, <2>2
<1> QED
  BY <1>1, <1>2

LEMMA InsertNextStep ==
    ASSUME Inv, NEW c \in Clients, InsertNext(c)
    PROVE  Inv'
<1> DEFINE list == call[c].list
           n == call[c].done + 1
           e == list[n]
           r == WriteResult(e.key, "any")
           s == [call[c] EXCEPT !.done = @ + 1]
<1>0. TypeInv /\ CallInv(c) /\ call[c].op = "insert_batch" /\ call[c].op \in Batches /\ ~ AllDone(c)
  BY DEF Inv, InsertNext, Batches
<1>1. /\ call[c] \in Calls /\ n \in 1 .. Len(list) /\ Len(list) \in Nat /\ call[c].done \in Nat
      /\ e \in Entry /\ \A i \in 1 .. Len(list) : list[i] \in Entry
  BY <1>0, NextItem
<1>2. /\ Write(e.key, e.val, "any") /\ AfterItem(c, r) /\ Observe(c, {e.key})
  BY DEF InsertNext
<1>3. e.key \in Keys /\ e.val \in Values /\ e = [key |-> e.key, val |-> e.val]
  BY <1>1, EntryIs
<1>4. /\ entries' = entries \/ Changed(e.key)
      /\ r = "ok" => Has(entries', e)
      /\ ~ lru => \A x : x.key # e.key /\ Has(entries, x) => Has(entries', x)
      /\ r \in {"ok", "full", "denied"}
  BY <1>0, <1>2, <1>3, WriteIs
<1>5. CASE r # "ok"
  <2>1. Return(c, r) /\ r \in Outcomes
    BY <1>2, <1>4, <1>5 DEF AfterItem, Outcomes, Errors
  <2> QED
    BY <1>2, <1>3, <1>4, <2>1, ReturnStep
<1>6. CASE r = "ok"
  <2>1. Goto(c, s)
    BY <1>2, <1>6 DEF AfterItem
  <2>2. s \in Calls /\ s.op = call[c].op /\ s.list = list /\ s.done = n
    BY <1>0, <1>1, OneMoreDone
  <2> HIDE DEF s, e, r
  <2>3. ASSUME call'[c] = s, touched'[c] = touched[c]
        PROVE  CallInv(c)'
    <3>0. /\ call'[c].op = "insert_batch" /\ call'[c].list = list /\ call'[c].done = n
          /\ lru' = lru
      BY <1>0, <2>1, <2>2, <2>3 DEF Goto
    <3>1. OldIsCurrent(c)' /\ NoneIsPassed(c)' /\ RestIsListed(c)' /\ UndisturbedIsExact(c)'
      BY <3>0 DEF OldIsCurrent, NoneIsPassed, RestIsListed, UndisturbedIsExact
    <3>2. ASSUME ~ lru, NEW i \in 1 .. n
          PROVE  \/ list[i].key \in touched[c]
                 \/ \E j \in i + 1 .. n : list[j].key = list[i].key
                 \/ Has(entries', list[i])
      <4>1. CASE i = n
        BY <1>4, <1>6, <4>1 DEF e
      <4>2. CASE i # n /\ list[i].key = e.key
        <5>1. n \in i + 1 .. n
          BY <1>1, <4>2
        <5> QED
          BY <4>2, <5>1 DEF e
      <4>3. CASE i # n /\ list[i].key # e.key
        <5>1. i \in 1 .. call[c].done
          BY <1>1, <4>3
        <5>2. \/ list[i].key \in touched[c]
              \/ \E j \in i + 1 .. call[c].done : list[j].key = list[i].key
              \/ Has(entries, list[i])
          BY <1>0, <3>2, <5>1 DEF CallInv, DoneIsDone
        <5> QED
          BY <1>1, <1>4, <3>2, <4>3, <5>2
      <4> QED
        BY <4>1, <4>2, <4>3
    <3>3. DoneIsDone(c)'
      BY <2>3, <3>0, <3>2 DEF DoneIsDone
    <3> QED
      BY <3>1, <3>3 DEF CallInv
  <2>4. s.op \in Batches => s.done <= Len(s.list)
    BY <1>1, <2>2
  <2>5. s.op # "idle" /\ Observe(c, {e.key}) /\ (entries' = entries \/ Changed(e.key)) /\ e.key \in Keys
    BY <1>0, <1>2, <1>3, <1>4, <2>2 DEF Batches, e
  <2> QED
    BY <2>1, <2>2, <2>3, <2>4, <2>5, OwnStep
<1> QED
  BY <1>5, <1>6

LEMMA RemoveNextStep ==
    ASSUME Inv, NEW c \in Clients, RemoveNext(c)
    PROVE  Inv'
<1> DEFINE list == call[c].list
           n == call[c].done + 1
           k == list[n]
           r == EraseResult(k)
           s == [call[c] EXCEPT !.done = @ + 1]
<1>0. /\ TypeInv /\ CallInv(c) /\ call[c].op \in {"remove_batch", "clear_batch"}
      /\ call[c].op \in Batches /\ call[c].op # "insert_batch" /\ ~ AllDone(c)
  BY DEF Inv, RemoveNext, Batches
<1>1. /\ call[c] \in Calls /\ n \in 1 .. Len(list) /\ Len(list) \in Nat /\ call[c].done \in Nat
      /\ DOMAIN list = 1 .. Len(list)
      /\ k \in Keys /\ \A i \in 1 .. Len(list) : list[i] \in Keys
  BY <1>0, NextItem
<1>2. Erase(k) /\ AfterItem(c, r) /\ Observe(c, {k})
  BY DEF RemoveNext
<1>3. /\ entries' = entries \/ Changed(k)
      /\ r \in {"ok", "denied", "not_found"}
      /\ r = "ok" => KeysOf(entries') = KeysOf(entries) \ {k}
  BY <1>0, <1>1, <1>2, EraseIs
<1>4. CASE r # "ok"
  <2>1. Return(c, r) /\ r \in Outcomes
    BY <1>2, <1>3, <1>4 DEF AfterItem, Outcomes, Errors
  <2> QED
    BY <1>1, <1>2, <1>3, <2>1, ReturnStep
<1>5. CASE r = "ok"
  <2>1. Goto(c, s)
    BY <1>2, <1>5 DEF AfterItem
  <2>2. s \in Calls /\ s.op = call[c].op /\ s.list = list /\ s.done = n
    BY <1>0, <1>1, OneMoreDone
  <2> HIDE DEF s, r
  <2>3. ASSUME call'[c] = s, touched'[c] = touched[c]
        PROVE  CallInv(c)'
    <3>0. call'[c].op = call[c].op /\ call'[c].list = list /\ call'[c].done = n
      BY <2>2, <2>3
    <3>1. OldIsCurrent(c)' /\ NoneIsPassed(c)'
      BY <1>0, <3>0 DEF OldIsCurrent, NoneIsPassed
    <3>2. RestIsListed(c)'
      <4>1. ASSUME call[c].op = "clear_batch", NEW a \in KeysOf(entries') \ touched[c]
            PROVE  \E i \in n + 1 .. Len(list) : list[i] = a
        <5>1. a \in KeysOf(entries) \ touched[c] /\ a # k
          BY <1>3, <1>5, <4>1
        <5>2. PICK i \in n .. Len(list) : list[i] = a
          BY <1>0, <4>1, <5>1 DEF CallInv, RestIsListed
        <5>3. i # n
          BY <5>1, <5>2
        <5>4. i \in n + 1 .. Len(list)
          BY <1>1, <5>2, <5>3
        <5> QED
          BY <5>2, <5>4
      <4> QED
        BY <2>3, <3>0, <4>1 DEF RestIsListed
    <3>3. UndisturbedIsExact(c)'
      <4>1. SUFFICES ASSUME touched[c] = {}, call[c].op = "clear_batch"
                     PROVE  /\ \A i, j \in DOMAIN list : list[i] = list[j] => i = j
                            /\ \A i \in DOMAIN list : i > n => list[i] \in KeysOf(entries')
        BY <1>0, <2>3, <3>0 DEF UndisturbedIsExact
      <4>2. /\ \A i, j \in DOMAIN list : list[i] = list[j] => i = j
            /\ \A i \in DOMAIN list : i > call[c].done => list[i] \in KeysOf(entries)
        BY <1>0, <4>1 DEF CallInv, UndisturbedIsExact
      <4>3. ASSUME NEW i \in DOMAIN list, i > n
            PROVE  list[i] \in KeysOf(entries')
        <5>1. i > call[c].done /\ i # n /\ n \in DOMAIN list
          BY <1>1, <4>3
        <5>2. list[i] # k /\ list[i] \in KeysOf(entries)
          BY <4>2, <5>1
        <5> QED
          BY <1>3, <1>5, <5>2
      <4> QED
        BY <4>2, <4>3
    <3>4. DoneIsDone(c)'
      <4>1. ASSUME NEW i \in 1 .. n, list[i] \in KeysOf(entries')
            PROVE  list[i] \in touched[c]
        <5>1. list[i] \in KeysOf(entries) /\ list[i] # k
          BY <1>3, <1>5, <4>1
        <5>2. i # n
          BY <5>1
        <5>3. i \in 1 .. call[c].done
          BY <1>1, <5>2
        <5> QED
          BY <1>0, <5>1, <5>3 DEF CallInv, DoneIsDone
      <4> QED
        BY <1>0, <2>3, <3>0, <4>1 DEF DoneIsDone
    <3> QED
      BY <3>1, <3>2, <3>3, <3>4 DEF CallInv
  <2>4. s.op \in Batches => s.done <= Len(s.list)
    BY <1>1, <2>2
  <2>5. s.op # "idle"
    BY <1>0, <2>2
  <2> QED
    BY <1>1, <1>2, <1>3, <2>1, <2>2, <2>3, <2>4, <2>5, OwnStep
<1> QED
  BY <1>4, <1>5

LEMMA BatchReturnsStep ==
    ASSUME Inv, NEW c \in Clients, BatchReturns(c)
    PROVE  Inv'
<1>1. Return(c, "ok") /\ ReadOnly(c) /\ "ok" \in Outcomes
  BY DEF BatchReturns, Outcomes
<1> QED
  BY <1>1, ReturnStep DEF ReadOnly

-----------------------------------------------------------------------------
(***************************************************************************)
(* A step of an eBPF program, and of a thread that freezes the map.        *)
(***************************************************************************)

LEMMA ForeignStep ==
    ASSUME Inv, NEW a, a \notin Clients, call' = call, lru' = lru, maxEntries' = maxEntries,
           frozen' \in BOOLEAN, NEW ks, ks \subseteq Keys, Observe(a, ks),
           \/ entries' = entries
           \/ frozen' = frozen /\ \E k \in ks : Changed(k)
    PROVE  Inv'
<1>0. TypeInv
  BY DEF Inv
<1>1. touched' \in [Clients -> SUBSET Keys]
  BY <1>0, TouchedIs
<1>2. Wellformed(entries') /\ Len(entries') <= maxEntries
  BY <1>0 DEF Changed, TypeInv
<1>3. TypeInv'
  BY <1>0, <1>1, <1>2 DEF TypeInv
<1>4. ASSUME NEW d \in Clients
      PROVE  CallInv(d)'
  <2>1. CASE call[d].op = "idle"
    <3>1. call'[d].op = "idle"
      BY <2>1
    <3> QED
      BY <3>1 DEF CallInv, OldIsCurrent, NoneIsPassed, RestIsListed, UndisturbedIsExact, DoneIsDone
  <2>2. CASE call[d].op # "idle"
    <3>1. Harmless(d)
      BY <1>0, <2>2, OthersAreHarmless
    <3> QED
      BY <1>0, <1>2, <3>1, StillHolds DEF Inv, TypeInv
  <2> QED
    BY <2>1, <2>2
<1> QED
  BY <1>3, <1>4 DEF Inv

LEMMA ProgramStep ==
    ASSUME Inv, NEW k \in Keys, Program(k)
    PROVE  Inv'
<1>0. TypeInv /\ Wellformed(entries) /\ maxEntries \in Nat /\ Len(entries) <= maxEntries
  BY SizesAssumption DEF Inv, TypeInv
<1>1. Changed(k)
  <2>1. CASE Delete(k)
    BY <1>0, <2>1, DeleteIs
  <2>2. ASSUME NEW v \in Values, Update(k, v, "any")
        PROVE  Changed(k)
    BY <1>0, <2>2, UpdateIs
  <2> QED
    BY <2>1, <2>2 DEF Program
<1>2. /\ lru' = lru /\ maxEntries' = maxEntries /\ frozen' = frozen /\ call' = call
      /\ Observe("ebpf", {k}) /\ frozen' \in BOOLEAN
  BY <1>0 DEF Program, TypeInv
<1> QED
  BY <1>1, <1>2, ForeignStep, ClientsAssumption

LEMMA FreezeStep ==
    ASSUME Inv, Freeze
    PROVE  Inv'
<1>1. /\ lru' = lru /\ maxEntries' = maxEntries /\ frozen' \in BOOLEAN /\ call' = call
      /\ entries' = entries /\ Observe("other", {})
  BY DEF Freeze
<1> QED
  BY <1>1, ForeignStep, ClientsAssumption

-----------------------------------------------------------------------------

LEMMA InitInv == Init => Inv
<1> SUFFICES ASSUME Init
             PROVE  Inv
  OBVIOUS
<1>1. "ok" \in Outcomes
  BY DEF Outcomes
<1>2. [op |-> "idle", result |-> "ok"] \in Calls
  BY <1>1, NewCalls
<1>3. call \in [Clients -> Calls] /\ \A c \in Clients : call[c].op = "idle"
  BY <1>2 DEF Init
<1>4. Wellformed(entries) /\ Len(entries) <= maxEntries
  BY NothingIsWellformed, SizesAssumption DEF Init
<1>5. TypeInv
  BY <1>3, <1>4 DEF TypeInv, Init, Batches
<1> QED
  BY <1>3, <1>5, IdleNeedsNothing DEF Inv

LEMMA NextInv == Inv /\ [Next]_vars => Inv'
<1> SUFFICES ASSUME Inv, [Next]_vars
             PROVE  Inv'
  OBVIOUS
<1>1. CASE UNCHANGED vars
  <2>1. TypeInv'
    BY <1>1 DEF Inv, TypeInv, vars
  <2>2. ASSUME NEW c \in Clients
        PROVE  CallInv(c)'
    BY <1>1 DEF Inv, CallInv, OldIsCurrent, NoneIsPassed, RestIsListed, UndisturbedIsExact,
                DoneIsDone, vars
  <2> QED
    BY <2>1, <2>2 DEF Inv
<1>2. ASSUME NEW c \in Clients, Client(c)
      PROVE  Inv'
  <2>1. CASE SingleCall(c)
    BY <2>1, SingleCallStep
  <2>2. CASE \E k \in Keys, v \in Values : InsertGet(c, k, v)
    BY <2>2, InsertGetStep
  <2>3. CASE \E k \in Keys : RemoveGet(c, k)
    BY <2>3, RemoveGetStep
  <2>4. CASE \E op \in {"clear", "len"} : Iterate(c, op)
    BY <2>4, IterateStep
  <2>5. CASE \E list \in Lists(Entry) : Batch(c, "insert_batch", list)
    BY <2>5, BatchStep
  <2>6. CASE \E list \in Lists(Keys) : Batch(c, "remove_batch", list)
    BY <2>6, BatchStep
  <2>7. CASE InsertUpdate(c)
    BY <2>7, InsertUpdateStep
  <2>8. CASE InsertNext(c)
    BY <2>8, InsertNextStep
  <2>9. CASE RemoveDelete(c)
    BY <2>9, RemoveDeleteStep
  <2>10. CASE RemoveNext(c)
    BY <2>10, RemoveNextStep
  <2>11. CASE NextKey(c)
    BY <2>11, NextKeyStep
  <2>12. CASE NoNextKey(c)
    BY <2>12, NoNextKeyStep
  <2>13. CASE BatchReturns(c)
    BY <2>13, BatchReturnsStep
  <2> QED
    BY <1>2, <2>1, <2>2, <2>3, <2>4, <2>5, <2>6, <2>7, <2>8, <2>9, <2>10, <2>11, <2>12, <2>13
    DEF Client
<1>3. ASSUME NEW k \in Keys, Program(k)
      PROVE  Inv'
  BY <1>3, ProgramStep
<1>4. CASE Freeze
  BY <1>4, FreezeStep
<1> QED
  BY <1>1, <1>2, <1>3, <1>4 DEF Next

\* The invariant of every behaviour.
THEOREM Invariance == Spec => []Inv
<1> QED
  BY InitInv, NextInv, PTL DEF Spec

-----------------------------------------------------------------------------
(***************************************************************************)
(* How a call ends.                                                        *)
(***************************************************************************)

LEMMA GotoIs ==
    ASSUME TypeInv, NEW c \in Clients, NEW s, Goto(c, s)
    PROVE  /\ call'[c] = s /\ \A d \in Clients : d # c => call'[d] = call[d]
           /\ lru' = lru /\ frozen' = frozen
  BY DEF TypeInv, Goto

LEMMA ReturnIs ==
    ASSUME TypeInv, NEW c \in Clients, NEW r, Return(c, r)
    PROVE  call'[c].result = r
  BY GotoIs DEF Return

LEMMA EveryStepGoes ==
    ASSUME NEW c \in Clients, Client(c)
    PROVE  \E s : Goto(c, s)
<1>1. CASE SingleCall(c)
  BY <1>1 DEF SingleCall, UpdateCall, InsertNew, Replace, DeleteCall, Return
<1>2. CASE \E k \in Keys, v \in Values : InsertGet(c, k, v)
  BY <1>2 DEF InsertGet
<1>3. CASE \E k \in Keys : RemoveGet(c, k)
  BY <1>3 DEF RemoveGet, Return
<1>4. CASE \E op \in {"clear", "len"} : Iterate(c, op)
  BY <1>4 DEF Iterate
<1>5. CASE \/ \E list \in Lists(Entry) : Batch(c, "insert_batch", list)
           \/ \E list \in Lists(Keys) : Batch(c, "remove_batch", list)
  BY <1>5 DEF Batch, Return
<1>6. CASE InsertUpdate(c) \/ RemoveDelete(c)
  BY <1>6 DEF InsertUpdate, RemoveDelete, Return
<1>7. CASE InsertNext(c) \/ RemoveNext(c)
  BY <1>7 DEF InsertNext, RemoveNext, AfterItem, Return
<1>8. CASE NextKey(c)
  BY <1>8 DEF NextKey
<1>9. CASE NoNextKey(c) \/ BatchReturns(c)
  BY <1>9 DEF NoNextKey, BatchReturns, Return
<1> QED
  BY <1>1, <1>2, <1>3, <1>4, <1>5, <1>6, <1>7, <1>8, <1>9 DEF Client

\* The steps that end a call of several steps.
LEMMA Ends ==
    ASSUME TypeInv, [Next]_vars, NEW c \in Clients,
           call[c].op # "idle", call'[c].op = "idle"
    PROVE  \/ InsertUpdate(c) \/ RemoveDelete(c) \/ NoNextKey(c)
           \/ InsertNext(c) \/ RemoveNext(c) \/ BatchReturns(c)
<1>1. Client(c)
  <2>1. call' # call
    OBVIOUS
  <2>2. PICK d \in Clients : Client(d)
    BY <2>1 DEF Next, Program, Freeze, vars
  <2>3. PICK s : Goto(d, s)
    BY <2>2, EveryStepGoes
  <2>4. d = c
    BY <2>3, GotoIs
  <2> QED
    BY <2>2, <2>4
<1>2. ~ Idle(c)
  BY DEF Idle
<1>3. ~ SingleCall(c)
  BY <1>2 DEF SingleCall, UpdateCall, InsertNew, Replace, DeleteCall
<1>4. /\ ~ \E k \in Keys, v \in Values : InsertGet(c, k, v)
      /\ ~ \E k \in Keys : RemoveGet(c, k)
      /\ ~ \E op \in {"clear", "len"} : Iterate(c, op)
      /\ ~ \E list \in Lists(Entry) : Batch(c, "insert_batch", list)
      /\ ~ \E list \in Lists(Keys) : Batch(c, "remove_batch", list)
  BY <1>2 DEF InsertGet, RemoveGet, Iterate, Batch
<1>5. ~ NextKey(c)
  <2>1. SUFFICES ASSUME NextKey(c)
                 PROVE  FALSE
    OBVIOUS
  <2> DEFINE k == entries[NextIndex(call[c].got)].key
             s == [call[c] EXCEPT !.got = Append(@, k)]
  <2>2. Goto(c, s) /\ call[c].op \in {"clear", "len"}
    BY <2>1 DEF NextKey
  <2>3. call[c] \in [op : {"clear", "len"}, got : Seq(Keys)]
    BY <2>2, CallKinds DEF TypeInv
  <2>4. s.op = call[c].op
    BY <2>3
  <2> HIDE DEF s
  <2>5. call'[c] = s
    BY <2>2, GotoIs
  <2> QED
    BY <2>2, <2>4, <2>5
<1> QED
  BY <1>1, <1>3, <1>4, <1>5 DEF Client

-----------------------------------------------------------------------------
(***************************************************************************)
(* The theorems.                                                           *)
(***************************************************************************)

\* The map holds a key once and never more entries than it has room for.
THEOREM TypeCorrect == Spec => []TypeOK
<1>1. Inv => TypeOK
  <2>1. ASSUME TypeInv
        PROVE  TypeOK
    <3>1. Cardinality(Present) = Len(entries) /\ entries \in Seq(Entry)
      BY <2>1, KeysCounted, PresentIs DEF TypeInv, Wellformed
    <3> QED
      BY <2>1, <3>1 DEF TypeInv, TypeOK
  <2> QED
    BY <2>1 DEF Inv
<1> QED
  BY <1>1, Invariance, PTL

LEMMA ReplacedStep ==
    ASSUME Inv, [Next]_vars, NEW c \in Clients, Returns(c, {"insert", "remove"}),
           call[c].key \notin touched[c]
    PROVE  /\ ReturnsOk(c, {"insert", "remove"}) => call'[c].result = Lookup(call[c].key)
           /\ call'[c].result # "not_found"
<1> DEFINE k == call[c].key
<1>0. /\ TypeInv /\ call[c] \in Calls /\ OldIsCurrent(c)
      /\ call[c].op \in {"insert", "remove"} /\ call'[c].op = "idle"
  BY DEF Inv, TypeInv, CallInv, Returns
<1>1. /\ call[c].old = LookupIn(entries, k) /\ Lookup(k) = LookupIn(entries, k)
      /\ Wellformed(entries)
  BY <1>0, LookupIs DEF OldIsCurrent, TypeInv
<1>2. InsertUpdate(c) \/ RemoveDelete(c)
  BY <1>0, Ends DEF NoNextKey, InsertNext, RemoveNext, BatchReturns, Batches
<1>3. CASE InsertUpdate(c)
  <2> DEFINE r == WriteResult(k, "any")
  <2>1. call[c].op = "insert" /\ k \in Keys /\ call[c].val \in Values /\ call[c].old \in Values \cup {None}
    BY <1>0, <1>3, CallKinds DEF InsertUpdate
  <2>2. r \in {"ok", "full", "denied"}
    BY <1>0, <1>3, <2>1, WriteIs DEF InsertUpdate
  <2>3. call'[c].result = IF r = "ok" THEN call[c].old ELSE r
    BY <1>0, <1>3, ReturnIs DEF InsertUpdate
  <2>4. call[c].old \notin Errors
    BY <2>1, ResultsAssumption
  <2> QED
    BY <1>1, <2>2, <2>3, <2>4 DEF ReturnsOk, Errors
<1>4. CASE RemoveDelete(c)
  <2> DEFINE r == EraseResult(k)
  <2>1. call[c].op = "remove" /\ k \in Keys /\ call[c].old \in Values
    BY <1>0, <1>4, CallKinds DEF RemoveDelete
  <2>2. r \in {"ok", "denied", "not_found"} /\ (r = "not_found" => k \notin KeysOf(entries))
    BY <1>0, <1>4, <2>1, EraseIs DEF RemoveDelete
  <2>3. call'[c].result = IF r = "ok" THEN call[c].old ELSE r
    BY <1>0, <1>4, ReturnIs DEF RemoveDelete
  <2>4. k \in KeysOf(entries)
    BY <1>1, <2>1, LookupInIs, NoneAssumption
  <2>5. call[c].old \notin Errors
    BY <2>1, ResultsAssumption
  <2> QED
    BY <1>1, <2>2, <2>3, <2>4, <2>5 DEF ReturnsOk, Errors
<1> QED
  BY <1>2, <1>3, <1>4

\* As long as nobody else writes the key in between, insert and remove return the
\* value that they have replaced or removed.
THEOREM ReturnsWhatItReplacedCorrect == Spec => ReturnsWhatItReplaced
<1>1. Inv /\ [Next]_vars =>
          [\A c \in Clients :
              Returns(c, {"insert", "remove"}) /\ call[c].key \notin touched[c] =>
                  /\ ReturnsOk(c, {"insert", "remove"}) => call'[c].result = Lookup(call[c].key)
                  /\ call'[c].result # "not_found"]_vars
  BY ReplacedStep
<1> QED
  BY <1>1, Invariance, PTL DEF Spec, ReturnsWhatItReplaced

\* The steps that end a batch: the last item is done, or one has failed.
LEMMA BatchEnds ==
    ASSUME Inv, [Next]_vars, NEW c \in Clients, call[c].op \in Batches, call'[c].op = "idle"
    PROVE  \/ /\ BatchReturns(c) /\ AllDone(c)
              /\ entries' = entries /\ call'[c].result = "ok"
           \/ /\ InsertNext(c) \/ RemoveNext(c)
              /\ call'[c].result \in Errors
              /\ RemoveNext(c) =>
                     \/ call'[c].result = "denied" /\ frozen
                     \/ /\ ~ AllDone(c) /\ call[c].op # "insert_batch"
                        /\ call[c].list[call[c].done + 1] \notin KeysOf(entries)
<1>0. TypeInv /\ call[c].op # "idle"
  BY DEF Inv, Batches
<1>1. InsertNext(c) \/ RemoveNext(c) \/ BatchReturns(c)
  BY <1>0, Ends DEF InsertUpdate, RemoveDelete, NoNextKey, Batches
<1>2. CASE BatchReturns(c)
  BY <1>0, <1>2, ReturnIs DEF BatchReturns, ReadOnly
<1>3. CASE InsertNext(c)
  <2> DEFINE e == call[c].list[call[c].done + 1]
             r == WriteResult(e.key, "any")
  <2>1. call[c].op = "insert_batch" /\ Write(e.key, e.val, "any") /\ AfterItem(c, r) /\ ~ AllDone(c)
    BY <1>3 DEF InsertNext
  <2>2. e.key \in Keys /\ e.val \in Values
    BY <1>0, <2>1, NextItem, EntryIs DEF Batches
  <2>3. r \in {"ok", "full", "denied"}
    BY <1>0, <2>1, <2>2, WriteIs
  <2>4. r # "ok"
    <3>1. SUFFICES ASSUME r = "ok"
                   PROVE  FALSE
      OBVIOUS
    <3> DEFINE s == [call[c] EXCEPT !.done = @ + 1]
    <3>2. Goto(c, s)
      BY <2>1, <3>1 DEF AfterItem
    <3>3. call[c] \in Calls
      BY <1>0 DEF TypeInv
    <3>4. s.op = call[c].op
      BY <3>3, OneMoreDone
    <3> HIDE DEF s
    <3>5. call'[c] = s
      BY <1>0, <3>2, GotoIs
    <3> QED
      BY <1>0, <3>4, <3>5
  <2>5. call'[c].result = r
    BY <1>0, <2>1, <2>4, ReturnIs DEF AfterItem
  <2>6. ~ RemoveNext(c)
    BY <2>1 DEF RemoveNext
  <2> QED
    BY <1>3, <2>3, <2>4, <2>5, <2>6 DEF Errors
<1>4. CASE RemoveNext(c)
  <2> DEFINE k == call[c].list[call[c].done + 1]
             r == EraseResult(k)
  <2>1. /\ call[c].op \in {"remove_batch", "clear_batch"} /\ Erase(k) /\ AfterItem(c, r)
        /\ ~ AllDone(c)
    BY <1>4 DEF RemoveNext
  <2>2. k \in Keys
    BY <1>0, <2>1, NextItem
  <2>3. /\ r \in {"ok", "denied", "not_found"}
        /\ r = "denied" => frozen
        /\ r = "not_found" => k \notin KeysOf(entries)
    BY <1>0, <2>1, <2>2, EraseIs
  <2>4. r # "ok"
    <3>1. SUFFICES ASSUME r = "ok"
                   PROVE  FALSE
      OBVIOUS
    <3> DEFINE s == [call[c] EXCEPT !.done = @ + 1]
    <3>2. Goto(c, s)
      BY <2>1, <3>1 DEF AfterItem
    <3>3. call[c] \in Calls
      BY <1>0 DEF TypeInv
    <3>4. s.op = call[c].op
      BY <3>3, OneMoreDone
    <3> HIDE DEF s
    <3>5. call'[c] = s
      BY <1>0, <3>2, GotoIs
    <3> QED
      BY <1>0, <3>4, <3>5
  <2>5. call'[c].result = r
    BY <1>0, <2>1, <2>4, ReturnIs DEF AfterItem
  <2> QED
    BY <1>4, <2>1, <2>3, <2>4, <2>5 DEF Errors
<1> QED
  BY <1>1, <1>2, <1>3, <1>4

LEMMA CompleteStep ==
    ASSUME Inv, [Next]_vars, NEW c \in Clients
    PROVE  /\ ReturnsOk(c, {"insert_batch"}) /\ ~ lru =>
                  LET list == call[c].list
                  IN  \A i \in DOMAIN list :
                          \/ list[i].key \in touched[c]
                          \/ \E j \in i + 1 .. Len(list) : list[j].key = list[i].key
                          \/ list[i] \in Range(entries')
           /\ ReturnsOk(c, {"remove_batch", "clear_batch"}) =>
                  Range(call[c].list) \cap Present' \subseteq touched[c]
<1>0. TypeInv /\ DoneIsDone(c) /\ call[c] \in Calls
  BY DEF Inv, TypeInv, CallInv
<1>1. ASSUME ReturnsOk(c, Batches)
      PROVE  AllDone(c) /\ entries' = entries
  BY <1>1, BatchEnds DEF ReturnsOk, Returns
<1>2. ASSUME ReturnsOk(c, {"insert_batch"}), ~ lru, NEW i \in DOMAIN call[c].list
      PROVE  \/ call[c].list[i].key \in touched[c]
             \/ \E j \in i + 1 .. Len(call[c].list) : call[c].list[j].key = call[c].list[i].key
             \/ call[c].list[i] \in Range(entries')
  <2>1. AllDone(c) /\ entries' = entries /\ call[c].op = "insert_batch"
    BY <1>1, <1>2 DEF ReturnsOk, Returns, Batches
  <2>2. call[c] \in [op : {"insert_batch"}, list : Seq(Entry), done : Nat]
    BY <1>0, <2>1, CallKinds
  <2>3. call[c].list \in Seq(Entry) /\ call[c].done = Len(call[c].list)
    BY <2>1, <2>2 DEF AllDone
  <2>4. i \in 1 .. call[c].done
    BY <1>2, <2>3
  <2>5. \/ call[c].list[i].key \in touched[c]
        \/ \E j \in i + 1 .. call[c].done : call[c].list[j].key = call[c].list[i].key
        \/ Has(entries, call[c].list[i])
    BY <1>0, <1>2, <2>1, <2>4 DEF DoneIsDone
  <2> QED
    BY <2>1, <2>3, <2>5 DEF Has, Range
<1>3. ASSUME ReturnsOk(c, {"remove_batch", "clear_batch"})
      PROVE  Range(call[c].list) \cap Present' \subseteq touched[c]
  <2>1. AllDone(c) /\ entries' = entries /\ call[c].op \in {"remove_batch", "clear_batch"}
    BY <1>1, <1>3 DEF ReturnsOk, Returns, Batches
  <2>2. call[c] \in [op : {"remove_batch", "clear_batch"}, list : Seq(Keys), done : Nat]
    BY <1>0, <2>1, CallKinds
  <2>3. call[c].list \in Seq(Keys) /\ call[c].done = Len(call[c].list)
    BY <2>1, <2>2 DEF AllDone
  <2>4. ASSUME NEW i \in DOMAIN call[c].list, call[c].list[i] \in KeysOf(entries)
        PROVE  call[c].list[i] \in touched[c]
    BY <1>0, <2>1, <2>3, <2>4 DEF DoneIsDone
  <2> QED
    BY <2>1, <2>4, PresentIs DEF Range
<1> QED
  BY <1>2, <1>3

\* A batch that returns Ok has done all of its items, but for insert_batch on an LRU map,
\* of which nothing is said.
THEOREM OkBatchIsCompleteCorrect == Spec => OkBatchIsComplete
<1>1. Inv /\ [Next]_vars =>
          [\A c \in Clients :
              /\ ReturnsOk(c, {"insert_batch"}) /\ ~ lru =>
                     LET list == call[c].list
                     IN  \A i \in DOMAIN list :
                             \/ list[i].key \in touched[c]
                             \/ \E j \in i + 1 .. Len(list) : list[j].key = list[i].key
                             \/ list[i] \in Range(entries')
              /\ ReturnsOk(c, {"remove_batch", "clear_batch"}) =>
                     Range(call[c].list) \cap Present' \subseteq touched[c]]_vars
  BY CompleteStep
<1> QED
  BY <1>1, Invariance, PTL DEF Spec, OkBatchIsComplete

\* An iteration that ends without a batch: nothing was found, or it was len's.
LEMMA IterationEnds ==
    ASSUME Inv, [Next]_vars, NEW c \in Clients, call[c].op \in {"clear", "len"},
           call'[c].op = "idle"
    PROVE  /\ NoNextKey(c) /\ entries' = entries /\ call'[c].result = "ok"
           /\ call[c].got \in Seq(Keys)
           /\ NextIndex(call[c].got) \notin 1 .. Len(entries)
           /\ call[c].op = "len" \/ call[c].got = << >>
           /\ call[c].op = "clear" => KeysOf(entries) = {} /\ entries = << >>
<1>0. TypeInv /\ call[c].op # "idle" /\ Wellformed(entries)
  BY DEF Inv, TypeInv
<1>1. NoNextKey(c)
  BY <1>0, Ends DEF InsertUpdate, RemoveDelete, InsertNext, RemoveNext, BatchReturns, Batches
<1>2. entries' = entries /\ NextIndex(call[c].got) \notin 1 .. Len(entries)
  BY <1>0, <1>1, WellformedIs DEF NoNextKey, ReadOnly
<1>3. call[c].got \in Seq(Keys)
  <2>1. call[c] \in [op : {"clear", "len"}, got : Seq(Keys)]
    BY <1>0, CallKinds DEF TypeInv
  <2> QED
    BY <2>1
<1>4. call[c].op = "len" \/ call[c].got = << >>
  <2>1. SUFFICES ASSUME ~ (call[c].op = "len" \/ call[c].got = << >>)
                 PROVE  FALSE
    OBVIOUS
  <2>2. call'[c].op = "clear_batch"
    BY <1>0, <1>1, <2>1, GotoIs DEF NoNextKey
  <2> QED
    BY <2>2
<1>5. call'[c].result = "ok"
  BY <1>0, <1>1, <1>4, ReturnIs DEF NoNextKey
<1>6. call[c].op = "clear" => KeysOf(entries) = {} /\ entries = << >>
  <2>1. ASSUME call[c].op = "clear"
        PROVE  Len(entries) = 0
    <3>1. NextIndex(call[c].got) = 1 /\ Len(entries) \in Nat
      BY <1>0, <1>4, <2>1, WellformedIs DEF NextIndex
    <3> QED
      BY <1>2, <3>1
  <2> QED
    BY <1>0, <2>1, WellformedIs DEF KeysOf
<1> QED
  BY <1>1, <1>2, <1>3, <1>4, <1>5, <1>6

LEMMA NothingPresent ==
    ASSUME Wellformed(entries), KeysOf(entries) = {}
    PROVE  entries = << >>
<1>1. Len(entries) = 0
  <2>1. \A i \in 1 .. Len(entries) : FALSE
    BY WellformedIs DEF KeysOf
  <2> QED
    BY <2>1, WellformedIs
<1> QED
  BY <1>1, WellformedIs

LEMMA UndisturbedStep ==
    ASSUME Inv, [Next]_vars, NEW c \in Clients, touched[c] = {}
    PROVE  /\ Returns(c, {"clear", "clear_batch"}) =>
                  \/ call'[c].result = "ok" /\ entries' = << >>
                  \/ call'[c].result = "denied" /\ frozen
           /\ Returns(c, {"len"}) => Len(call[c].got) = Len(entries)
<1>0. /\ TypeInv /\ Wellformed(entries) /\ RestIsListed(c) /\ UndisturbedIsExact(c)
      /\ call[c] \in Calls
  BY DEF Inv, TypeInv, CallInv
<1>1. ASSUME Returns(c, {"clear"})
      PROVE  call'[c].result = "ok" /\ entries' = << >>
  BY <1>1, IterationEnds DEF Returns
<1>2. ASSUME Returns(c, {"clear_batch"})
      PROVE  \/ call'[c].result = "ok" /\ entries' = << >>
             \/ call'[c].result = "denied" /\ frozen
  <2>1. call[c].op = "clear_batch" /\ call[c].op \in Batches /\ call'[c].op = "idle"
    BY <1>2 DEF Returns, Batches
  <2>2. CASE BatchReturns(c) /\ AllDone(c) /\ entries' = entries /\ call'[c].result = "ok"
    <3>1. call[c] \in [op : {"remove_batch", "clear_batch"}, list : Seq(Keys), done : Nat]
      BY <1>0, <2>1, CallKinds
    <3>2. call[c].done = Len(call[c].list) /\ call[c].done \in Nat
      BY <2>2, <3>1 DEF AllDone
    <3>3. KeysOf(entries) = {}
      BY <1>0, <2>1, <3>2 DEF RestIsListed
    <3> QED
      BY <1>0, <2>2, <3>3, NothingPresent
  <2>3. CASE /\ ~ AllDone(c)
             /\ call[c].list[call[c].done + 1] \notin KeysOf(entries)
    <3>1. /\ call[c].done + 1 \in DOMAIN call[c].list /\ call[c].done \in Nat
      BY <1>0, <2>1, <2>3, NextItem
    <3>2. call[c].list[call[c].done + 1] \in KeysOf(entries)
      BY <1>0, <2>1, <3>1 DEF UndisturbedIsExact
    <3> QED
      BY <2>3, <3>2
  <2>4. ~ InsertNext(c)
    BY <2>1 DEF InsertNext
  <2> QED
    BY <2>1, <2>2, <2>3, <2>4, BatchEnds
<1>3. ASSUME Returns(c, {"len"})
      PROVE  Len(call[c].got) = Len(entries)
  <2>1. /\ call[c].op = "len" /\ call[c].got \in Seq(Keys)
        /\ NextIndex(call[c].got) \notin 1 .. Len(entries)
    BY <1>3, IterationEnds DEF Returns
  <2>2. NextIndex(call[c].got) = Len(call[c].got) + 1
    BY <1>0, <2>1, UndisturbedNext
  <2>3. Len(call[c].got) > Len(entries) => FALSE
    <3>1. SUFFICES ASSUME Len(call[c].got) > Len(entries)
                   PROVE  FALSE
      OBVIOUS
    <3>2. Len(call[c].got) \in DOMAIN call[c].got /\ Len(entries) \in Nat
      BY <1>0, <2>1, <3>1, WellformedIs
    <3>3. Len(call[c].got) \in DOMAIN entries
      BY <1>0, <2>1, <3>2 DEF UndisturbedIsExact
    <3> QED
      BY <1>0, <3>1, <3>3, WellformedIs
  <2>4. Len(call[c].got) \in Nat /\ Len(entries) \in Nat
    BY <1>0, <2>1, WellformedIs
  <2> QED
    BY <2>1, <2>2, <2>3, <2>4
<1> QED
  BY <1>1, <1>2, <1>3 DEF Returns

\* Without others at work clear empties the map and len counts its entries.
THEOREM UndisturbedIterationIsExactCorrect == Spec => UndisturbedIterationIsExact
<1>1. Inv /\ [Next]_vars =>
          [\A c \in Clients : touched[c] = {} =>
              /\ Returns(c, {"clear", "clear_batch"}) =>
                     \/ call'[c].result = "ok" /\ entries' = << >>
                     \/ call'[c].result = "denied" /\ frozen
              /\ Returns(c, {"len"}) => Len(call[c].got) = Len(entries)]_vars
  BY UndisturbedStep
<1> QED
  BY <1>1, Invariance, PTL DEF Spec, UndisturbedIterationIsExact

LEMMA ClearedStep ==
    ASSUME Inv, [Next]_vars, NEW c \in Clients, ReturnsOk(c, {"clear", "clear_batch"})
    PROVE  Present' \subseteq touched[c]
<1>0. TypeInv /\ RestIsListed(c) /\ call[c] \in Calls
  BY DEF Inv, TypeInv, CallInv
<1>1. CASE call[c].op = "clear"
  <2>1. KeysOf(entries) = {} /\ entries' = entries
    BY <1>1, IterationEnds DEF ReturnsOk, Returns
  <2> QED
    BY <2>1, PresentIs
<1>2. CASE call[c].op = "clear_batch"
  <2>1. AllDone(c) /\ entries' = entries
    BY <1>2, BatchEnds DEF ReturnsOk, Returns, Batches
  <2>2. call[c] \in [op : {"remove_batch", "clear_batch"}, list : Seq(Keys), done : Nat]
    BY <1>0, <1>2, CallKinds
  <2>3. call[c].done = Len(call[c].list) /\ call[c].done \in Nat
    BY <2>1, <2>2 DEF AllDone
  <2>4. KeysOf(entries) \subseteq touched[c]
    BY <1>0, <1>2, <2>3 DEF RestIsListed
  <2> QED
    BY <2>1, <2>4, PresentIs
<1> QED
  BY <1>1, <1>2 DEF ReturnsOk, Returns

\* A clear that returns Ok has removed every entry that nobody else has touched.
THEOREM OkClearRemovesUntouchedCorrect == Spec => OkClearRemovesUntouched
<1>1. Inv /\ [Next]_vars =>
          [\A c \in Clients :
              ReturnsOk(c, {"clear", "clear_batch"}) => Present' \subseteq touched[c]]_vars
  BY ClearedStep
<1> QED
  BY <1>1, Invariance, PTL DEF Spec, OkClearRemovesUntouched

=============================================================================
