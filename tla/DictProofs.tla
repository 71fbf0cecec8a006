----------------------------- MODULE DictProofs -----------------------------
(***************************************************************************)
(* What dict.c keeps for every set of keys, every hash function and every  *)
(* initial size while entries move from one table to the other, and that a *)
(* dictionary is a map all along.                                          *)
(***************************************************************************)
EXTENDS Dict, SequenceTheorems, FiniteSetTheorems, WellFoundedInduction, TLAPS

\* The entries of a chain, and of a table.
Links(c) == {c[i] : i \in DOMAIN c}
Held(t) == UNION {Links(t.table[i]) : i \in DOMAIN t.table}

\* A chain has one entry for a key at most.
Distinct(c) == \A i, j \in DOMAIN c : c[i].key = c[j].key => i = j

\* used is the number of entries, which are all different and in the chains of
\* their hashes.
Sound(t) ==
  /\ t = [size |-> t.size, used |-> t.used, table |-> t.table] /\ Table(t)
  /\ IsFiniteSet(Slots(t)) /\ t.used = Cardinality(Slots(t))
  /\ \A i \in 0 .. t.size - 1 :
       /\ Distinct(t.table[i])
       /\ \A e \in Links(t.table[i]) : Index(t, e.key) = i

\* The tables have no key in common, there are two of them exactly during a
\* rehash, and the chains in front of rehashidx are empty.
DictOK(d) ==
  /\ d = [ht0 |-> d.ht0, ht1 |-> d.ht1, rehashidx |-> d.rehashidx, dead |-> d.dead]
  /\ Sound(d.ht0) /\ Sound(d.ht1) /\ d.dead \in BOOLEAN
  /\ \A e \in Held(d.ht0), f \in Held(d.ht1) : e.key # f.key
  /\ d.rehashidx = -1 => d.ht1.size = 0
  /\ d.rehashidx # -1 =>
       /\ d.ht1.size # 0 /\ d.rehashidx \in 0 .. d.ht0.size - 1
       /\ \A i \in 0 .. d.rehashidx - 1 : d.ht0.table[i] = <<>>

DictInv == DictOK(dict)

\* All entries of a dictionary.
All(d) == Held(d.ht0) \cup Held(d.ht1)

-----------------------------------------------------------------------------
(***************************************************************************)
(* _nextpower.                                                             *)
(***************************************************************************)
\* What holds of a number when it holds of all smaller ones holds of each up
\* to n.
LEMMA NumberInduction ==
  ASSUME NEW n \in Nat, NEW Good,
         \A k \in 0 .. n : (\A j \in 0 .. k - 1 : j \in Good) => k \in Good
  PROVE  \A k \in 0 .. n : k \in Good
<1> DEFINE S == 1 .. n
           Bad == {1 .. k : k \in {i \in 0 .. n : i \notin Good}}
<1> SUFFICES ASSUME Bad # {} PROVE FALSE
  OBVIOUS
<1>1. IsWellFoundedOn(StrictSubsetOrdering(S), SUBSET S)
  <2>1. IsFiniteSet(S)
    BY FS_Interval
  <2>2. FiniteSubsetsOf(S) = SUBSET S
    BY <2>1, FS_FiniteSubsetsOfFinite
  <2>3. IsWellFoundedOn(StrictSubsetOrdering(S), FiniteSubsetsOf(S))
    BY FS_StrictSubsetOrderingWellFounded
  <2> QED
    BY <2>2, <2>3
<1>2. Bad \subseteq SUBSET S
  OBVIOUS
<1> HIDE DEF Bad
<1>3. PICK s \in Bad : \A t \in Bad : <<t, s>> \notin StrictSubsetOrdering(S)
  BY <1>1, <1>2, WFMin
<1> USE DEF Bad
<1>4. PICK k \in 0 .. n : k \notin Good /\ s = 1 .. k
  OBVIOUS
<1>5. ASSUME NEW j \in 0 .. k - 1 PROVE j \in Good
  <2>1. SUFFICES ASSUME j \notin Good PROVE FALSE
    OBVIOUS
  <2>2. 1 .. j \in Bad
    BY <1>4, <2>1
  <2>3. 1 .. j \subseteq s /\ 1 .. j # s /\ s \subseteq S
    <3>1. k \in 1 .. k /\ k \notin 1 .. j
      BY <1>4
    <3>2. QED
      BY <1>4, <3>1
  <2>4. <<1 .. j, s>> \in StrictSubsetOrdering(S)
    BY <2>3 DEF StrictSubsetOrdering
  <2>5. QED
    BY <1>3, <2>2, <2>4
<1>6. QED
  BY <1>4, <1>5

\* The powers of two up to the exponent m.
Doubles(f, m) == f = [i \in 0 .. m |-> IF i = 0 THEN 1 ELSE 2 * f[i - 1]]

\* The function in nextpower exists.
LEMMA PowersExist ==
  ASSUME NEW m \in Nat
  PROVE  \E f : Doubles(f, m)
<1> DEFINE Good == {k \in 0 .. m : \E f : Doubles(f, k)}
<1>1. ASSUME NEW k \in 0 .. m, \A j \in 0 .. k - 1 : j \in Good
      PROVE  k \in Good
  <2>1. CASE k = 0
    <3>1. Doubles([i \in 0 .. 0 |-> 1], 0)
      BY DEF Doubles
    <3>2. QED
      BY <2>1, <3>1
  <2>2. CASE k # 0
    <3>1. k - 1 \in 0 .. k - 1
      BY <2>2
    <3>2. PICK f : Doubles(f, k - 1)
      BY <1>1, <3>1
    <3>3. PICK g : g = [i \in 0 .. k |-> IF i # k THEN f[i] ELSE 2 * f[i - 1]]
      OBVIOUS
    <3>4. \A i \in 0 .. k - 1 : g[i] = f[i]
      BY <3>3
    <3>5. ASSUME NEW i \in 0 .. k PROVE g[i] = IF i = 0 THEN 1 ELSE 2 * g[i - 1]
      <4>1. CASE i = 0
        <5>1. 0 \in 0 .. k - 1
          BY <2>2
        <5>2. g[0] = f[0] /\ f[0] = 1
          BY <3>2, <3>4, <5>1 DEF Doubles
        <5>3. QED
          BY <4>1, <5>2
      <4>2. CASE i # 0 /\ i # k
        <5>1. i \in 0 .. k - 1 /\ i - 1 \in 0 .. k - 1
          BY <4>2
        <5>2. g[i] = f[i] /\ g[i - 1] = f[i - 1]
          BY <3>4, <5>1
        <5>3. f[i] = 2 * f[i - 1]
          BY <3>2, <4>2, <5>1 DEF Doubles
        <5>4. QED
          BY <4>2, <5>2, <5>3
      <4>3. CASE i = k
        <5>1. g[k - 1] = f[k - 1]
          BY <3>1, <3>4
        <5>2. g[k] = 2 * f[k - 1]
          BY <3>3
        <5>3. QED
          BY <2>2, <4>3, <5>1, <5>2
      <4>4. QED
        BY <4>1, <4>2, <4>3
    <3>6. DOMAIN g = 0 .. k /\ g = [i \in 0 .. k |-> g[i]]
      BY <3>3
    <3>7. Doubles(g, k)
      BY <3>5, <3>6 DEF Doubles
    <3>8. QED
      BY <3>7
  <2>3. QED
    BY <2>1, <2>2
<1> HIDE DEF Good
<1>2. \A k \in 0 .. m : k \in Good
  BY <1>1, NumberInduction
<1>3. m \in Good
  BY <1>2
<1>4. QED
  BY <1>3 DEF Good

\* The loop of _nextpower ends, with a power of two that is large enough.
LEMMA NextpowerType ==
  ASSUME NEW n \in Nat
  PROVE  nextpower(n) \in Nat \ {0} /\ nextpower(n) >= n
<1>1. PICK f : f = CHOOSE g : Doubles(g, n)
  OBVIOUS
<1>2. Doubles(f, n)
  BY <1>1, PowersExist
<1>3. \A i \in 0 .. n : f[i] = IF i = 0 THEN 1 ELSE 2 * f[i - 1]
  BY <1>2 DEF Doubles
<1> DEFINE Good == {i \in 0 .. n : f[i] \in Nat /\ f[i] > i}
<1>4. ASSUME NEW k \in 0 .. n, \A j \in 0 .. k - 1 : j \in Good
      PROVE  k \in Good
  <2>1. CASE k = 0
    BY <1>3, <2>1
  <2>2. CASE k # 0
    <3>1. k - 1 \in 0 .. k - 1
      BY <2>2
    <3>2. f[k - 1] \in Nat /\ f[k - 1] > k - 1
      BY <1>4, <3>1
    <3>3. f[k] = 2 * f[k - 1]
      BY <1>3, <2>2
    <3>4. PICK x : x = f[k - 1]
      OBVIOUS
    <3>5. x \in Nat /\ x > k - 1 /\ f[k] = 2 * x
      BY <3>2, <3>3, <3>4
    <3>6. 2 * x \in Nat /\ 2 * x > k
      BY <2>2, <3>5
    <3>7. QED
      BY <3>5, <3>6
  <2>3. QED
    BY <2>1, <2>2
<1> HIDE DEF Good
<1>5. \A k \in 0 .. n : k \in Good
  BY <1>4, NumberInduction
<1>6. \A k \in 0 .. n : f[k] \in Nat /\ f[k] > k
  BY <1>5 DEF Good
<1>7. nextpower(n) = CHOOSE p \in {f[i] : i \in 0 .. n} :
                       p >= n /\ \A i \in 0 .. n : f[i] >= n => p <= f[i]
  BY <1>1 DEF nextpower, Doubles
<1>8. \E j \in 0 .. n : f[j] >= n /\ \A i \in 0 .. n : f[i] >= n => f[j] <= f[i]
  <2> DEFINE Big == {j \in 0 .. n : f[j] < n \/ (\E i \in 0 .. n : f[i] >= n /\ f[j] > f[i])}
  <2>1. SUFFICES ASSUME \A j \in 0 .. n : j \in Big PROVE FALSE
    BY <1>6
  <2> DEFINE Above == {v \in 0 .. f[n] : \A j \in 0 .. n : f[j] >= n => f[j] > v}
  <2>2. ASSUME NEW v \in 0 .. f[n], \A w \in 0 .. v - 1 : w \in Above
        PROVE  v \in Above
    <3>1. SUFFICES ASSUME NEW j \in 0 .. n, f[j] >= n, ~(f[j] > v) PROVE FALSE
      OBVIOUS
    <3>2. j \in Big
      BY <2>1
    <3>3. PICK i \in 0 .. n : f[i] >= n /\ f[j] > f[i]
      BY <1>6, <3>1, <3>2
    <3>4. f[i] \in 0 .. v - 1
      BY <1>6, <3>1, <3>3
    <3>5. f[i] \in Above
      BY <2>2, <3>4
    <3>6. QED
      BY <1>6, <3>3, <3>5
  <2>3. f[n] \in Nat /\ f[n] > n
    BY <1>6
  <2> HIDE DEF Above
  <2>4. \A v \in 0 .. f[n] : v \in Above
    BY <2>2, <2>3, NumberInduction
  <2>5. f[n] \in Above
    BY <2>3, <2>4
  <2>6. QED
    BY <2>3, <2>5 DEF Above
<1>9. \E p \in {f[i] : i \in 0 .. n} : p >= n /\ \A i \in 0 .. n : f[i] >= n => p <= f[i]
  BY <1>8
<1>10. nextpower(n) \in {f[i] : i \in 0 .. n} /\ nextpower(n) >= n
  BY <1>7, <1>9
<1>11. QED
  BY <1>6, <1>10

\* A table is never asked to have no chains.
LEMMA WantedSizeType ==
  ASSUME NEW t, Table(t)
  PROVE  WantedSize(t) \in Nat /\ WantedSize(t) # 0
<1>1. PICK n : n = t.used
  OBVIOUS
<1>2. n \in Nat /\ t.size \in Nat /\ n * 2 \in Nat
  BY <1>1 DEF Table
<1>3. PICK m : m = n * 2
  OBVIOUS
<1>4. nextpower(n) \in Nat \ {0} /\ nextpower(m) \in Nat \ {0}
  BY <1>2, <1>3, NextpowerType
<1>5. QED
  BY <1>1, <1>2, <1>3, <1>4, SizesAssumption DEF WantedSize

-----------------------------------------------------------------------------
(***************************************************************************)
(* Chains.                                                                 *)
(***************************************************************************)
\* An entry is its key and its value.
LEMMA EntryParts ==
  /\ \A e \in Entry : e.key \in Keys /\ e.val \in Vals /\ e = [key |-> e.key, val |-> e.val]
  /\ \A k \in Keys, v \in Vals :
       LET e == [key |-> k, val |-> v] IN e \in Entry /\ e.key = k /\ e.val = v
BY DEF Entry

\* A chain by its places.
LEMMA ChainParts ==
  ASSUME NEW c \in Seq(Entry)
  PROVE  /\ Len(c) \in Nat /\ DOMAIN c = 1 .. Len(c) /\ \A i \in 1 .. Len(c) : c[i] \in Entry
         /\ Links(c) \subseteq Entry
         /\ \A e : e \in Links(c) <=> \E i \in 1 .. Len(c) : c[i] = e
         /\ (c # <<>> => Len(c) > 0) /\ (c = <<>> => Len(c) = 0 /\ Links(c) = {})
<1>1. Len(c) \in Nat /\ DOMAIN c = 1 .. Len(c) /\ \A i \in 1 .. Len(c) : c[i] \in Entry
  BY LenProperties
<1>2. Links(c) \subseteq Entry /\ \A e : e \in Links(c) <=> \E i \in 1 .. Len(c) : c[i] = e
  BY <1>1 DEF Links
<1>3. c # <<>> => Len(c) > 0
  BY EmptySeq
<1>4. c = <<>> => Len(c) = 0 /\ Links(c) = {}
  BY <1>1 DEF Links
<1>5. QED
  BY <1>1, <1>2, <1>3, <1>4

\* An entry is put in front of a chain.
LEMMA ChainLonger ==
  ASSUME NEW c \in Seq(Entry), NEW e \in Entry
  PROVE  LET d == <<e>> \o c IN
         /\ d \in Seq(Entry) /\ Len(d) = Len(c) + 1
         /\ Links(d) = Links(c) \cup {e}
         /\ Distinct(c) /\ (\A f \in Links(c) : f.key # e.key) => Distinct(d)
<1>1. PICK d, n, h : d = <<e>> \o c /\ n = Len(c) /\ h = <<e>>
  OBVIOUS
<1>2. n \in Nat /\ \A i \in 1 .. n : c[i] \in Entry
  BY <1>1, ChainParts
<1>3. h \in Seq(Entry) /\ Len(h) = 1 /\ h[1] = e
  BY <1>1
<1>4. /\ d \in Seq(Entry) /\ Len(d) = n + 1
      /\ \A i \in 1 .. n + 1 : d[i] = IF i = 1 THEN e ELSE c[i - 1]
  <2>1. d = h \o c
    BY <1>1
  <2>2. /\ h \o c \in Seq(Entry) /\ Len(h \o c) = Len(h) + Len(c)
        /\ \A i \in 1 .. Len(h) + Len(c) :
             (h \o c)[i] = IF i <= Len(h) THEN h[i] ELSE c[i - Len(h)]
    BY <1>3, ConcatProperties
  <2>3. \A i \in 1 .. n + 1 : i \in 1 .. 1 + n /\ (i <= 1 <=> i = 1)
    BY <1>2
  <2>4. QED
    BY <1>1, <1>2, <1>3, <2>1, <2>2, <2>3
<1>5. \A i \in 1 .. n : i + 1 \in 1 .. n + 1 /\ i + 1 # 1 /\ (i + 1) - 1 = i
  BY <1>2
<1>6. \A i \in 1 .. n + 1 : i # 1 => i - 1 \in 1 .. n
  BY <1>2
<1>7. \A f : f \in Links(d) <=> \E i \in 1 .. n + 1 : d[i] = f
  BY <1>4, ChainParts
<1>8. \A f : f \in Links(c) <=> \E i \in 1 .. n : c[i] = f
  BY <1>1, ChainParts
<1>9. Links(d) = Links(c) \cup {e}
  <2>1. ASSUME NEW f \in Links(d) PROVE f \in Links(c) \cup {e}
    <3>1. PICK i \in 1 .. n + 1 : d[i] = f
      BY <1>7, <2>1
    <3>2. QED
      BY <1>4, <1>6, <1>8, <3>1
  <2>2. ASSUME NEW f \in Links(c) PROVE f \in Links(d)
    <3>1. PICK i \in 1 .. n : c[i] = f
      BY <1>8, <2>2
    <3>2. d[i + 1] = f
      BY <1>4, <1>5, <3>1
    <3>3. QED
      BY <1>5, <1>7, <3>2
  <2>3. e \in Links(d)
    <3>1. 1 \in 1 .. n + 1
      BY <1>2
    <3>2. d[1] = e
      BY <1>4, <3>1
    <3>3. QED
      BY <1>7, <3>1, <3>2
  <2>4. QED
    BY <2>1, <2>2, <2>3
<1>10. ASSUME Distinct(c), \A f \in Links(c) : f.key # e.key PROVE Distinct(d)
  <2>1. DOMAIN d = 1 .. n + 1 /\ DOMAIN c = 1 .. n
    BY <1>1, <1>4, ChainParts
  <2>2. SUFFICES ASSUME NEW i \in 1 .. n + 1, NEW j \in 1 .. n + 1, d[i].key = d[j].key, i < j
                 PROVE  FALSE
    BY <1>2, <2>1 DEF Distinct
  <2>3. d[j] = c[j - 1] /\ j - 1 \in 1 .. n
    BY <1>2, <1>4, <2>2
  <2>4. CASE i = 1
    <3>1. d[i] = e /\ c[j - 1] \in Links(c)
      BY <1>4, <1>8, <2>3, <2>4
    <3>2. QED
      BY <1>10, <2>2, <2>3, <3>1
  <2>5. CASE i # 1
    <3>1. d[i] = c[i - 1] /\ i - 1 \in 1 .. n /\ i - 1 # j - 1
      BY <1>2, <1>4, <2>2, <2>5
    <3>2. QED
      BY <1>10, <2>1, <2>2, <2>3, <3>1 DEF Distinct
  <2>6. QED
    BY <1>2, <2>4, <2>5
<1>11. QED
  BY <1>1, <1>4, <1>9, <1>10

\* Chain c without its entry at place n.
Without(c, n, d) ==
  /\ d \in Seq(Entry) /\ Len(d) = Len(c) - 1
  /\ \A i \in 1 .. Len(d) : d[i] = IF i < n THEN c[i] ELSE c[i + 1]

\* Tail takes out the first place.
LEMMA TailIs ==
  ASSUME NEW c \in Seq(Entry), c # <<>>
  PROVE  Without(c, 1, Tail(c)) /\ Head(c) = c[1] /\ 1 \in 1 .. Len(c)
<1>1. Len(c) \in Nat /\ Len(c) > 0
  BY ChainParts
<1>2. /\ Head(c) = c[1] /\ Tail(c) \in Seq(Entry) /\ Len(Tail(c)) = Len(c) - 1
      /\ \A i \in 1 .. Len(Tail(c)) : Tail(c)[i] = c[i + 1]
  BY HeadTailProperties
<1>3. \A i \in 1 .. Len(Tail(c)) : ~(i < 1)
  BY <1>1, <1>2
<1>4. QED
  BY <1>1, <1>2, <1>3 DEF Without

\* What is in front of a place and what is behind it.
LEMMA UnlinkedIs ==
  ASSUME NEW c \in Seq(Entry), NEW n \in 1 .. Len(c)
  PROVE  Without(c, n, SubSeq(c, 1, n - 1) \o SubSeq(c, n + 1, Len(c)))
<1>1. PICK m, j, k, p, q, d :
        /\ m = Len(c) /\ j = n - 1 /\ k = n + 1
        /\ p = SubSeq(c, 1, n - 1) /\ q = SubSeq(c, n + 1, Len(c))
        /\ d = SubSeq(c, 1, n - 1) \o SubSeq(c, n + 1, Len(c))
  OBVIOUS
<1>2. m \in Nat /\ n \in 1 .. m /\ j \in Nat /\ k \in Nat /\ j = n - 1 /\ k = n + 1
      /\ \A i \in 1 .. m : c[i] \in Entry
  BY <1>1, ChainParts
<1>3. p \in Seq(Entry) /\ Len(p) = j /\ \A i \in 1 .. j : p[i] = c[i]
  <2>1. \A i \in 1 .. j : i \in 1 .. m /\ c[i] \in Entry
    BY <1>2
  <2>2. p = SubSeq(c, 1, j)
    BY <1>1
  <2>3. /\ SubSeq(c, 1, j) \in Seq(Entry)
        /\ Len(SubSeq(c, 1, j)) = IF 1 <= j THEN j - 1 + 1 ELSE 0
        /\ \A i \in 1 .. j - 1 + 1 : SubSeq(c, 1, j)[i] = c[1 + i - 1]
    BY <1>2, <2>1, SubSeqProperties
  <2>4. \A i \in 1 .. j : i \in 1 .. j - 1 + 1 /\ 1 + i - 1 = i
    BY <1>2
  <2>5. QED
    BY <1>2, <2>2, <2>3, <2>4
<1>4. q \in Seq(Entry) /\ Len(q) = m - n /\ \A i \in 1 .. m - n : q[i] = c[n + i]
  <2>1. \A i \in k .. m : i \in 1 .. m /\ c[i] \in Entry
    BY <1>2
  <2>2. q = SubSeq(c, k, m)
    BY <1>1
  <2>3. /\ SubSeq(c, k, m) \in Seq(Entry)
        /\ Len(SubSeq(c, k, m)) = IF k <= m THEN m - k + 1 ELSE 0
        /\ \A i \in 1 .. m - k + 1 : SubSeq(c, k, m)[i] = c[k + i - 1]
    BY <1>2, <2>1, SubSeqProperties
  <2>4. \A i \in 1 .. m - n : i \in 1 .. m - k + 1 /\ k + i - 1 = n + i
    BY <1>2
  <2>5. (IF k <= m THEN m - k + 1 ELSE 0) = m - n
    BY <1>2
  <2>6. QED
    BY <2>2, <2>3, <2>4, <2>5
<1>5. d \in Seq(Entry) /\ Len(d) = m - 1
      /\ \A i \in 1 .. m - 1 : d[i] = IF i <= j THEN p[i] ELSE q[i - j]
  <2>1. d = p \o q
    BY <1>1
  <2>2. /\ p \o q \in Seq(Entry) /\ Len(p \o q) = Len(p) + Len(q)
        /\ \A i \in 1 .. Len(p) + Len(q) :
             (p \o q)[i] = IF i <= Len(p) THEN p[i] ELSE q[i - Len(p)]
    BY <1>3, <1>4, ConcatProperties
  <2>3. j + (m - n) = m - 1
    BY <1>2
  <2>4. QED
    BY <1>3, <1>4, <2>1, <2>2, <2>3
<1>6. ASSUME NEW i \in 1 .. m - 1 PROVE d[i] = IF i < n THEN c[i] ELSE c[i + 1]
  <2>1. CASE i < n
    <3>1. i \in 1 .. j /\ i <= j
      BY <1>2, <2>1
    <3>2. QED
      BY <1>3, <1>5, <2>1, <3>1
  <2>2. CASE ~(i < n)
    <3>1. ~(i <= j) /\ i - j \in 1 .. m - n /\ n + (i - j) = i + 1
      BY <1>2, <2>2
    <3>2. QED
      BY <1>4, <1>5, <2>2, <3>1
  <2>3. QED
    BY <2>1, <2>2
<1>7. QED
  BY <1>1, <1>5, <1>6 DEF Without

\* The other entries of the chain stay.
LEMMA ChainShorter ==
  ASSUME NEW c \in Seq(Entry), Distinct(c), NEW n \in 1 .. Len(c), NEW d, Without(c, n, d)
  PROVE  /\ d \in Seq(Entry) /\ Len(d) + 1 = Len(c)
         /\ c[n] \in Entry /\ c[n] \in Links(c)
         /\ Links(d) = Links(c) \ {c[n]} /\ Distinct(d)
<1>1. PICK m : m = Len(c)
  OBVIOUS
<1>2. m \in Nat /\ n \in 1 .. m /\ DOMAIN c = 1 .. m /\ \A i \in 1 .. m : c[i] \in Entry
  BY <1>1, ChainParts
<1>3. /\ d \in Seq(Entry) /\ Len(d) = m - 1 /\ DOMAIN d = 1 .. m - 1
      /\ \A i \in 1 .. m - 1 : d[i] = IF i < n THEN c[i] ELSE c[i + 1]
  <2>1. d \in Seq(Entry) /\ Len(d) = m - 1
    BY <1>1 DEF Without
  <2>2. DOMAIN d = 1 .. Len(d)
    BY <2>1, ChainParts
  <2>3. QED
    BY <1>1, <2>1, <2>2 DEF Without
<1>4. \A f : f \in Links(d) <=> \E i \in 1 .. m - 1 : d[i] = f
  BY <1>3, ChainParts
<1>5. \A f : f \in Links(c) <=> \E i \in 1 .. m : c[i] = f
  BY <1>1, ChainParts
<1>6. \A i, j \in 1 .. m : c[i].key = c[j].key => i = j
  BY <1>2 DEF Distinct
<1>7. ASSUME NEW i \in 1 .. m - 1
      PROVE  \E j \in 1 .. m : j # n /\ d[i] = c[j] /\ j = IF i < n THEN i ELSE i + 1
  <2>1. CASE i < n
    BY <1>2, <1>3, <2>1
  <2>2. CASE ~(i < n)
    <3>1. i + 1 \in 1 .. m /\ i + 1 # n
      BY <1>2, <2>2
    <3>2. QED
      BY <1>3, <2>2, <3>1
  <2>3. QED
    BY <2>1, <2>2
<1>8. Links(d) = Links(c) \ {c[n]}
  <2>1. ASSUME NEW f \in Links(d) PROVE f \in Links(c) /\ f # c[n]
    <3>1. PICK i \in 1 .. m - 1 : d[i] = f
      BY <1>4, <2>1
    <3>2. PICK j \in 1 .. m : j # n /\ d[i] = c[j]
      BY <1>7
    <3>3. QED
      BY <1>2, <1>5, <1>6, <3>1, <3>2
  <2>2. ASSUME NEW f \in Links(c), f # c[n] PROVE f \in Links(d)
    <3>1. PICK j \in 1 .. m : c[j] = f
      BY <1>5, <2>2
    <3>2. CASE j < n
      <4>1. j \in 1 .. m - 1
        BY <1>2, <3>2
      <4>2. QED
        BY <1>3, <1>4, <3>1, <3>2, <4>1
    <3>3. CASE j > n
      <4>1. j - 1 \in 1 .. m - 1 /\ ~(j - 1 < n) /\ (j - 1) + 1 = j
        BY <1>2, <3>3
      <4>2. d[j - 1] = c[j]
        BY <1>3, <4>1
      <4>3. QED
        BY <1>4, <3>1, <4>1, <4>2
    <3>4. j # n
      BY <2>2, <3>1
    <3>5. QED
      BY <1>2, <3>2, <3>3, <3>4
  <2>3. QED
    BY <2>1, <2>2
<1>9. Distinct(d)
  <2>1. SUFFICES ASSUME NEW i \in 1 .. m - 1, NEW j \in 1 .. m - 1, d[i].key = d[j].key
                 PROVE  i = j
    BY <1>3 DEF Distinct
  <2>2. PICK u \in 1 .. m : d[i] = c[u] /\ u = IF i < n THEN i ELSE i + 1
    BY <1>7
  <2>3. PICK v \in 1 .. m : d[j] = c[v] /\ v = IF j < n THEN j ELSE j + 1
    BY <1>7
  <2>4. u = v
    BY <1>6, <2>1, <2>2, <2>3
  <2>5. QED
    BY <1>2, <2>2, <2>3, <2>4
<1>10. QED
  BY <1>1, <1>2, <1>3, <1>5, <1>8, <1>9

\* A value is replaced in place.
LEMMA ChainReplaced ==
  ASSUME NEW c \in Seq(Entry), Distinct(c), NEW n \in 1 .. Len(c), NEW v \in Vals
  PROVE  LET d == [c EXCEPT ![n].val = v]
             e == [key |-> c[n].key, val |-> v]
         IN /\ d \in Seq(Entry) /\ Len(d) = Len(c) /\ Distinct(d)
            /\ c[n] \in Links(c) /\ e \in Entry /\ Links(d) = (Links(c) \ {c[n]}) \cup {e}
<1>1. PICK d, e, m :
        d = [c EXCEPT ![n].val = v] /\ e = [key |-> c[n].key, val |-> v] /\ m = Len(c)
  OBVIOUS
<1>2. m \in Nat /\ n \in 1 .. m /\ DOMAIN c = 1 .. m /\ \A i \in 1 .. m : c[i] \in Entry
  BY <1>1, ChainParts
<1>3. c[n] \in Entry /\ c[n].key \in Keys /\ e \in Entry /\ e.key = c[n].key
  BY <1>1, <1>2, EntryParts
<1>4. [c[n] EXCEPT !.val = v] = e
  BY <1>1, <1>3 DEF Entry
<1>5. d = [c EXCEPT ![n] = e]
  BY <1>1, <1>4
<1>6. c \in [1 .. m -> Entry]
  BY <1>1, <1>2
<1>7. d \in [1 .. m -> Entry] /\ \A i \in 1 .. m : d[i] = IF i = n THEN e ELSE c[i]
  BY <1>2, <1>3, <1>5, <1>6
<1>8. d \in Seq(Entry) /\ Len(d) = m /\ DOMAIN d = 1 .. m
  BY <1>2, <1>7
<1>9. \A f : f \in Links(d) <=> \E i \in 1 .. m : d[i] = f
  BY <1>8, ChainParts
<1>10. \A f : f \in Links(c) <=> \E i \in 1 .. m : c[i] = f
  BY <1>1, ChainParts
<1>11. \A i, j \in 1 .. m : c[i].key = c[j].key => i = j
  BY <1>2 DEF Distinct
<1>12. \A i \in 1 .. m : d[i].key = c[i].key
  BY <1>3, <1>7
<1>13. Distinct(d)
  BY <1>8, <1>11, <1>12 DEF Distinct
<1>14. Links(d) = (Links(c) \ {c[n]}) \cup {e}
  <2>1. ASSUME NEW f \in Links(d) PROVE f = e \/ (f \in Links(c) /\ f # c[n])
    <3>1. PICK i \in 1 .. m : d[i] = f
      BY <1>9, <2>1
    <3>2. QED
      BY <1>2, <1>7, <1>10, <1>11, <3>1
  <2>2. ASSUME NEW f \in Links(c), f # c[n] PROVE f \in Links(d)
    BY <1>7, <1>9, <1>10, <2>2
  <2>3. e \in Links(d)
    BY <1>2, <1>7, <1>9
  <2>4. QED
    BY <2>1, <2>2, <2>3
<1>15. QED
  BY <1>1, <1>2, <1>3, <1>8, <1>10, <1>13, <1>14

-----------------------------------------------------------------------------
(***************************************************************************)
(* Tables.                                                                 *)
(***************************************************************************)
\* Every key has a chain in a table that is there.
LEMMA IndexType ==
  ASSUME NEW t, t.size \in Nat, t.size # 0, NEW k \in Keys
  PROVE  Index(t, k) \in 0 .. t.size - 1
<1>1. PICK h, n : h = Hash[k] /\ n = t.size
  OBVIOUS
<1>2. h \in Nat /\ n \in Nat /\ n > 0
  BY <1>1, HashAssumption
<1>3. h % n \in 0 .. n - 1
  BY <1>2
<1>4. QED
  BY <1>1, <1>3 DEF Index

\* A table by its chains.
LEMMA TableParts ==
  ASSUME NEW t, Table(t)
  PROVE  /\ t.size \in Nat /\ t.used \in Nat
         /\ DOMAIN t.table = 0 .. t.size - 1
         /\ \A i \in 0 .. t.size - 1 : t.table[i] \in Seq(Entry)
         /\ \A e : e \in Held(t) <=> \E i \in 0 .. t.size - 1 : e \in Links(t.table[i])
         /\ Held(t) \subseteq Entry
         /\ \A x : x \in Slots(t)
              <=> \E i \in 0 .. t.size - 1 : \E j \in 1 .. Len(t.table[i]) : x = <<i, j>>
<1>1. /\ t.size \in Nat /\ t.used \in Nat
      /\ DOMAIN t.table = 0 .. t.size - 1
      /\ \A i \in 0 .. t.size - 1 : t.table[i] \in Seq(Entry)
  BY DEF Table
<1>2. \A e : e \in Held(t) <=> \E i \in 0 .. t.size - 1 : e \in Links(t.table[i])
  BY <1>1 DEF Held
<1>3. Held(t) \subseteq Entry
  BY <1>1, <1>2, ChainParts
<1>4. \A i \in 0 .. t.size - 1 : DOMAIN t.table[i] = 1 .. Len(t.table[i])
  BY <1>1, ChainParts
<1>5. \A x : x \in Slots(t)
        <=> \E i \in 0 .. t.size - 1 : \E j \in 1 .. Len(t.table[i]) : x = <<i, j>>
  BY <1>1, <1>4 DEF Slots
<1>6. QED
  BY <1>1, <1>2, <1>3, <1>5

\* Where an entry of a sound table is: in the chain of its hash; and its key is
\* its own.
LEMMA HeldPlace ==
  ASSUME NEW t, Sound(t), NEW e \in Held(t)
  PROVE  /\ e \in Entry /\ t.size # 0
         /\ Index(t, e.key) \in 0 .. t.size - 1 /\ e \in Links(t.table[Index(t, e.key)])
         /\ \A f \in Held(t) : f.key = e.key => f = e
<1>1. Table(t)
  BY DEF Sound
<1>2. PICK i \in 0 .. t.size - 1 : e \in Links(t.table[i])
  BY <1>1, TableParts
<1>3. Index(t, e.key) = i
  BY <1>2 DEF Sound
<1>4. e \in Entry /\ t.size # 0
  BY <1>1, <1>2, TableParts
<1>5. ASSUME NEW f \in Held(t), f.key = e.key PROVE f = e
  <2>1. PICK j \in 0 .. t.size - 1 : f \in Links(t.table[j])
    BY <1>1, TableParts
  <2>2. Index(t, f.key) = j
    BY <2>1 DEF Sound
  <2>3. j = i
    BY <1>3, <1>5, <2>2
  <2>4. PICK c : c = t.table[i]
    OBVIOUS
  <2>5. c \in Seq(Entry) /\ Distinct(c) /\ e \in Links(c) /\ f \in Links(c)
    BY <1>1, <1>2, <2>1, <2>3, <2>4, TableParts DEF Sound
  <2>6. PICK a \in 1 .. Len(c), b \in 1 .. Len(c) : c[a] = e /\ c[b] = f
    BY <2>5, ChainParts
  <2>7. a \in DOMAIN c /\ b \in DOMAIN c
    BY <2>5, ChainParts
  <2>8. QED
    BY <1>5, <2>5, <2>6, <2>7 DEF Distinct
<1>6. QED
  BY <1>2, <1>3, <1>4, <1>5

\* Table t with its chain m replaced by c and its count by n.
Altered(t, m, c, n) == [size |-> t.size, used |-> n, table |-> [t.table EXCEPT ![m] = c]]

\* The count stays right when one chain gets longer or shorter by one, or not
\* at all.
LEMMA SlotsAltered ==
  ASSUME NEW t, Table(t), IsFiniteSet(Slots(t)), t.used = Cardinality(Slots(t)),
         NEW m \in 0 .. t.size - 1, NEW c \in Seq(Entry), NEW n \in Int,
         \/ Len(c) = Len(t.table[m]) + 1 /\ n = t.used + 1
         \/ Len(c) + 1 = Len(t.table[m]) /\ n = t.used - 1
         \/ Len(c) = Len(t.table[m]) /\ n = t.used,
         NEW u, u = Altered(t, m, c, n)
  PROVE  /\ IsFiniteSet(Slots(u)) /\ n = Cardinality(Slots(u))
         /\ Table(u) /\ u = [size |-> u.size, used |-> u.used, table |-> u.table]
         /\ u.size = t.size /\ u.used = n /\ u.table[m] = c
         /\ \A i \in 0 .. t.size - 1 : i # m => u.table[i] = t.table[i]
<1>1. PICK o, s, k : o = t.table[m] /\ s = t.size /\ k = Len(t.table[m])
  OBVIOUS
<1>2. /\ s \in Nat /\ m \in 0 .. s - 1 /\ k \in Nat /\ Len(c) \in Nat
      /\ DOMAIN t.table = 0 .. s - 1 /\ \A i \in 0 .. s - 1 : t.table[i] \in Seq(Entry)
  BY <1>1, TableParts, LenProperties
<1>3. /\ u.size = s /\ u.used = n /\ u.table = [t.table EXCEPT ![m] = c]
      /\ u = [size |-> u.size, used |-> u.used, table |-> u.table]
  BY <1>1 DEF Altered
<1>4. /\ u.table \in [0 .. s - 1 -> Seq(Entry)] /\ u.table[m] = c
      /\ \A i \in 0 .. s - 1 : i # m => u.table[i] = t.table[i]
  <2>1. t.table \in [0 .. s - 1 -> Seq(Entry)]
    BY <1>1 DEF Table
  <2>2. QED
    BY <1>2, <1>3, <2>1
<1>5. \A x : x \in Slots(t) <=> \E i \in 0 .. s - 1 : \E j \in 1 .. Len(t.table[i]) : x = <<i, j>>
  <2>1. \A x : x \in Slots(t)
          <=> \E i \in 0 .. t.size - 1 : \E j \in 1 .. Len(t.table[i]) : x = <<i, j>>
    BY TableParts
  <2>2. QED
    BY <1>1, <2>1
<1>6. \A x : x \in Slots(u) <=> \E i \in 0 .. s - 1 : \E j \in 1 .. Len(u.table[i]) : x = <<i, j>>
  <2>1. DOMAIN u.table = 0 .. s - 1
    BY <1>4
  <2>2. \A i \in 0 .. s - 1 : DOMAIN u.table[i] = 1 .. Len(u.table[i])
    BY <1>4, ChainParts
  <2>3. QED
    BY <2>1, <2>2 DEF Slots
<1>7. IsFiniteSet(Slots(u)) /\ n = Cardinality(Slots(u)) /\ n \in Nat
  <2>1. CASE Len(c) = k + 1 /\ n = t.used + 1
    <3>1. \A j : j \in 1 .. k + 1 <=> j \in 1 .. k \/ j = k + 1
      BY <1>2
    <3>2. Slots(u) = Slots(t) \cup {<<m, k + 1>>}
      <4>1. ASSUME NEW x \in Slots(u) PROVE x \in Slots(t) \cup {<<m, k + 1>>}
        <5>1. PICK i \in 0 .. s - 1 : \E j \in 1 .. Len(u.table[i]) : x = <<i, j>>
          BY <1>6, <4>1
        <5>2. CASE i = m
          <6>1. Len(u.table[i]) = k + 1
            BY <1>4, <2>1, <5>2
          <6>2. PICK j \in 1 .. k + 1 : x = <<m, j>>
            BY <5>1, <5>2, <6>1
          <6>3. j \in 1 .. k => x \in Slots(t)
            BY <1>1, <1>2, <1>5, <6>2
          <6>4. QED
            BY <3>1, <6>2, <6>3
        <5>3. CASE i # m
          BY <1>4, <1>5, <5>1, <5>3
        <5>4. QED
          BY <5>2, <5>3
      <4>2. ASSUME NEW x \in Slots(t) PROVE x \in Slots(u)
        <5>1. PICK i \in 0 .. s - 1 : \E j \in 1 .. Len(t.table[i]) : x = <<i, j>>
          BY <1>5, <4>2
        <5>2. CASE i = m
          <6>1. PICK j \in 1 .. k : x = <<m, j>>
            BY <1>1, <5>1, <5>2
          <6>2. j \in 1 .. Len(u.table[m])
            BY <1>4, <2>1, <3>1
          <6>3. QED
            BY <1>2, <1>6, <6>1, <6>2
        <5>3. CASE i # m
          BY <1>4, <1>6, <5>1, <5>3
        <5>4. QED
          BY <5>2, <5>3
      <4>3. <<m, k + 1>> \in Slots(u)
        <5>1. k + 1 \in 1 .. Len(u.table[m])
          BY <1>2, <1>4, <2>1
        <5>2. QED
          BY <1>2, <1>6, <5>1
      <4>4. QED
        BY <4>1, <4>2, <4>3
    <3>3. <<m, k + 1>> \notin Slots(t)
      <4>1. SUFFICES ASSUME NEW i \in 0 .. s - 1, NEW j \in 1 .. Len(t.table[i]),
                            <<m, k + 1>> = <<i, j>>
                     PROVE  FALSE
        BY <1>5
      <4>2. i = m /\ j = k + 1
        BY <4>1
      <4>3. j \in 1 .. k
        BY <1>1, <4>1, <4>2
      <4>4. QED
        BY <1>2, <4>2, <4>3
    <3>4. PICK x : x = <<m, k + 1>>
      OBVIOUS
    <3>5. Slots(u) = Slots(t) \cup {x} /\ x \notin Slots(t)
      BY <3>2, <3>3, <3>4
    <3>6. IsFiniteSet(Slots(u)) /\ Cardinality(Slots(u)) = Cardinality(Slots(t)) + 1
      BY <3>5, FS_AddElement
    <3>7. t.used \in Nat
      BY TableParts
    <3>8. QED
      BY <2>1, <3>6, <3>7
  <2>2. CASE Len(c) + 1 = k /\ n = t.used - 1
    <3>1. k \in 1 .. k /\ \A j : j \in 1 .. Len(c) <=> j \in 1 .. k /\ j # k
      BY <1>2, <2>2
    <3>2. Slots(u) = Slots(t) \ {<<m, k>>}
      <4>1. ASSUME NEW x \in Slots(u) PROVE x \in Slots(t) /\ x # <<m, k>>
        <5>1. PICK i \in 0 .. s - 1 : \E j \in 1 .. Len(u.table[i]) : x = <<i, j>>
          BY <1>6, <4>1
        <5>0. PICK j \in 1 .. Len(u.table[i]) : x = <<i, j>>
          BY <5>1
        <5>2. CASE i = m
          <6>1. j \in 1 .. k /\ j # k
            BY <1>4, <3>1, <5>2
          <6>2. QED
            BY <1>1, <1>2, <1>5, <5>0, <5>2, <6>1
        <5>3. CASE i # m
          <6>1. j \in 1 .. Len(t.table[i])
            BY <1>4, <5>3
          <6>2. x \in Slots(t)
            BY <1>5, <5>0, <6>1
          <6>3. QED
            BY <5>0, <5>3, <6>2
        <5>4. QED
          BY <5>2, <5>3
      <4>2. ASSUME NEW x \in Slots(t), x # <<m, k>> PROVE x \in Slots(u)
        <5>1. PICK i \in 0 .. s - 1 : \E j \in 1 .. Len(t.table[i]) : x = <<i, j>>
          BY <1>5, <4>2
        <5>0. PICK j \in 1 .. Len(t.table[i]) : x = <<i, j>>
          BY <5>1
        <5>2. CASE i = m
          <6>1. j \in 1 .. k /\ j # k
            BY <1>1, <4>2, <5>0, <5>2
          <6>2. j \in 1 .. Len(u.table[m])
            BY <1>4, <3>1, <6>1
          <6>3. QED
            BY <1>2, <1>6, <5>0, <5>2, <6>2
        <5>3. CASE i # m
          <6>1. j \in 1 .. Len(u.table[i])
            BY <1>4, <5>3
          <6>2. QED
            BY <1>6, <5>0, <6>1
        <5>4. QED
          BY <5>2, <5>3
      <4>3. QED
        BY <4>1, <4>2
    <3>3. <<m, k>> \in Slots(t)
      BY <1>1, <1>2, <1>5, <3>1
    <3>4. PICK x : x = <<m, k>>
      OBVIOUS
    <3>5. Slots(u) = Slots(t) \ {x} /\ x \in Slots(t)
      BY <3>2, <3>3, <3>4
    <3>6. IsFiniteSet(Slots(u)) /\ Cardinality(Slots(u)) = Cardinality(Slots(t)) - 1
      BY <3>5, FS_RemoveElement
    <3>7. Cardinality(Slots(u)) \in Nat
      BY <3>6, FS_CardinalityType
    <3>8. QED
      BY <2>2, <3>6, <3>7
  <2>3. CASE Len(c) = k /\ n = t.used
    <3>1. \A i \in 0 .. s - 1 : Len(u.table[i]) = Len(t.table[i])
      BY <1>1, <1>4, <2>3
    <3>2. Slots(u) = Slots(t)
      BY <1>5, <1>6, <3>1
    <3>3. t.used \in Nat
      BY TableParts
    <3>4. QED
      BY <2>3, <3>2, <3>3
  <2>4. QED
    BY <1>1, <2>1, <2>2, <2>3
<1>8. Table(u)
  BY <1>2, <1>3, <1>4, <1>7 DEF Table
<1>9. QED
  BY <1>1, <1>3, <1>4, <1>7, <1>8

\* Chain c may take the place of chain m of t, with n entries in the table then.
Fits(t, m, c, n) ==
  /\ Sound(t) /\ m \in 0 .. t.size - 1 /\ c \in Seq(Entry) /\ n \in Int
  /\ \/ Len(c) = Len(t.table[m]) + 1 /\ n = t.used + 1
     \/ Len(c) + 1 = Len(t.table[m]) /\ n = t.used - 1
     \/ Len(c) = Len(t.table[m]) /\ n = t.used
  /\ Distinct(c) /\ \A e \in Links(c) : Index(t, e.key) = m

\* What u then has of t.
Differs(t, m, c, u) ==
  /\ Sound(u) /\ u.size = t.size /\ u.table[m] = c
  /\ \A i \in 0 .. t.size - 1 : i # m => u.table[i] = t.table[i]
  /\ Held(u) = (Held(t) \ Links(t.table[m])) \cup Links(c)

\* And the table stays sound when the new chain is.
LEMMA SoundAltered ==
  ASSUME NEW t, NEW m, NEW c, NEW n, Fits(t, m, c, n)
  PROVE  Differs(t, m, c, Altered(t, m, c, n)) /\ Altered(t, m, c, n).used = n
<1>0. PICK u : u = Altered(t, m, c, n)
  OBVIOUS
<1>1. /\ Table(t) /\ IsFiniteSet(Slots(t)) /\ t.used = Cardinality(Slots(t))
      /\ Sound(t) /\ m \in 0 .. t.size - 1 /\ c \in Seq(Entry) /\ n \in Int
      /\ Distinct(c) /\ \A e \in Links(c) : Index(t, e.key) = m
  BY DEF Sound, Fits
<1>2. /\ IsFiniteSet(Slots(u)) /\ n = Cardinality(Slots(u))
      /\ Table(u) /\ u = [size |-> u.size, used |-> u.used, table |-> u.table]
      /\ u.size = t.size /\ u.used = n /\ u.table[m] = c
      /\ \A i \in 0 .. t.size - 1 : i # m => u.table[i] = t.table[i]
  BY <1>0, <1>1, SlotsAltered DEF Fits
<1>3. \A k : Index(u, k) = Index(t, k)
  BY <1>2 DEF Index
<1>4. \A i \in 0 .. t.size - 1 : \A e \in Links(t.table[i]) : Index(t, e.key) = i
  BY <1>1 DEF Sound
<1>5. ASSUME NEW i \in 0 .. t.size - 1
      PROVE  Distinct(u.table[i]) /\ \A e \in Links(u.table[i]) : Index(u, e.key) = i
  <2>1. CASE i = m
    BY <1>1, <1>2, <1>3, <2>1
  <2>2. CASE i # m
    <3>1. u.table[i] = t.table[i] /\ Distinct(t.table[i])
      BY <1>1, <1>2, <2>2 DEF Sound
    <3>2. QED
      BY <1>3, <1>4, <3>1
  <2>3. QED
    BY <2>1, <2>2
<1>6. Sound(u)
  BY <1>2, <1>5 DEF Sound
<1>7. /\ \A e : e \in Held(t) <=> \E i \in 0 .. t.size - 1 : e \in Links(t.table[i])
      /\ \A e : e \in Held(u) <=> \E i \in 0 .. t.size - 1 : e \in Links(u.table[i])
  BY <1>1, <1>2, TableParts
<1>8. ASSUME NEW e \in Held(u) PROVE e \in (Held(t) \ Links(t.table[m])) \cup Links(c)
  <2>1. PICK i \in 0 .. t.size - 1 : e \in Links(u.table[i])
    BY <1>7, <1>8
  <2>2. CASE i = m
    BY <1>2, <2>1, <2>2
  <2>3. CASE i # m
    <3>1. e \in Links(t.table[i])
      BY <1>2, <2>1, <2>3
    <3>2. e \notin Links(t.table[m])
      BY <1>1, <1>4, <2>3, <3>1
    <3>3. QED
      BY <1>7, <3>1, <3>2
  <2>4. QED
    BY <2>2, <2>3
<1>9. ASSUME NEW e \in Held(t), e \notin Links(t.table[m]) PROVE e \in Held(u)
  <2>1. PICK i \in 0 .. t.size - 1 : e \in Links(t.table[i])
    BY <1>7
  <2>2. i # m /\ u.table[i] = t.table[i]
    BY <1>2, <1>9, <2>1
  <2>3. QED
    BY <1>7, <2>1, <2>2
<1>10. \A e \in Links(c) : e \in Held(u)
  BY <1>1, <1>2, <1>7
<1>11. Differs(t, m, c, u)
  BY <1>2, <1>6, <1>8, <1>9, <1>10 DEF Differs
<1>12. QED
  BY <1>0, <1>2, <1>11

\* An entry with a new key is put into its chain.
LEMMA PushSound ==
  ASSUME NEW t, Sound(t), t.size # 0, NEW e \in Entry, \A f \in Held(t) : f.key # e.key
  PROVE  /\ Sound(Push(t, e)) /\ Held(Push(t, e)) = Held(t) \cup {e}
         /\ Push(t, e).size = t.size
<1>1. PICK m, o, c, n, u :
        /\ m = Index(t, e.key) /\ o = t.table[Index(t, e.key)]
        /\ c = <<e>> \o t.table[Index(t, e.key)] /\ n = t.used + 1 /\ u = Push(t, e)
  OBVIOUS
<1>2. Table(t) /\ t.size \in Nat /\ t.used \in Nat /\ e.key \in Keys
  BY EntryParts DEF Sound, Table
<1>3. m \in 0 .. t.size - 1 /\ o = t.table[m] /\ o \in Seq(Entry) /\ c = <<e>> \o o
  BY <1>1, <1>2, IndexType, TableParts
<1>4. Distinct(o) /\ \A f \in Links(o) : Index(t, f.key) = m /\ f \in Held(t)
  BY <1>2, <1>3, TableParts DEF Sound
<1>5. /\ c \in Seq(Entry) /\ Len(c) = Len(o) + 1 /\ Links(c) = Links(o) \cup {e}
      /\ Distinct(c)
  BY <1>3, <1>4, ChainLonger
<1>6. \A f \in Links(c) : Index(t, f.key) = m
  BY <1>1, <1>4, <1>5
<1>7. u = Altered(t, m, c, n)
  <2>1. u = [t EXCEPT !.used = n, !.table[m] = c]
    BY <1>1 DEF Push
  <2>2. t = [size |-> t.size, used |-> t.used, table |-> t.table]
    BY DEF Sound
  <2>3. QED
    BY <2>1, <2>2 DEF Altered
<1>8. n \in Int /\ Len(c) = Len(t.table[m]) + 1 /\ n = t.used + 1
  BY <1>1, <1>2, <1>3, <1>5
<1>9. /\ Sound(u) /\ u.size = t.size
      /\ Held(u) = (Held(t) \ Links(t.table[m])) \cup Links(c)
  <2>1. /\ m \in 0 .. t.size - 1 /\ c \in Seq(Entry) /\ n \in Int
        /\ Len(c) = Len(t.table[m]) + 1 /\ n = t.used + 1
        /\ Distinct(c) /\ (\A g \in Links(c) : Index(t, g.key) = m) /\ u = Altered(t, m, c, n)
    BY <1>3, <1>5, <1>6, <1>7, <1>8
  <2>2. Fits(t, m, c, n)
    BY <2>1 DEF Fits
  <2>3. QED
    BY <2>1, <2>2, SoundAltered DEF Differs
<1>10. Held(u) = Held(t) \cup {e}
  BY <1>3, <1>4, <1>5, <1>9
<1>11. QED
  BY <1>1, <1>9, <1>10

\* c is chain m of t without its entry at place n.
Takes(t, m, n, c) ==
  /\ Sound(t) /\ m \in 0 .. t.size - 1
  /\ n \in 1 .. Len(t.table[m]) /\ Without(t.table[m], n, c)

\* u is t without entry e of its chain m.
Taken(t, m, e, u) ==
  /\ Sound(u) /\ u.size = t.size /\ u.used = t.used - 1
  /\ e \in Held(t) /\ e \in Entry /\ Held(u) = Held(t) \ {e}
  /\ \A i \in 0 .. t.size - 1 : i # m => u.table[i] = t.table[i]

\* An entry is taken out of the chain it is in.
LEMMA TakenSound ==
  ASSUME NEW t, NEW m, NEW n, NEW c, Takes(t, m, n, c)
  PROVE  Taken(t, m, t.table[m][n], Altered(t, m, c, t.used - 1))
<1>1. PICK o, e, k, u : /\ o = t.table[m] /\ e = t.table[m][n] /\ k = t.used - 1
                        /\ u = Altered(t, m, c, t.used - 1)
  OBVIOUS
<1>2. Table(t) /\ t.used \in Nat /\ Sound(t) /\ m \in 0 .. t.size - 1
  BY DEF Sound, Table, Takes
<1>3. o \in Seq(Entry) /\ Distinct(o) /\ e = o[n] /\ n \in 1 .. Len(o) /\ Without(o, n, c)
  BY <1>1, <1>2, TableParts DEF Sound, Takes
<1>4. /\ c \in Seq(Entry) /\ Len(c) + 1 = Len(o) /\ e \in Entry /\ e \in Links(o)
      /\ Links(c) = Links(o) \ {e} /\ Distinct(c)
  BY <1>3, ChainShorter
<1>5. \A f \in Links(o) : Index(t, f.key) = m
  BY <1>1, <1>2 DEF Sound
<1>6. \A f \in Links(c) : Index(t, f.key) = m
  BY <1>4, <1>5
<1>7. k \in Int /\ Len(c) + 1 = Len(t.table[m]) /\ k = t.used - 1 /\ u = Altered(t, m, c, k)
  BY <1>1, <1>2, <1>4
<1>8. /\ Sound(u) /\ u.size = t.size /\ u.used = k
      /\ Held(u) = (Held(t) \ Links(t.table[m])) \cup Links(c)
      /\ \A i \in 0 .. t.size - 1 : i # m => u.table[i] = t.table[i]
  <2>1. Fits(t, m, c, k)
    BY <1>2, <1>4, <1>6, <1>7 DEF Fits
  <2>2. QED
    BY <1>7, <2>1, SoundAltered DEF Differs
<1>9. Links(o) \subseteq Held(t)
  BY <1>1, <1>2, TableParts
<1>10. Held(u) = Held(t) \ {e}
  BY <1>1, <1>4, <1>8, <1>9
<1>11. QED
  BY <1>1, <1>4, <1>8, <1>9, <1>10 DEF Taken

\* A table that was just allocated.
LEMMA EmptySound ==
  ASSUME NEW n \in Nat
  PROVE  Sound(dictHT(n)) /\ Held(dictHT(n)) = {} /\ dictHT(n).size = n /\ dictHT(n).used = 0
<1>1. PICK t : t = dictHT(n)
  OBVIOUS
<1>2. /\ t = [size |-> t.size, used |-> t.used, table |-> t.table]
      /\ t.size = n /\ t.used = 0 /\ t.table = [i \in 0 .. n - 1 |-> <<>>]
  BY <1>1 DEF dictHT
<1>3. \A i \in 0 .. n - 1 : t.table[i] = <<>> /\ t.table[i] \in Seq(Entry)
  BY <1>2
<1>4. Table(t)
  BY <1>2, <1>3 DEF Table
<1>5. \A i \in 0 .. n - 1 : Len(t.table[i]) = 0 /\ Links(t.table[i]) = {} /\ DOMAIN t.table[i] = {}
  BY <1>3, ChainParts
<1>6. Held(t) = {} /\ Slots(t) = {}
  BY <1>2, <1>4, <1>5, TableParts
<1>7. IsFiniteSet(Slots(t)) /\ t.used = Cardinality(Slots(t))
  BY <1>2, <1>6, FS_EmptySet
<1>8. \A i \in 0 .. n - 1 : Distinct(t.table[i]) /\ \A e \in Links(t.table[i]) : Index(t, e.key) = i
  BY <1>5 DEF Distinct
<1>9. Sound(t)
  BY <1>2, <1>4, <1>7, <1>8 DEF Sound
<1>10. QED
  BY <1>1, <1>2, <1>6, <1>9

\* A table without entries is one whose count is 0.
LEMMA UsedIsZero ==
  ASSUME NEW t, Sound(t)
  PROVE  t.used = 0 <=> Held(t) = {}
<1>1. Table(t) /\ IsFiniteSet(Slots(t)) /\ t.used = Cardinality(Slots(t))
  BY DEF Sound
<1>2. t.used = 0 <=> Slots(t) = {}
  BY <1>1, FS_EmptySet
<1>3. Slots(t) = {} <=> Held(t) = {}
  <2>1. ASSUME NEW e \in Held(t) PROVE Slots(t) # {}
    <3>1. PICK i \in 0 .. t.size - 1 : e \in Links(t.table[i])
      BY <1>1, TableParts
    <3>2. PICK j \in 1 .. Len(t.table[i]) : t.table[i][j] = e
      BY <1>1, <3>1, TableParts, ChainParts
    <3>3. <<i, j>> \in Slots(t)
      BY <1>1, TableParts
    <3>4. QED
      BY <3>3
  <2>2. ASSUME NEW x \in Slots(t) PROVE Held(t) # {}
    <3>1. PICK i \in 0 .. t.size - 1 : \E j \in 1 .. Len(t.table[i]) : x = <<i, j>>
      BY <1>1, TableParts
    <3>2. PICK j \in 1 .. Len(t.table[i]) : TRUE
      BY <3>1
    <3>3. t.table[i][j] \in Links(t.table[i])
      BY <1>1, TableParts, ChainParts
    <3>4. QED
      BY <1>1, <3>3, TableParts
  <2>3. QED
    BY <2>1, <2>2
<1>4. QED
  BY <1>2, <1>3

-----------------------------------------------------------------------------
(***************************************************************************)
(* The search in a table.                                                  *)
(***************************************************************************)
\* A key that is in the table has one place in its chain, and First is it; a
\* key that is not has none.
LEMMA PlacesAre ==
  ASSUME NEW t, Sound(t), NEW k \in Keys
  PROVE  /\ \A e \in Held(t) : e.key = k =>
              /\ Places(t, k) = {First(t, k)} /\ Index(t, k) \in 0 .. t.size - 1
              /\ First(t, k) \in 1 .. Len(t.table[Index(t, k)])
              /\ t.table[Index(t, k)][First(t, k)] = e
         /\ (\A e \in Held(t) : e.key # k) => Places(t, k) = {}
<1>1. Table(t)
  BY DEF Sound
<1>2. ASSUME NEW e \in Held(t), e.key = k
      PROVE  /\ Places(t, k) = {First(t, k)} /\ Index(t, k) \in 0 .. t.size - 1
             /\ First(t, k) \in 1 .. Len(t.table[Index(t, k)])
             /\ t.table[Index(t, k)][First(t, k)] = e
  <2>1. PICK m, c : m = Index(t, k) /\ c = t.table[Index(t, k)]
    OBVIOUS
  <2>2. t.size # 0 /\ m \in 0 .. t.size - 1 /\ e \in Links(c)
    BY <1>2, <2>1, HeldPlace
  <2>3. c \in Seq(Entry) /\ Distinct(c) /\ DOMAIN c = 1 .. Len(c) /\ Len(c) \in Nat
    BY <1>1, <2>1, <2>2, TableParts, ChainParts DEF Sound
  <2>4. PICK a \in 1 .. Len(c) : c[a] = e
    BY <2>2, <2>3, ChainParts
  <2>5. Places(t, k) = {i \in 1 .. Len(c) : c[i].key = k}
    BY <2>1, <2>2, <2>3 DEF Places, Chain
  <2>6. Places(t, k) = {a}
    BY <1>2, <2>3, <2>4, <2>5 DEF Distinct
  <2>7. First(t, k) = a
    BY <2>4, <2>6 DEF First
  <2>8. QED
    BY <2>1, <2>2, <2>4, <2>6, <2>7
<1>3. ASSUME \A e \in Held(t) : e.key # k PROVE Places(t, k) = {}
  <2>1. CASE t.size = 0
    BY <2>1 DEF Places, Chain
  <2>2. CASE t.size # 0
    <3>1. PICK m, c : m = Index(t, k) /\ c = t.table[Index(t, k)]
      OBVIOUS
    <3>2. m \in 0 .. t.size - 1
      BY <1>1, <2>2, <3>1, IndexType, TableParts
    <3>3. c \in Seq(Entry) /\ DOMAIN c = 1 .. Len(c) /\ Links(c) \subseteq Held(t)
      BY <1>1, <3>1, <3>2, TableParts, ChainParts
    <3>4. \A i \in 1 .. Len(c) : c[i] \in Held(t)
      BY <3>3, ChainParts
    <3>5. Places(t, k) = {i \in 1 .. Len(c) : c[i].key = k}
      BY <2>2, <3>1, <3>3 DEF Places, Chain
    <3>6. QED
      BY <1>3, <3>4, <3>5
  <2>3. QED
    BY <2>1, <2>2
<1>4. QED
  BY <1>2, <1>3

\* The value found is that of the entry.
LEMMA ValueIs ==
  ASSUME NEW t, Sound(t), NEW k \in Keys
  PROVE  /\ \A e \in Held(t) : e.key = k => ValueIn(t, k) = e.val
         /\ (\A e \in Held(t) : e.key # k) => ValueIn(t, k) = None
<1>1. ASSUME NEW e \in Held(t), e.key = k PROVE ValueIn(t, k) = e.val
  <2>1. /\ Places(t, k) = {First(t, k)}
        /\ t.table[Index(t, k)][First(t, k)] = e
    BY <1>1, PlacesAre
  <2>2. t.size # 0
    BY HeldPlace
  <2>3. QED
    BY <2>1, <2>2 DEF ValueIn, Chain
<1>2. ASSUME \A e \in Held(t) : e.key # k PROVE ValueIn(t, k) = None
  BY <1>2, PlacesAre DEF ValueIn
<1>3. QED
  BY <1>1, <1>2

\* An entry is unlinked.
LEMMA UnlinkSound ==
  ASSUME NEW t, Sound(t), NEW e \in Held(t)
  PROVE  LET u == Unlink(t, e.key) IN
         /\ Sound(u) /\ u.size = t.size /\ Held(u) = Held(t) \ {e}
         /\ \A i \in 0 .. t.size - 1 : t.table[i] = <<>> => u.table[i] = <<>>
<1>1. PICK k, m, n, o, c, u :
        /\ k = e.key /\ m = Index(t, e.key) /\ n = First(t, e.key)
        /\ o = t.table[Index(t, e.key)]
        /\ c = SubSeq(t.table[Index(t, e.key)], 1, First(t, e.key) - 1)
                 \o SubSeq(t.table[Index(t, e.key)], First(t, e.key) + 1,
                           Len(t.table[Index(t, e.key)]))
        /\ u = Unlink(t, e.key)
  OBVIOUS
<1>2. Table(t) /\ e \in Entry /\ k \in Keys
  BY <1>1, HeldPlace, EntryParts DEF Sound
<1>3. /\ m \in 0 .. t.size - 1 /\ n \in 1 .. Len(o) /\ o[n] = e /\ o = t.table[m]
  BY <1>1, <1>2, PlacesAre
<1>4. o \in Seq(Entry)
  BY <1>2, <1>3, TableParts
<1>5. Without(o, n, c)
  <2>1. c = SubSeq(o, 1, n - 1) \o SubSeq(o, n + 1, Len(o))
    BY <1>1
  <2>2. QED
    BY <1>3, <1>4, <2>1, UnlinkedIs
<1>6. u = Altered(t, m, c, t.used - 1)
  <2>1. u = [t EXCEPT !.used = t.used - 1, !.table[m] = c]
    BY <1>1 DEF Unlink
  <2>2. t = [size |-> t.size, used |-> t.used, table |-> t.table]
    BY DEF Sound
  <2>3. QED
    BY <2>1, <2>2 DEF Altered
<1>7. /\ Sound(u) /\ u.size = t.size /\ Held(u) = Held(t) \ {e}
      /\ \A i \in 0 .. t.size - 1 : i # m => u.table[i] = t.table[i]
  <2>1. Takes(t, m, n, c) /\ t.table[m][n] = e
    BY <1>3, <1>5 DEF Takes
  <2>2. QED
    BY <1>6, <2>1, TakenSound DEF Taken
<1>8. ASSUME NEW i \in 0 .. t.size - 1, t.table[i] = <<>> PROVE u.table[i] = <<>>
  <2>1. i # m
    BY <1>3, <1>4, <1>8, ChainParts
  <2>2. QED
    BY <1>7, <1>8, <2>1
<1>9. QED
  BY <1>1, <1>7, <1>8

\* Table t with the value of k replaced, as in SetVal.
WithVal(t, k, v) == [t EXCEPT !.table[Index(t, k)][First(t, k)].val = v]

\* The value of an entry is replaced in its table.
LEMMA WithValSound ==
  ASSUME NEW t, Sound(t), NEW e \in Held(t), NEW v \in Vals
  PROVE  LET u == WithVal(t, e.key, v) IN
         /\ Sound(u) /\ u.size = t.size
         /\ Held(u) = (Held(t) \ {e}) \cup {[key |-> e.key, val |-> v]}
         /\ \A i \in 0 .. t.size - 1 : t.table[i] = <<>> => u.table[i] = <<>>
<1>1. PICK k, m, n, o, c, u, f :
        /\ k = e.key /\ m = Index(t, e.key) /\ n = First(t, e.key)
        /\ o = t.table[Index(t, e.key)]
        /\ c = [t.table[Index(t, e.key)] EXCEPT ![First(t, e.key)].val = v]
        /\ u = WithVal(t, e.key, v)
        /\ f = [key |-> e.key, val |-> v]
  OBVIOUS
<1>2. Table(t) /\ e \in Entry /\ k \in Keys /\ f.key = k
  BY <1>1, HeldPlace, EntryParts DEF Sound
<1>3. /\ m \in 0 .. t.size - 1 /\ n \in 1 .. Len(o) /\ o[n] = e /\ o = t.table[m]
  BY <1>1, <1>2, PlacesAre
<1>4. o \in Seq(Entry) /\ Distinct(o) /\ Links(o) \subseteq Held(t)
  BY <1>2, <1>3, TableParts DEF Sound
<1>5. /\ c \in Seq(Entry) /\ Len(c) = Len(o) /\ Distinct(c) /\ e \in Links(o) /\ f \in Entry
      /\ Links(c) = (Links(o) \ {e}) \cup {f}
  <2>1. c = [o EXCEPT ![n].val = v] /\ f = [key |-> o[n].key, val |-> v]
    BY <1>1, <1>3
  <2>2. o \in Seq(Entry) /\ Distinct(o) /\ n \in 1 .. Len(o)
    BY <1>3, <1>4
  <2>3. LET d == [o EXCEPT ![n].val = v]
            g == [key |-> o[n].key, val |-> v]
        IN /\ d \in Seq(Entry) /\ Len(d) = Len(o) /\ Distinct(d)
           /\ o[n] \in Links(o) /\ g \in Entry /\ Links(d) = (Links(o) \ {o[n]}) \cup {g}
    BY <2>2, ChainReplaced
  <2>4. QED
    BY <1>3, <2>1, <2>3
<1>6. \A g \in Links(c) : Index(t, g.key) = m
  <2>1. \A g \in Links(o) : Index(t, g.key) = m
    BY <1>3 DEF Sound
  <2>2. QED
    BY <1>1, <1>2, <1>5, <2>1
<1>7. PICK j : j = t.used
  OBVIOUS
<1>8. u = Altered(t, m, c, j)
  <2>1. u = [t EXCEPT !.table[m] = c]
    BY <1>1 DEF WithVal
  <2>2. t = [size |-> t.size, used |-> t.used, table |-> t.table]
    BY DEF Sound
  <2>3. QED
    BY <1>7, <2>1, <2>2 DEF Altered
<1>9. j \in Int /\ j = t.used /\ Len(c) = Len(t.table[m])
  BY <1>2, <1>3, <1>5, <1>7 DEF Table
<1>10. /\ Sound(u) /\ u.size = t.size /\ Held(u) = (Held(t) \ Links(t.table[m])) \cup Links(c)
       /\ \A i \in 0 .. t.size - 1 : i # m => u.table[i] = t.table[i]
  <2>1. /\ m \in 0 .. t.size - 1 /\ c \in Seq(Entry) /\ j \in Int
        /\ Len(c) = Len(t.table[m]) /\ j = t.used
        /\ Distinct(c) /\ (\A g \in Links(c) : Index(t, g.key) = m) /\ u = Altered(t, m, c, j)
    BY <1>3, <1>5, <1>6, <1>8, <1>9
  <2>2. Fits(t, m, c, j)
    BY <2>1 DEF Fits
  <2>3. QED
    BY <2>1, <2>2, SoundAltered DEF Differs
<1>11. Held(u) = (Held(t) \ {e}) \cup {f}
  BY <1>3, <1>4, <1>5, <1>10
<1>12. ASSUME NEW i \in 0 .. t.size - 1, t.table[i] = <<>> PROVE u.table[i] = <<>>
  <2>1. i # m
    BY <1>3, <1>4, <1>12, ChainParts
  <2>2. QED
    BY <1>10, <1>12, <2>1
<1>13. QED
  BY <1>1, <1>10, <1>11, <1>12

-----------------------------------------------------------------------------
(***************************************************************************)
(* Dictionaries.                                                           *)
(***************************************************************************)
\* The dictionary with these parts.
Of(a, b, r, x) == [ht0 |-> a, ht1 |-> b, rehashidx |-> r, dead |-> x]

\* What makes these parts a dictionary.
LEMMA OfIs ==
  ASSUME NEW a, NEW b, NEW r, NEW x
  PROVE  /\ Of(a, b, r, x).ht0 = a /\ Of(a, b, r, x).ht1 = b
         /\ Of(a, b, r, x).rehashidx = r /\ Of(a, b, r, x).dead = x
         /\ All(Of(a, b, r, x)) = Held(a) \cup Held(b)
BY DEF Of, All

\* A dictionary by its parts.
LEMMA DictParts ==
  ASSUME NEW d, DictOK(d)
  PROVE  /\ d = Of(d.ht0, d.ht1, d.rehashidx, d.dead)
         /\ Sound(d.ht0) /\ Sound(d.ht1) /\ Table(d.ht0) /\ Table(d.ht1) /\ d.dead \in BOOLEAN
         /\ d.ht0.size \in Nat /\ d.ht1.size \in Nat
         /\ \A e \in Held(d.ht0), f \in Held(d.ht1) : e.key # f.key
         /\ ~dictIsRehashing(d) => d.rehashidx = -1 /\ d.ht1.size = 0 /\ Held(d.ht1) = {}
         /\ dictIsRehashing(d) => d.rehashidx # -1 /\ d.ht1.size # 0 /\ d.ht0.size # 0
         /\ All(d) \subseteq Entry
         /\ \A e, f \in All(d) : e.key = f.key => e = f
<1>1. /\ d = [ht0 |-> d.ht0, ht1 |-> d.ht1, rehashidx |-> d.rehashidx, dead |-> d.dead]
      /\ Sound(d.ht0) /\ Sound(d.ht1) /\ Table(d.ht0) /\ Table(d.ht1) /\ d.dead \in BOOLEAN
      /\ \A e \in Held(d.ht0), f \in Held(d.ht1) : e.key # f.key
  BY DEF DictOK, Sound
<1>2. d.ht0.size \in Nat /\ d.ht1.size \in Nat
  BY <1>1, TableParts
<1>3. ASSUME ~dictIsRehashing(d)
      PROVE  d.rehashidx = -1 /\ d.ht1.size = 0 /\ Held(d.ht1) = {}
  <2>1. d.rehashidx = -1 /\ d.ht1.size = 0
    BY <1>3 DEF dictIsRehashing, DictOK
  <2>2. 0 .. d.ht1.size - 1 = {}
    BY <2>1
  <2>3. QED
    BY <1>1, <2>1, <2>2, TableParts
<1>4. ASSUME dictIsRehashing(d)
      PROVE  d.rehashidx # -1 /\ d.ht1.size # 0 /\ d.ht0.size # 0
  <2>1. d.rehashidx # -1 /\ d.ht1.size # 0 /\ d.rehashidx \in 0 .. d.ht0.size - 1
    BY <1>4 DEF dictIsRehashing, DictOK
  <2>2. QED
    BY <1>2, <2>1
<1>5. All(d) \subseteq Entry
  BY <1>1, TableParts DEF All
<1>6. \A e, f \in All(d) : e.key = f.key => e = f
  <2>1. /\ \A e, f \in Held(d.ht0) : e.key = f.key => e = f
        /\ \A e, f \in Held(d.ht1) : e.key = f.key => e = f
    BY <1>1, HeldPlace
  <2>2. QED
    BY <1>1, <2>1 DEF All
<1>7. QED
  BY <1>1, <1>2, <1>3, <1>4, <1>5, <1>6 DEF Of

\* The least of some numbers.
LEMMA LeastOf ==
  ASSUME NEW n \in Nat, NEW T \in SUBSET (0 .. n), T # {}
  PROVE  LET i == CHOOSE j \in T : \A l \in T : j <= l IN i \in T /\ \A l \in T : i <= l
<1> DEFINE Good == {k \in 0 .. n : k \notin T}
<1>1. SUFFICES ASSUME \A j \in T : \E l \in T : ~(j <= l) PROVE FALSE
  OBVIOUS
<1>2. ASSUME NEW k \in 0 .. n, \A j \in 0 .. k - 1 : j \in Good PROVE k \in Good
  <2>1. SUFFICES ASSUME k \in T PROVE FALSE
    OBVIOUS
  <2>2. PICK l \in T : ~(k <= l)
    BY <1>1, <2>1
  <2>3. l \in 0 .. k - 1
    BY <2>2
  <2>4. QED
    BY <1>2, <2>2, <2>3
<1> HIDE DEF Good
<1>3. \A k \in 0 .. n : k \in Good
  BY <1>2, NumberInduction
<1>4. QED
  BY <1>3 DEF Good

\* A step of the rehash moves an entry, and finds one unless dictDelete has
\* taken the last.
LEMMA RehashStepKeeps ==
  ASSUME NEW d, DictOK(d), dictIsRehashing(d)
  PROVE  LET t == dictRehashStep(d) IN
         /\ DictOK(t) /\ All(t) = All(d)
         /\ t.dead => d.dead \/ d.ht0.used = 0
<1>1. PICK t, a, b, r, x, s :
        /\ t = dictRehashStep(d) /\ a = d.ht0 /\ b = d.ht1 /\ r = d.rehashidx /\ x = d.dead
        /\ s = d.ht0.size
  OBVIOUS
<1>2. /\ d = Of(a, b, r, x) /\ Sound(a) /\ Sound(b) /\ Table(a) /\ x \in BOOLEAN
      /\ s \in Nat /\ s = a.size /\ b.size # 0
      /\ \A e \in Held(a), f \in Held(b) : e.key # f.key
      /\ All(d) = Held(a) \cup Held(b)
  BY <1>1, DictParts DEF All
<1>3. r # -1 /\ r \in 0 .. s - 1 /\ \A i \in 0 .. r - 1 : a.table[i] = <<>>
  BY <1>1 DEF DictOK, dictIsRehashing
<1>4. /\ \A i \in 0 .. s - 1 : a.table[i] \in Seq(Entry)
      /\ \A e : e \in Held(a) <=> \E i \in 0 .. s - 1 : e \in Links(a.table[i])
  BY <1>2, TableParts
<1>5. PICK busy : busy = {i \in r .. s - 1 : a.table[i] # <<>>}
  OBVIOUS
<1>6. CASE busy = {}
  <2>1. t = [d EXCEPT !.dead = TRUE]
    BY <1>1, <1>5, <1>6 DEF dictRehashStep
  <2>2. t = Of(a, b, r, TRUE)
    BY <1>2, <2>1 DEF Of
  <2>3. DictOK(t) /\ All(t) = All(d)
    <3>1. t.ht0 = a /\ t.ht1 = b /\ t.rehashidx = r /\ t.dead = TRUE
      BY <2>2 DEF Of
    <3>2. QED
      BY <1>2, <1>3, <2>2, <3>1 DEF DictOK, All, Of
  <2>4. \A i \in 0 .. s - 1 : a.table[i] = <<>>
    <3>1. \A i \in 0 .. s - 1 : i \in 0 .. r - 1 \/ i \in r .. s - 1
      BY <1>2, <1>3
    <3>2. QED
      BY <1>3, <1>5, <1>6, <3>1
  <2>5. Held(a) = {}
    BY <1>4, <2>4, ChainParts
  <2>6. a.used = 0
    BY <1>2, <2>5, UsedIsZero
  <2>7. QED
    BY <1>1, <2>3, <2>6
<1>7. CASE busy # {}
  <2>1. PICK i : i = CHOOSE j \in busy : \A l \in busy : j <= l
    OBVIOUS
  <2>2. i \in busy /\ \A l \in busy : i <= l
    <3>1. busy \in SUBSET (0 .. s)
      BY <1>2, <1>3, <1>5
    <3>2. QED
      BY <1>2, <1>7, <2>1, <3>1, LeastOf
  <2>3. i \in 0 .. s - 1 /\ a.table[i] # <<>> /\ a.table[i] \in Seq(Entry)
    BY <1>2, <1>3, <1>4, <1>5, <2>2
  <2>4. PICK o, c, e, from, to :
          /\ o = a.table[i] /\ c = Tail(a.table[i]) /\ e = Head(a.table[i])
          /\ from = [a EXCEPT !.used = a.used - 1, !.table[i] = Tail(a.table[i])]
          /\ to = Push(b, Head(a.table[i]))
    OBVIOUS
  <2>5. o \in Seq(Entry) /\ o # <<>> /\ Without(o, 1, c) /\ e = o[1] /\ 1 \in 1 .. Len(o)
    BY <2>3, <2>4, TailIs
  <2>6. Taken(a, i, e, from)
    <3>1. from = Altered(a, i, c, a.used - 1)
      <4>1. from = [a EXCEPT !.used = a.used - 1, !.table[i] = c]
        BY <2>4
      <4>2. a = [size |-> a.size, used |-> a.used, table |-> a.table]
        BY <1>2 DEF Sound
      <4>3. QED
        BY <4>1, <4>2 DEF Altered
    <3>2. PICK n : n = 1
      OBVIOUS
    <3>3. Takes(a, i, n, c)
      BY <1>2, <2>3, <2>4, <2>5, <3>2 DEF Takes
    <3>4. Taken(a, i, a.table[i][n], Altered(a, i, c, a.used - 1))
      BY <3>3, TakenSound
    <3>5. QED
      BY <2>4, <2>5, <3>1, <3>2, <3>4
  <2>7. /\ Sound(from) /\ from.size = s /\ e \in Held(a) /\ e \in Entry
        /\ Held(from) = Held(a) \ {e}
        /\ \A j \in 0 .. s - 1 : j # i => from.table[j] = a.table[j]
    BY <1>2, <2>6 DEF Taken
  <2>8. Sound(to) /\ Held(to) = Held(b) \cup {e} /\ to.size = b.size
    <3>1. \A f \in Held(b) : f.key # e.key
      BY <1>2, <2>7
    <3>2. QED
      BY <1>2, <2>4, <2>7, <3>1, PushSound
  <2>9. \A f \in Held(a) : f.key = e.key => f = e
    BY <1>2, <2>7, HeldPlace
  <2>10. CASE from.used = 0
    <3>1. Held(from) = {}
      BY <2>7, <2>10, UsedIsZero
    <3>2. PICK z : z = dictHT(0)
      OBVIOUS
    <3>3. Sound(z) /\ Held(z) = {} /\ z.size = 0
      <4>1. 0 \in Nat
        OBVIOUS
      <4>2. QED
        BY <3>2, <4>1, EmptySound
    <3>4. t = Of(to, z, -1, x)
      <4>1. t = [d EXCEPT !.ht0 = to, !.ht1 = z, !.rehashidx = -1]
        BY <1>1, <1>5, <1>7, <2>1, <2>4, <2>10, <3>2 DEF dictRehashStep
      <4>2. QED
        BY <1>2, <4>1 DEF Of
    <3>5. t.ht0 = to /\ t.ht1 = z /\ t.rehashidx = -1 /\ t.dead = x
      BY <3>4, OfIs
    <3>6. DictOK(t)
      BY <1>2, <2>8, <3>3, <3>4, <3>5 DEF DictOK, Of
    <3>7. All(t) = All(d)
      BY <1>2, <2>7, <2>8, <3>1, <3>3, <3>5 DEF All
    <3>8. QED
      BY <1>1, <3>5, <3>6, <3>7
  <2>11. CASE from.used # 0
    <3>1. t = Of(from, to, i, x)
      <4>1. t = [d EXCEPT !.ht0 = from, !.ht1 = to, !.rehashidx = i]
        BY <1>1, <1>5, <1>7, <2>1, <2>4, <2>11 DEF dictRehashStep
      <4>2. QED
        BY <1>2, <4>1 DEF Of
    <3>2. t.ht0 = from /\ t.ht1 = to /\ t.rehashidx = i /\ t.dead = x
      BY <3>1, OfIs
    <3>3. \A f \in Held(from), g \in Held(to) : f.key # g.key
      BY <1>2, <2>7, <2>8, <2>9
    <3>4. \A j \in 0 .. i - 1 : from.table[j] = <<>>
      <4>1. ASSUME NEW j \in 0 .. i - 1 PROVE a.table[j] = <<>>
        <5>1. j \in 0 .. s - 1 /\ ~(i <= j)
          BY <1>2, <2>3
        <5>2. j \notin busy
          BY <2>2, <5>1
        <5>3. j \in 0 .. r - 1 \/ j \in r .. s - 1
          BY <1>2, <1>3, <5>1
        <5>4. QED
          BY <1>3, <1>5, <5>2, <5>3
      <4>2. \A j \in 0 .. i - 1 : j \in 0 .. s - 1 /\ j # i
        BY <1>2, <2>3
      <4>3. QED
        BY <2>7, <4>1, <4>2
    <3>5. i # -1
      BY <2>3
    <3>6. DictOK(t)
      BY <1>2, <2>3, <2>7, <2>8, <3>1, <3>2, <3>3, <3>4, <3>5 DEF DictOK, Of
    <3>7. All(t) = All(d)
      BY <1>2, <2>7, <2>8, <3>2 DEF All
    <3>8. QED
      BY <1>1, <3>2, <3>6, <3>7
  <2>12. QED
    BY <2>10, <2>11
<1>8. QED
  BY <1>6, <1>7

\* The search finds the value of an entry in whichever table it is.
LEMMA FindIs ==
  ASSUME NEW d, DictOK(d), NEW k \in Keys
  PROVE  /\ \A e \in All(d) : e.key = k => dictFind(d, k) = e.val /\ dictFind(d, k) # None
         /\ (\A e \in All(d) : e.key # k) => dictFind(d, k) = None
<1>1. /\ Sound(d.ht0) /\ Sound(d.ht1)
      /\ \A e \in Held(d.ht0), f \in Held(d.ht1) : e.key # f.key
      /\ ~dictIsRehashing(d) => Held(d.ht1) = {}
      /\ All(d) \subseteq Entry /\ All(d) = Held(d.ht0) \cup Held(d.ht1)
  BY DictParts DEF All
<1>2. \A e \in All(d) : e.val # None
  BY <1>1, EntryParts, NoneIsNoVal
<1>3. PICK v, w : v = ValueIn(d.ht0, k) /\ w = ValueIn(d.ht1, k)
  OBVIOUS
<1>4. dictFind(d, k) = IF v = None /\ dictIsRehashing(d) THEN w ELSE v
  BY <1>3 DEF dictFind
<1>5. /\ \A e \in Held(d.ht0) : e.key = k => v = e.val
      /\ (\A e \in Held(d.ht0) : e.key # k) => v = None
      /\ \A e \in Held(d.ht1) : e.key = k => w = e.val
      /\ (\A e \in Held(d.ht1) : e.key # k) => w = None
  BY <1>1, <1>3, ValueIs
<1>6. ASSUME NEW e \in Held(d.ht0), e.key = k PROVE dictFind(d, k) = e.val
  <2>1. v = e.val /\ v # None
    BY <1>1, <1>2, <1>5, <1>6
  <2>2. QED
    BY <1>4, <2>1
<1>7. ASSUME NEW e \in Held(d.ht1), e.key = k PROVE dictFind(d, k) = e.val
  <2>1. dictIsRehashing(d)
    BY <1>1
  <2>2. \A f \in Held(d.ht0) : f.key # k
    BY <1>1, <1>7
  <2>3. v = None /\ w = e.val
    BY <1>5, <1>7, <2>2
  <2>4. QED
    BY <1>4, <2>1, <2>3
<1>8. ASSUME \A e \in All(d) : e.key # k PROVE dictFind(d, k) = None
  <2>1. v = None /\ w = None
    BY <1>1, <1>5, <1>8
  <2>2. QED
    BY <1>4, <2>1
<1>9. QED
  BY <1>1, <1>2, <1>6, <1>7, <1>8

\* Allocating a table changes nothing of what is held.
LEMMA ExpandKeeps ==
  ASSUME NEW d, DictOK(d)
  PROVE  LET x == dictExpandIfNeed(d) IN
         /\ DictOK(x) /\ All(x) = All(d) /\ x.dead = d.dead
         /\ x.ht0.size # 0 /\ x.ht0.used = d.ht0.used
<1>1. PICK x, a, b, r, g, n :
        /\ x = dictExpandIfNeed(d) /\ a = d.ht0 /\ b = d.ht1 /\ r = d.rehashidx /\ g = d.dead
        /\ n = WantedSize(d.ht0)
  OBVIOUS
<1>2. /\ d = Of(a, b, r, g) /\ Sound(a) /\ Sound(b) /\ Table(a) /\ g \in BOOLEAN
      /\ a.size \in Nat /\ (dictIsRehashing(d) => a.size # 0)
      /\ (~dictIsRehashing(d) => r = -1 /\ b.size = 0 /\ Held(b) = {})
      /\ All(d) = Held(a) \cup Held(b)
  BY <1>1, DictParts DEF All
<1>3. n \in Nat /\ n # 0
  BY <1>1, <1>2, WantedSizeType
<1>4. PICK z : z = dictHT(n)
  OBVIOUS
<1>5. Sound(z) /\ Held(z) = {} /\ z.size = n /\ z.used = 0
  BY <1>3, <1>4, EmptySound
<1>6. CASE dictIsRehashing(d) \/ n = a.size
  <2>1. x = d
    BY <1>1, <1>6 DEF dictExpandIfNeed
  <2>2. a.size # 0
    BY <1>2, <1>3, <1>6
  <2>3. QED
    BY <1>1, <2>1, <2>2
<1>7. CASE ~dictIsRehashing(d) /\ n # a.size /\ a.size = 0
  <2>1. x = Of(z, b, r, g)
    <3>1. x = [d EXCEPT !.ht0 = z]
      BY <1>1, <1>4, <1>7 DEF dictExpandIfNeed, dictExpand
    <3>2. QED
      BY <1>2, <3>1 DEF Of
  <2>2. x.ht0 = z /\ x.ht1 = b /\ x.rehashidx = r /\ x.dead = g
    BY <2>1 DEF Of
  <2>3. Held(a) = {}
    <3>1. 0 .. a.size - 1 = {}
      BY <1>7
    <3>2. QED
      BY <1>2, <3>1, TableParts
  <2>4. a.used = 0
    BY <1>2, <2>3, UsedIsZero
  <2>5. All(x) = All(d)
    BY <1>2, <1>5, <2>2, <2>3 DEF All
  <2>6. DictOK(x)
    BY <1>2, <1>5, <1>7, <2>1, <2>2 DEF DictOK, Of
  <2>7. QED
    BY <1>1, <1>3, <1>5, <2>2, <2>4, <2>5, <2>6
<1>8. CASE ~dictIsRehashing(d) /\ n # a.size /\ a.size # 0
  <2>1. PICK h : h = 0
    OBVIOUS
  <2>2. x = Of(a, z, h, g)
    <3>1. x = [d EXCEPT !.ht1 = z, !.rehashidx = h]
      BY <1>1, <1>4, <1>8, <2>1 DEF dictExpandIfNeed, dictExpand
    <3>2. QED
      BY <1>2, <3>1 DEF Of
  <2>3. x.ht0 = a /\ x.ht1 = z /\ x.rehashidx = h /\ x.dead = g
    BY <2>2 DEF Of
  <2>4. All(x) = All(d)
    BY <1>2, <1>5, <1>8, <2>3 DEF All
  <2>5. h # -1 /\ h \in 0 .. a.size - 1 /\ 0 .. h - 1 = {}
    BY <1>2, <1>8, <2>1
  <2>6. DictOK(x)
    BY <1>2, <1>3, <1>5, <2>2, <2>3, <2>5 DEF DictOK, Of
  <2>7. QED
    BY <1>1, <1>8, <2>3, <2>4, <2>6
<1>9. QED
  BY <1>6, <1>7, <1>8

\* A new entry is in the dictionary, in either table.
LEMMA AddKeeps ==
  ASSUME NEW d, DictOK(d), NEW e \in Entry, \A f \in All(d) : f.key # e.key
  PROVE  LET t == dictAddEntry(d, e) IN
         /\ DictOK(t) /\ All(t) = All(d) \cup {e}
         /\ t.dead => d.dead \/ d.ht0.used = 0
<1>1. PICK x, t, a, b, r, g, p, q :
        /\ x = dictExpandIfNeed(d) /\ t = dictAddEntry(d, e)
        /\ a = x.ht0 /\ b = x.ht1 /\ r = x.rehashidx /\ g = x.dead
        /\ p = Push(x.ht0, e) /\ q = Push(x.ht1, e)
  OBVIOUS
<1>2. DictOK(x) /\ All(x) = All(d) /\ g = d.dead /\ a.size # 0 /\ a.used = d.ht0.used
  BY <1>1, ExpandKeeps
<1>3. /\ x = Of(a, b, r, g) /\ Sound(a) /\ Sound(b) /\ g \in BOOLEAN
      /\ (dictIsRehashing(x) => r # -1 /\ b.size # 0)
      /\ (~dictIsRehashing(x) => r = -1 /\ b.size = 0 /\ Held(b) = {})
      /\ All(x) = Held(a) \cup Held(b)
      /\ \A f \in Held(a), h \in Held(b) : f.key # h.key
  BY <1>1, <1>2, DictParts DEF All
<1>4. (\A f \in Held(a) : f.key # e.key) /\ (\A f \in Held(b) : f.key # e.key)
  BY <1>2, <1>3
<1>5. CASE dictIsRehashing(x)
  <2>1. Sound(q) /\ Held(q) = Held(b) \cup {e} /\ q.size = b.size
    BY <1>1, <1>3, <1>4, <1>5, PushSound
  <2>2. PICK y : y = [x EXCEPT !.ht1 = q]
    OBVIOUS
  <2>3. y = Of(a, q, r, g)
    BY <1>3, <2>2 DEF Of
  <2>4. y.ht0 = a /\ y.ht1 = q /\ y.rehashidx = r /\ y.dead = g
    BY <2>3 DEF Of
  <2>5. DictOK(y)
    <3>1. /\ a.size # 0 /\ r \in 0 .. a.size - 1
          /\ \A i \in 0 .. r - 1 : a.table[i] = <<>>
      BY <1>1, <1>2, <1>3, <1>5 DEF DictOK
    <3>2. \A f \in Held(a), h \in Held(q) : f.key # h.key
      BY <1>3, <1>4, <2>1
    <3>3. QED
      BY <1>3, <1>5, <2>1, <2>3, <2>4, <3>1, <3>2 DEF DictOK, Of
  <2>6. All(y) = All(d) \cup {e}
    BY <1>2, <1>3, <2>1, <2>4 DEF All
  <2>7. dictIsRehashing(y)
    BY <1>3, <1>5, <2>4 DEF dictIsRehashing
  <2>8. t = dictRehashStep(y)
    BY <1>1, <1>5, <2>2 DEF dictAddEntry
  <2>9. DictOK(t) /\ All(t) = All(y) /\ (t.dead => y.dead \/ y.ht0.used = 0)
    BY <2>5, <2>7, <2>8, RehashStepKeeps
  <2>10. QED
    BY <1>1, <1>2, <2>4, <2>6, <2>9
<1>6. CASE ~dictIsRehashing(x)
  <2>1. Sound(p) /\ Held(p) = Held(a) \cup {e} /\ p.size = a.size
    BY <1>1, <1>2, <1>3, <1>4, PushSound
  <2>2. t = Of(p, b, r, g)
    <3>1. t = [x EXCEPT !.ht0 = p]
      BY <1>1, <1>6 DEF dictAddEntry
    <3>2. QED
      BY <1>3, <3>1 DEF Of
  <2>3. t.ht0 = p /\ t.ht1 = b /\ t.rehashidx = r /\ t.dead = g
    BY <2>2 DEF Of
  <2>4. DictOK(t)
    BY <1>3, <1>6, <2>1, <2>2, <2>3 DEF DictOK, Of
  <2>5. All(t) = All(d) \cup {e}
    BY <1>2, <1>3, <2>1, <2>3 DEF All
  <2>6. QED
    BY <1>1, <1>2, <2>3, <2>4, <2>5
<1>7. QED
  BY <1>5, <1>6

\* One table of a dictionary has an entry that changes or goes: the new table u
\* is sound, and its entries are those given.
LEMMA TableChanged ==
  ASSUME NEW d, DictOK(d), NEW u, Sound(u)
  PROVE  /\ /\ u.size = d.ht0.size
            /\ \A i \in 0 .. u.size - 1 : d.ht0.table[i] = <<>> => u.table[i] = <<>>
            /\ \A e \in Held(u), f \in Held(d.ht1) : e.key # f.key
            => LET t == [d EXCEPT !.ht0 = u] IN
               DictOK(t) /\ All(t) = Held(u) \cup Held(d.ht1) /\ t.dead = d.dead
         /\ /\ u.size = d.ht1.size
            /\ \A e \in Held(d.ht0), f \in Held(u) : e.key # f.key
            => LET t == [d EXCEPT !.ht1 = u] IN
               DictOK(t) /\ All(t) = Held(d.ht0) \cup Held(u) /\ t.dead = d.dead
<1>1. PICK a, b, r, g : a = d.ht0 /\ b = d.ht1 /\ r = d.rehashidx /\ g = d.dead
  OBVIOUS
<1>2. /\ d = Of(a, b, r, g) /\ Sound(a) /\ Sound(b) /\ Table(a) /\ g \in BOOLEAN
      /\ a.size \in Nat
      /\ (r = -1 => b.size = 0)
      /\ (r # -1 => b.size # 0 /\ r \in 0 .. a.size - 1 /\ \A i \in 0 .. r - 1 : a.table[i] = <<>>)
      /\ \A e \in Held(a), f \in Held(b) : e.key # f.key
  BY <1>1, DictParts DEF DictOK
<1>3. ASSUME /\ u.size = a.size
             /\ \A i \in 0 .. u.size - 1 : a.table[i] = <<>> => u.table[i] = <<>>
             /\ \A e \in Held(u), f \in Held(b) : e.key # f.key,
             NEW t, t = [d EXCEPT !.ht0 = u]
      PROVE  DictOK(t) /\ All(t) = Held(u) \cup Held(b) /\ t.dead = g
  <2>1. t = Of(u, b, r, g)
    BY <1>2, <1>3 DEF Of
  <2>2. t.ht0 = u /\ t.ht1 = b /\ t.rehashidx = r /\ t.dead = g
    BY <2>1 DEF Of
  <2>3. r # -1 => \A i \in 0 .. r - 1 : u.table[i] = <<>>
    <3>1. r # -1 => \A i \in 0 .. r - 1 : i \in 0 .. u.size - 1
      BY <1>2, <1>3
    <3>2. QED
      BY <1>2, <1>3, <3>1
  <2>4. DictOK(t)
    BY <1>2, <1>3, <2>1, <2>2, <2>3 DEF DictOK, Of
  <2>5. QED
    BY <2>2, <2>4 DEF All
<1>4. ASSUME /\ u.size = b.size
             /\ \A e \in Held(a), f \in Held(u) : e.key # f.key,
             NEW t, t = [d EXCEPT !.ht1 = u]
      PROVE  DictOK(t) /\ All(t) = Held(a) \cup Held(u) /\ t.dead = g
  <2>1. t = Of(a, u, r, g)
    BY <1>2, <1>4 DEF Of
  <2>2. t.ht0 = a /\ t.ht1 = u /\ t.rehashidx = r /\ t.dead = g
    BY <2>1 DEF Of
  <2>3. DictOK(t)
    BY <1>2, <1>4, <2>1, <2>2 DEF DictOK, Of
  <2>4. QED
    BY <2>2, <2>3 DEF All
<1>5. QED
  BY <1>1, <1>3, <1>4

\* dictDelete's entry goes, wherever it is.
LEMMA RemoveKeeps ==
  ASSUME NEW d, DictOK(d), NEW k \in Keys
  PROVE  /\ \A e \in All(d) : e.key = k =>
              /\ DictOK(Remove(d, k)) /\ All(Remove(d, k)) = All(d) \ {e}
              /\ Remove(d, k).dead = d.dead
         /\ (\A e \in All(d) : e.key # k) => Remove(d, k) = d
<1>1. PICK a, b : a = d.ht0 /\ b = d.ht1
  OBVIOUS
<1>2. /\ Sound(a) /\ Sound(b) /\ All(d) = Held(a) \cup Held(b)
      /\ \A f \in Held(a), h \in Held(b) : f.key # h.key
  BY <1>1, DictParts DEF All
<1>3. /\ \A e \in Held(a) : e.key = k => Places(a, k) # {}
      /\ (\A e \in Held(a) : e.key # k) => Places(a, k) = {}
  <2>1. ASSUME NEW e \in Held(a), e.key = k PROVE Places(a, k) # {}
    <3>1. Places(a, k) = {First(a, k)}
      BY <1>2, <2>1, PlacesAre
    <3>2. QED
      BY <3>1
  <2>2. ASSUME \A e \in Held(a) : e.key # k PROVE Places(a, k) = {}
    BY <1>2, <2>2, PlacesAre
  <2>3. QED
    BY <2>1, <2>2
<1>4. /\ \A e \in All(d) : e.key = k => dictFind(d, k) # None
      /\ (\A e \in All(d) : e.key # k) => dictFind(d, k) = None
  BY FindIs
<1>5. ASSUME NEW e \in Held(a), e.key = k
      PROVE  /\ DictOK(Remove(d, k)) /\ All(Remove(d, k)) = All(d) \ {e}
             /\ Remove(d, k).dead = d.dead
  <2>1. PICK u : u = Unlink(a, k)
    OBVIOUS
  <2>2. /\ Sound(u) /\ u.size = a.size /\ Held(u) = Held(a) \ {e}
        /\ \A i \in 0 .. a.size - 1 : a.table[i] = <<>> => u.table[i] = <<>>
    BY <1>2, <1>5, <2>1, UnlinkSound
  <2>3. Remove(d, k) = [d EXCEPT !.ht0 = u]
    BY <1>1, <1>3, <1>5, <2>1 DEF Remove
  <2>4. PICK t : t = [d EXCEPT !.ht0 = u]
    OBVIOUS
  <2>5. DictOK(t) /\ All(t) = Held(u) \cup Held(b) /\ t.dead = d.dead
    <3>1. \A f \in Held(u), h \in Held(b) : f.key # h.key
      BY <1>2, <2>2
    <3>2. QED
      BY <1>1, <2>2, <2>4, <3>1, TableChanged
  <2>6. e \notin Held(b)
    BY <1>2
  <2>7. QED
    BY <1>2, <2>2, <2>3, <2>4, <2>5, <2>6
<1>6. ASSUME NEW e \in Held(b), e.key = k
      PROVE  /\ DictOK(Remove(d, k)) /\ All(Remove(d, k)) = All(d) \ {e}
             /\ Remove(d, k).dead = d.dead
  <2>1. PICK u : u = Unlink(b, k)
    OBVIOUS
  <2>2. Sound(u) /\ u.size = b.size /\ Held(u) = Held(b) \ {e}
    BY <1>2, <1>6, <2>1, UnlinkSound
  <2>3. Remove(d, k) = [d EXCEPT !.ht1 = u]
    BY <1>1, <1>2, <1>3, <1>4, <1>6, <2>1 DEF Remove
  <2>4. PICK t : t = [d EXCEPT !.ht1 = u]
    OBVIOUS
  <2>5. DictOK(t) /\ All(t) = Held(a) \cup Held(u) /\ t.dead = d.dead
    <3>1. \A f \in Held(a), h \in Held(u) : f.key # h.key
      BY <1>2, <2>2
    <3>2. QED
      BY <1>1, <2>2, <2>4, <3>1, TableChanged
  <2>6. e \notin Held(a)
    BY <1>2
  <2>7. QED
    BY <1>2, <2>2, <2>3, <2>4, <2>5, <2>6
<1>7. ASSUME \A e \in All(d) : e.key # k PROVE Remove(d, k) = d
  BY <1>1, <1>2, <1>3, <1>4, <1>7 DEF Remove
<1>8. QED
  BY <1>2, <1>5, <1>6, <1>7

\* dictReplace's entry gets the new value, wherever it is.
LEMMA SetValKeeps ==
  ASSUME NEW d, DictOK(d), NEW k \in Keys, NEW v \in Vals
  PROVE  /\ \A e \in All(d) : e.key = k =>
              /\ DictOK(SetVal(d, k, v)) /\ SetVal(d, k, v).dead = d.dead
              /\ All(SetVal(d, k, v)) = (All(d) \ {e}) \cup {[key |-> k, val |-> v]}
         /\ (\A e \in All(d) : e.key # k) => SetVal(d, k, v) = d
<1>1. PICK a, b, n : a = d.ht0 /\ b = d.ht1 /\ n = [key |-> k, val |-> v]
  OBVIOUS
<1>2. /\ Sound(a) /\ Sound(b) /\ All(d) = Held(a) \cup Held(b) /\ n.key = k
      /\ \A f \in Held(a), h \in Held(b) : f.key # h.key
  BY <1>1, DictParts DEF All
<1>3. /\ \A e \in Held(a) : e.key = k => Places(a, k) # {}
      /\ (\A e \in Held(a) : e.key # k) => Places(a, k) = {}
  <2>1. ASSUME NEW e \in Held(a), e.key = k PROVE Places(a, k) # {}
    <3>1. Places(a, k) = {First(a, k)}
      BY <1>2, <2>1, PlacesAre
    <3>2. QED
      BY <3>1
  <2>2. ASSUME \A e \in Held(a) : e.key # k PROVE Places(a, k) = {}
    BY <1>2, <2>2, PlacesAre
  <2>3. QED
    BY <2>1, <2>2
<1>4. /\ \A e \in All(d) : e.key = k => dictFind(d, k) # None
      /\ (\A e \in All(d) : e.key # k) => dictFind(d, k) = None
  BY FindIs
<1>5. ASSUME NEW e \in Held(a), e.key = k
      PROVE  /\ DictOK(SetVal(d, k, v)) /\ SetVal(d, k, v).dead = d.dead
             /\ All(SetVal(d, k, v)) = (All(d) \ {e}) \cup {n}
  <2>1. PICK u : u = WithVal(a, k, v)
    OBVIOUS
  <2>2. /\ Sound(u) /\ u.size = a.size /\ Held(u) = (Held(a) \ {e}) \cup {n}
        /\ \A i \in 0 .. a.size - 1 : a.table[i] = <<>> => u.table[i] = <<>>
    BY <1>1, <1>2, <1>5, <2>1, WithValSound
  <2>3. SetVal(d, k, v) = [d EXCEPT !.ht0 = u]
    BY <1>1, <1>3, <1>5, <2>1 DEF SetVal, WithVal
  <2>4. PICK t : t = [d EXCEPT !.ht0 = u]
    OBVIOUS
  <2>5. \A f \in Held(u), h \in Held(b) : f.key # h.key
    BY <1>2, <1>5, <2>2
  <2>6. DictOK(t) /\ All(t) = Held(u) \cup Held(b) /\ t.dead = d.dead
    BY <1>1, <2>2, <2>4, <2>5, TableChanged
  <2>7. e \notin Held(b)
    BY <1>2
  <2>8. QED
    BY <1>2, <2>2, <2>3, <2>4, <2>6, <2>7
<1>6. ASSUME NEW e \in Held(b), e.key = k
      PROVE  /\ DictOK(SetVal(d, k, v)) /\ SetVal(d, k, v).dead = d.dead
             /\ All(SetVal(d, k, v)) = (All(d) \ {e}) \cup {n}
  <2>1. PICK u : u = WithVal(b, k, v)
    OBVIOUS
  <2>2. Sound(u) /\ u.size = b.size /\ Held(u) = (Held(b) \ {e}) \cup {n}
    BY <1>1, <1>2, <1>6, <2>1, WithValSound
  <2>3. SetVal(d, k, v) = [d EXCEPT !.ht1 = u]
    BY <1>1, <1>2, <1>3, <1>4, <1>6, <2>1 DEF SetVal, WithVal
  <2>4. PICK t : t = [d EXCEPT !.ht1 = u]
    OBVIOUS
  <2>5. \A f \in Held(a), h \in Held(u) : f.key # h.key
    BY <1>2, <1>6, <2>2
  <2>6. DictOK(t) /\ All(t) = Held(a) \cup Held(u) /\ t.dead = d.dead
    BY <1>1, <2>2, <2>4, <2>5, TableChanged
  <2>7. e \notin Held(a)
    BY <1>2
  <2>8. QED
    BY <1>2, <2>2, <2>3, <2>4, <2>6, <2>7
<1>7. ASSUME \A e \in All(d) : e.key # k PROVE SetVal(d, k, v) = d
  BY <1>1, <1>2, <1>3, <1>4, <1>7 DEF SetVal
<1>8. QED
  BY <1>1, <1>2, <1>5, <1>6, <1>7

-----------------------------------------------------------------------------
(***************************************************************************)
(* The calls.                                                              *)
(***************************************************************************)
\* The map that a dictionary stands for.
Shown(d) == [k \in Keys |-> dictFind(d, k)]

\* What the map is when entries stay, when one comes, goes or is replaced.
LEMMA ShownSame ==
  ASSUME NEW d, DictOK(d), NEW t, DictOK(t), All(t) = All(d)
  PROVE  Shown(t) = Shown(d)
<1>1. ASSUME NEW k \in Keys PROVE dictFind(t, k) = dictFind(d, k)
  <2>1. CASE \E e \in All(d) : e.key = k
    <3>1. PICK e \in All(d) : e.key = k
      BY <2>1
    <3>2. dictFind(d, k) = e.val /\ dictFind(t, k) = e.val
      BY <3>1, FindIs
    <3>3. QED
      BY <3>2
  <2>2. CASE \A e \in All(d) : e.key # k
    BY <2>2, FindIs
  <2>3. QED
    BY <2>1, <2>2
<1>2. QED
  BY <1>1 DEF Shown

\* A value is added, or replaces that of its key.
LEMMA ShownSet ==
  ASSUME NEW d, DictOK(d), NEW t, DictOK(t), NEW k \in Keys, NEW v \in Vals, NEW S,
         All(t) = S \cup {[key |-> k, val |-> v]},
         S \subseteq All(d), \A e \in All(d) : e.key # k => e \in S
  PROVE  Shown(t) = [Shown(d) EXCEPT ![k] = v]
<1>1. PICK n : n = [key |-> k, val |-> v]
  OBVIOUS
<1>2. n.key = k /\ n.val = v /\ n \in All(t)
  BY <1>1
<1>3. dictFind(t, k) = v
  BY <1>2, FindIs
<1>4. ASSUME NEW j \in Keys, j # k PROVE dictFind(t, j) = dictFind(d, j)
  <2>1. CASE \E e \in All(d) : e.key = j
    <3>1. PICK e \in All(d) : e.key = j
      BY <2>1
    <3>2. e \in All(t)
      BY <1>4, <3>1
    <3>3. dictFind(d, j) = e.val /\ dictFind(t, j) = e.val
      BY <3>1, <3>2, FindIs
    <3>4. QED
      BY <3>3
  <2>2. CASE \A e \in All(d) : e.key # j
    <3>1. \A e \in All(t) : e.key # j
      BY <1>1, <1>2, <1>4, <2>2
    <3>2. QED
      BY <2>2, <3>1, FindIs
  <2>3. QED
    BY <2>1, <2>2
<1>5. QED
  BY <1>3, <1>4 DEF Shown

\* An entry goes.
LEMMA ShownRemoved ==
  ASSUME NEW d, DictOK(d), NEW t, DictOK(t), NEW k \in Keys,
         All(t) \subseteq All(d), \A e \in All(d) : e.key # k => e \in All(t),
         \A e \in All(t) : e.key # k
  PROVE  Shown(t) = [Shown(d) EXCEPT ![k] = None]
<1>1. dictFind(t, k) = None
  BY FindIs
<1>2. ASSUME NEW j \in Keys, j # k PROVE dictFind(t, j) = dictFind(d, j)
  <2>1. CASE \E e \in All(d) : e.key = j
    <3>1. PICK e \in All(d) : e.key = j
      BY <2>1
    <3>2. e \in All(t)
      BY <1>2, <3>1
    <3>3. dictFind(d, j) = e.val /\ dictFind(t, j) = e.val
      BY <3>1, <3>2, FindIs
    <3>4. QED
      BY <3>3
  <2>2. CASE \A e \in All(d) : e.key # j
    <3>1. \A e \in All(t) : e.key # j
      BY <2>2
    <3>2. QED
      BY <2>2, <3>1, FindIs
  <2>3. QED
    BY <2>1, <2>2
<1>3. QED
  BY <1>1, <1>2 DEF Shown

\* An answer of dictFind says whether there is an entry.
LEMMA FoundIs ==
  ASSUME NEW d, DictOK(d), NEW k \in Keys
  PROVE  /\ dictFind(d, k) # None <=> \E e \in All(d) : e.key = k
         /\ Shown(d)[k] = dictFind(d, k)
<1>1. dictFind(d, k) # None <=> \E e \in All(d) : e.key = k
  BY FindIs
<1>2. QED
  BY <1>1 DEF Shown

\* A call returns its dictionary and its answer, or the process is gone.
LEMMA ReturnIs ==
  ASSUME DictInv, NEW d, DictOK(d), NEW answer, Return(d, answer)
  PROVE  /\ DictInv'
         /\ d.dead => Shown(dict') = Shown(dict) /\ reply' = reply
         /\ ~d.dead => dict' = d /\ reply' = answer /\ ~dict'.dead
<1>1. CASE d.dead
  <2>1. PICK a, b, r, x : a = dict.ht0 /\ b = dict.ht1 /\ r = dict.rehashidx /\ x = dict.dead
    OBVIOUS
  <2>2. DictOK(dict) /\ dict = Of(a, b, r, x)
    BY <2>1, DictParts DEF DictInv
  <2>3. dict' = [dict EXCEPT !.dead = TRUE] /\ reply' = reply
    BY <1>1 DEF Return
  <2>4. dict' = Of(a, b, r, TRUE)
    BY <2>2, <2>3 DEF Of
  <2>5. dict'.ht0 = a /\ dict'.ht1 = b /\ dict'.rehashidx = r /\ dict'.dead = TRUE
    BY <2>4 DEF Of
  <2>6. DictOK(dict') /\ All(dict') = All(dict)
    BY <2>1, <2>2, <2>4, <2>5 DEF DictOK, Of, All
  <2>7. Shown(dict') = Shown(dict)
    BY <2>2, <2>6, ShownSame
  <2>8. QED
    BY <1>1, <2>3, <2>6, <2>7 DEF DictInv
<1>2. CASE ~d.dead
  BY <1>2 DEF Return, DictInv
<1>3. QED
  BY <1>1, <1>2

\* dictAdd inserts, unless the key is there.
LEMMA AddRefines ==
  ASSUME DictInv, ~dict.dead, NEW k \in Keys, NEW v \in Vals, dictAdd(k, v)
  PROVE  /\ DictInv' /\ (dict'.dead => dict.ht0.used = 0)
         /\ \/ /\ reply' = Ok("dictAdd", k, Shown(dict)[k] = None)
               /\ Shown(dict') = IF Shown(dict)[k] = None
                                   THEN [Shown(dict) EXCEPT ![k] = v] ELSE Shown(dict)
            \/ Shown(dict') = Shown(dict) /\ reply' = reply
<1>1. DictOK(dict) /\ Shown(dict)[k] = dictFind(dict, k)
  BY FoundIs DEF DictInv
<1>2. CASE dictFind(dict, k) # None
  <2>1. Return(dict, Ok("dictAdd", k, FALSE))
    BY <1>2 DEF dictAdd
  <2>2. DictInv' /\ dict' = dict /\ reply' = Ok("dictAdd", k, FALSE) /\ ~dict'.dead
    BY <1>1, <2>1, ReturnIs
  <2>3. (Shown(dict)[k] = None) = FALSE
    BY <1>1, <1>2
  <2>4. QED
    BY <2>2, <2>3
<1>3. CASE dictFind(dict, k) = None
  <2>1. PICK e, d : e = [key |-> k, val |-> v] /\ d = dictAddEntry(dict, [key |-> k, val |-> v])
    OBVIOUS
  <2>2. e \in Entry /\ e.key = k
    BY <2>1, EntryParts
  <2>3. \A f \in All(dict) : f.key # e.key
    BY <1>1, <1>3, <2>2, FoundIs
  <2>4. DictOK(d) /\ All(d) = All(dict) \cup {e} /\ (d.dead => dict.ht0.used = 0)
    BY <1>1, <2>1, <2>2, <2>3, AddKeeps
  <2>5. Return(d, Ok("dictAdd", k, TRUE))
    BY <1>3, <2>1 DEF dictAdd
  <2>6. /\ DictInv'
        /\ d.dead => Shown(dict') = Shown(dict) /\ reply' = reply
        /\ ~d.dead => dict' = d /\ reply' = Ok("dictAdd", k, TRUE) /\ ~dict'.dead
    BY <2>4, <2>5, ReturnIs
  <2>7. Shown(d) = [Shown(dict) EXCEPT ![k] = v]
    BY <1>1, <2>1, <2>4, ShownSet
  <2>8. (Shown(dict)[k] = None) = TRUE
    BY <1>1, <1>3
  <2>9. QED
    BY <2>4, <2>6, <2>7, <2>8
<1>4. QED
  BY <1>2, <1>3

\* dictReplace changes the value of a key that is there.
LEMMA ReplaceRefines ==
  ASSUME DictInv, ~dict.dead, NEW k \in Keys, NEW v \in Vals, dictReplace(k, v)
  PROVE  /\ DictInv' /\ ~dict'.dead
         /\ reply' = Ok("dictReplace", k, Shown(dict)[k] # None)
         /\ Shown(dict') = IF Shown(dict)[k] = None
                             THEN Shown(dict) ELSE [Shown(dict) EXCEPT ![k] = v]
<1>1. DictOK(dict) /\ Shown(dict)[k] = dictFind(dict, k)
  BY FoundIs DEF DictInv
<1>2. PICK d : d = SetVal(dict, k, v)
  OBVIOUS
<1>3. Return(d, Ok("dictReplace", k, dictFind(dict, k) # None))
  BY <1>2 DEF dictReplace
<1>4. CASE dictFind(dict, k) # None
  <2>1. PICK e \in All(dict) : e.key = k
    BY <1>1, <1>4, FoundIs
  <2>2. PICK S : S = All(dict) \ {e}
    OBVIOUS
  <2>3. /\ DictOK(d) /\ d.dead = dict.dead
        /\ All(d) = S \cup {[key |-> k, val |-> v]}
    BY <1>1, <1>2, <2>1, <2>2, SetValKeeps
  <2>4. Shown(d) = [Shown(dict) EXCEPT ![k] = v]
    <3>1. S \subseteq All(dict) /\ \A f \in All(dict) : f.key # k => f \in S
      BY <2>1, <2>2
    <3>2. QED
      BY <1>1, <2>3, <3>1, ShownSet
  <2>5. DictInv' /\ dict' = d /\ reply' = Ok("dictReplace", k, dictFind(dict, k) # None)
    BY <1>3, <2>3, ReturnIs
  <2>6. QED
    BY <1>1, <1>4, <2>3, <2>4, <2>5
<1>5. CASE dictFind(dict, k) = None
  <2>1. \A e \in All(dict) : e.key # k
    BY <1>1, <1>5, FoundIs
  <2>2. d = dict
    BY <1>1, <1>2, <2>1, SetValKeeps
  <2>3. DictInv' /\ dict' = d /\ reply' = Ok("dictReplace", k, dictFind(dict, k) # None)
    BY <1>1, <1>3, <2>2, ReturnIs
  <2>4. QED
    BY <1>1, <1>5, <2>2, <2>3
<1>6. QED
  BY <1>4, <1>5

\* dictFetchValue changes nothing in the map, although it moves an entry.
LEMMA FetchRefines ==
  ASSUME DictInv, ~dict.dead, NEW k \in Keys, dictFetchValue(k)
  PROVE  /\ DictInv' /\ (dict'.dead => dict.ht0.used = 0)
         /\ Shown(dict') = Shown(dict)
         /\ \/ reply' = [op |-> "dictFetchValue", key |-> k, val |-> Shown(dict)[k]]
            \/ reply' = reply
<1>1. DictOK(dict)
  BY DEF DictInv
<1>2. PICK d : d = IF dictIsRehashing(dict) THEN dictRehashStep(dict) ELSE dict
  OBVIOUS
<1>3. DictOK(d) /\ All(d) = All(dict) /\ (d.dead => dict.ht0.used = 0)
  <2>1. CASE dictIsRehashing(dict)
    BY <1>1, <1>2, <2>1, RehashStepKeeps
  <2>2. CASE ~dictIsRehashing(dict)
    BY <1>1, <1>2, <2>2
  <2>3. QED
    BY <2>1, <2>2
<1>4. Return(d, [op |-> "dictFetchValue", key |-> k, val |-> dictFind(d, k)])
  BY <1>2 DEF dictFetchValue
<1>5. /\ DictInv'
      /\ d.dead => Shown(dict') = Shown(dict) /\ reply' = reply
      /\ ~d.dead => /\ dict' = d /\ ~dict'.dead
                    /\ reply' = [op |-> "dictFetchValue", key |-> k, val |-> dictFind(d, k)]
  BY <1>3, <1>4, ReturnIs
<1>6. Shown(d) = Shown(dict)
  BY <1>1, <1>3, ShownSame
<1>7. dictFind(d, k) = Shown(dict)[k]
  BY <1>3, <1>6, FoundIs
<1>8. QED
  BY <1>3, <1>5, <1>6, <1>7

\* dictContains changes nothing at all.
LEMMA ContainsRefines ==
  ASSUME DictInv, ~dict.dead, NEW k \in Keys, dictContains(k)
  PROVE  /\ DictInv' /\ dict' = dict
         /\ reply' = Ok("dictContains", k, Shown(dict)[k] # None)
<1>1. DictOK(dict) /\ Shown(dict)[k] = dictFind(dict, k)
  BY FoundIs DEF DictInv
<1>2. Return(dict, Ok("dictContains", k, dictFind(dict, k) # None))
  BY DEF dictContains
<1>3. QED
  BY <1>1, <1>2, ReturnIs

\* dictDelete takes the key out of the map.
LEMMA DeleteRefines ==
  ASSUME DictInv, ~dict.dead, NEW k \in Keys, dictDelete(k)
  PROVE  /\ DictInv' /\ (dict'.dead => dict.ht0.used = 0)
         /\ \/ /\ reply' = Ok("dictDelete", k, Shown(dict)[k] # None)
               /\ Shown(dict') = [Shown(dict) EXCEPT ![k] = None]
            \/ Shown(dict') = Shown(dict) /\ reply' = reply
<1>1. DictOK(dict)
  BY DEF DictInv
<1>2. PICK x, d, t :
        /\ x = dictExpandIfNeed(dict)
        /\ d = IF dictIsRehashing(dictExpandIfNeed(dict))
                 THEN dictRehashStep(dictExpandIfNeed(dict)) ELSE dictExpandIfNeed(dict)
        /\ t = Remove(d, k)
  <2>1. PICK y : y = IF dictIsRehashing(dictExpandIfNeed(dict))
                       THEN dictRehashStep(dictExpandIfNeed(dict)) ELSE dictExpandIfNeed(dict)
    OBVIOUS
  <2>2. QED
    BY <2>1
<1>3. DictOK(x) /\ All(x) = All(dict) /\ x.dead = dict.dead /\ x.ht0.used = dict.ht0.used
  BY <1>1, <1>2, ExpandKeeps
<1>4. DictOK(d) /\ All(d) = All(dict) /\ (d.dead => dict.ht0.used = 0)
  <2>1. CASE dictIsRehashing(x)
    BY <1>2, <1>3, <2>1, RehashStepKeeps
  <2>2. CASE ~dictIsRehashing(x)
    BY <1>2, <1>3, <2>2
  <2>3. QED
    BY <2>1, <2>2
<1>5. Return(t, Ok("dictDelete", k, dictFind(d, k) # None))
  BY <1>2 DEF dictDelete
<1>6. Shown(d) = Shown(dict) /\ dictFind(d, k) = Shown(dict)[k]
  BY <1>1, <1>4, ShownSame, FoundIs
<1>7. DictOK(t) /\ t.dead = d.dead /\ Shown(t) = [Shown(d) EXCEPT ![k] = None]
  <2>1. CASE dictFind(d, k) # None
    <3>1. PICK e \in All(d) : e.key = k
      BY <1>4, <2>1, FoundIs
    <3>2. DictOK(t) /\ All(t) = All(d) \ {e} /\ t.dead = d.dead
      BY <1>2, <1>4, <3>1, RemoveKeeps
    <3>3. \A f \in All(d) : f.key = k => f = e
      BY <1>4, <3>1, DictParts
    <3>4. /\ All(t) \subseteq All(d) /\ \A f \in All(t) : f.key # k
          /\ \A f \in All(d) : f.key # k => f \in All(t)
      BY <3>1, <3>2, <3>3
    <3>5. Shown(t) = [Shown(d) EXCEPT ![k] = None]
      BY <1>4, <3>2, <3>4, ShownRemoved
    <3>6. QED
      BY <3>2, <3>5
  <2>2. CASE dictFind(d, k) = None
    <3>1. \A e \in All(d) : e.key # k
      BY <1>4, <2>2, FoundIs
    <3>2. t = d
      BY <1>2, <1>4, <3>1, RemoveKeeps
    <3>3. QED
      BY <1>4, <2>2, <3>2 DEF Shown
  <2>3. QED
    BY <2>1, <2>2
<1>8. /\ DictInv'
      /\ t.dead => Shown(dict') = Shown(dict) /\ reply' = reply
      /\ ~t.dead => /\ dict' = t /\ ~dict'.dead
                    /\ reply' = Ok("dictDelete", k, dictFind(d, k) # None)
  BY <1>5, <1>7, ReturnIs
<1>9. QED
  BY <1>4, <1>6, <1>7, <1>8

-----------------------------------------------------------------------------
(***************************************************************************)
(* The invariant.                                                          *)
(***************************************************************************)
\* A new dictionary has no table and stands for the empty map.
LEMMA DictStarts ==
  ASSUME Init
  PROVE  DictInv /\ Shown(dict) = [k \in Keys |-> None] /\ reply = None
<1>1. PICK t : t = dictHT(0)
  OBVIOUS
<1>2. Sound(t) /\ Held(t) = {} /\ t.size = 0
  <2>1. 0 \in Nat
    OBVIOUS
  <2>2. QED
    BY <1>1, <2>1, EmptySound
<1>3. dict = Of(t, t, -1, FALSE)
  BY <1>1 DEF Init, Of
<1>4. /\ dict.ht0 = t /\ dict.ht1 = t /\ dict.rehashidx = -1 /\ dict.dead = FALSE
      /\ All(dict) = {}
  BY <1>2, <1>3 DEF Of, All
<1>5. DictOK(dict)
  BY <1>2, <1>3, <1>4 DEF DictOK, Of
<1>6. \A k \in Keys : dictFind(dict, k) = None
  BY <1>4, <1>5, FindIs
<1>7. QED
  BY <1>5, <1>6 DEF DictInv, Shown, Init

\* Every call keeps the invariant, and a search for a chain to move fails only
\* when there is no entry to move.
LEMMA DictStep ==
  ASSUME DictInv, [Next]_vars
  PROVE  DictInv' /\ (UNCHANGED vars \/ (dict'.dead => dict.ht0.used = 0))
<1>1. CASE UNCHANGED vars
  <2>1. dict' = dict
    BY <1>1 DEF vars
  <2>2. QED
    BY <1>1, <2>1 DEF DictInv
<1>2. ASSUME ~dict.dead, NEW k \in Keys, NEW v \in Vals, dictAdd(k, v)
      PROVE  DictInv' /\ (dict'.dead => dict.ht0.used = 0)
  BY <1>2, AddRefines
<1>3. ASSUME ~dict.dead, NEW k \in Keys, NEW v \in Vals, dictReplace(k, v)
      PROVE  DictInv' /\ (dict'.dead => dict.ht0.used = 0)
  BY <1>3, ReplaceRefines
<1>4. ASSUME ~dict.dead, NEW k \in Keys, dictFetchValue(k)
      PROVE  DictInv' /\ (dict'.dead => dict.ht0.used = 0)
  BY <1>4, FetchRefines
<1>5. ASSUME ~dict.dead, NEW k \in Keys, dictContains(k)
      PROVE  DictInv' /\ (dict'.dead => dict.ht0.used = 0)
  BY <1>5, ContainsRefines
<1>6. ASSUME ~dict.dead, NEW k \in Keys, dictDelete(k)
      PROVE  DictInv' /\ (dict'.dead => dict.ht0.used = 0)
  BY <1>6, DeleteRefines
<1>7. QED
  BY <1>1, <1>2, <1>3, <1>4, <1>5, <1>6 DEF Next

\* The inductive invariant of dict.c: both tables are sound, they share no
\* key, and a rehash has two tables and empty chains behind it.
THEOREM DictInvariant == Spec => []DictInv
<1>1. Init => DictInv
  BY DictStarts
<1>2. DictInv /\ [Next]_vars => DictInv'
  BY DictStep
<1>3. QED
  BY <1>1, <1>2, PTL DEF Spec

-----------------------------------------------------------------------------
(***************************************************************************)
(* The properties.                                                         *)
(***************************************************************************)
\* The tables and chains of a dictionary keep their shapes: a chain of
\* entries for every index that _dictNextIndex may compute.
THEOREM DictTypeCorrect == Spec => []TypeOK
<1>1. ASSUME DictInv PROVE TypeOK
  <2>1. DictOK(dict)
    BY <1>1 DEF DictInv
  <2>2. Table(dict.ht0) /\ Table(dict.ht1) /\ dict.dead \in BOOLEAN /\ dict.ht0.size \in Nat
    BY <2>1, DictParts
  <2>3. dict.rehashidx \in Int
    BY <2>1, <2>2 DEF DictOK
  <2>4. QED
    BY <2>2, <2>3 DEF TypeOK
<1>2. QED
  BY <1>1, DictInvariant, PTL

\* A place of a sound table is in the chain of its entry's hash.
LEMMA SlotsInPlace ==
  ASSUME NEW t, Sound(t), NEW s \in Slots(t)
  PROVE  s[1] = Index(t, t.table[s[1]][s[2]].key)
<1>1. Table(t)
  BY DEF Sound
<1>2. PICK i \in 0 .. t.size - 1 : \E j \in 1 .. Len(t.table[i]) : s = <<i, j>>
  BY <1>1, TableParts
<1>3. PICK j \in 1 .. Len(t.table[i]) : s = <<i, j>>
  BY <1>2
<1>4. t.table[i][j] \in Links(t.table[i])
  BY <1>1, TableParts, ChainParts
<1>5. Index(t, t.table[i][j].key) = i
  BY <1>4 DEF Sound
<1>6. s[1] = i /\ s[2] = j
  BY <1>3
<1>7. QED
  BY <1>5, <1>6

\* A key has one place in a table that holds it and none in another.
LEMMA PlaceCount ==
  ASSUME NEW t, Sound(t), NEW k \in Keys
  PROVE  /\ (\E e \in Held(t) : e.key = k) => Cardinality(Places(t, k)) = 1
         /\ (\A e \in Held(t) : e.key # k) => Cardinality(Places(t, k)) = 0
<1>1. ASSUME NEW e \in Held(t), e.key = k PROVE Cardinality(Places(t, k)) = 1
  BY <1>1, PlacesAre, FS_Singleton
<1>2. ASSUME \A e \in Held(t) : e.key # k PROVE Cardinality(Places(t, k)) = 0
  BY <1>2, PlacesAre, FS_EmptySet
<1>3. QED
  BY <1>1, <1>2

\* What the functions of dict.c rely on and never check holds before every
\* call: exact counts, entries in the chains of their hashes, one place for a
\* key in both tables, and nothing left behind by _dictRehashStep.
THEOREM TablesWellFormed == Spec => []WellFormed
<1>1. ASSUME DictInv PROVE WellFormed
  <2>1. DictOK(dict)
    BY <1>1 DEF DictInv
  <2>2. /\ Sound(dict.ht0) /\ Sound(dict.ht1)
        /\ \A e \in Held(dict.ht0), f \in Held(dict.ht1) : e.key # f.key
    BY <2>1, DictParts
  <2>3. ASSUME NEW t \in {dict.ht0, dict.ht1}
        PROVE  /\ t.used = Cardinality(Slots(t))
               /\ \A s \in Slots(t) : s[1] = Index(t, t.table[s[1]][s[2]].key)
    <3>1. Sound(t)
      BY <2>2
    <3>2. QED
      BY <3>1, SlotsInPlace DEF Sound
  <2>4. ASSUME NEW k \in Keys
        PROVE  Cardinality(Places(dict.ht0, k)) + Cardinality(Places(dict.ht1, k)) <= 1
    <3>1. PICK a, b : a = Cardinality(Places(dict.ht0, k)) /\ b = Cardinality(Places(dict.ht1, k))
      OBVIOUS
    <3>2. (a = 1 /\ b = 0) \/ (a = 0 /\ b = 1) \/ (a = 0 /\ b = 0)
      BY <2>2, <3>1, PlaceCount
    <3>3. a + b <= 1
      BY <3>2
    <3>4. QED
      BY <3>1, <3>3
  <2>5. dictIsRehashing(dict) <=> dict.ht1.size # 0
    BY <2>1, DictParts
  <2>6. dictIsRehashing(dict) => \A i \in 0 .. dict.rehashidx - 1 : dict.ht0.table[i] = <<>>
    BY <2>1 DEF DictOK, dictIsRehashing
  <2>7. QED
    BY <2>3, <2>4, <2>5, <2>6 DEF WellFormed
<1>2. QED
  BY <1>1, DictInvariant, PTL

\* The walk of one table from a chain on.
LEMMA WalkIs ==
  ASSUME NEW t, Sound(t), NEW n \in {0, 1}
  PROVE  /\ EntriesFrom(t, n) \subseteq Held(t)
         /\ \A e \in Held(t) : e \in EntriesFrom(t, n) \/ (n = 1 /\ Index(t, e.key) = 0)
<1>1. Table(t) /\ t.size \in Nat
  BY TableParts DEF Sound
<1>2. CASE t.used = 0
  BY <1>2, UsedIsZero DEF EntriesFrom
<1>3. CASE t.used # 0
  <2>1. EntriesFrom(t, n) = UNION {Links(t.table[i]) : i \in n .. t.size - 1}
    BY <1>3 DEF EntriesFrom, Links
  <2>2. \A i \in n .. t.size - 1 : i \in 0 .. t.size - 1
    BY <1>1
  <2>3. EntriesFrom(t, n) \subseteq Held(t)
    BY <1>1, <2>1, <2>2, TableParts
  <2>4. ASSUME NEW e \in Held(t), e \notin EntriesFrom(t, n) PROVE n = 1 /\ Index(t, e.key) = 0
    <3>1. PICK m : m = Index(t, e.key)
      OBVIOUS
    <3>2. m \in 0 .. t.size - 1 /\ e \in Links(t.table[m])
      BY <3>1, HeldPlace
    <3>3. m \notin n .. t.size - 1
      BY <2>1, <2>4, <3>2
    <3>4. n = 1 /\ m = 0
      BY <1>1, <3>2, <3>3
    <3>5. QED
      BY <3>1, <3>4
  <2>5. QED
    BY <2>3, <2>4
<1>4. QED
  BY <1>2, <1>3

\* An iteration, as rdbSave's, returns entries of the dictionary only, and
\* misses at most the first chain of the second table; dictIsEmpty is wrong
\* only in the course of a rehash.
THEOREM IterationMisses == Spec => []IterMissesOneChain
<1>1. ASSUME DictInv PROVE IterMissesOneChain
  <2>1. PICK a, b, n, seen, held :
          /\ a = dict.ht0 /\ b = dict.ht1
          /\ n = (IF dict.ht0.used = 0 THEN 0 ELSE 1)
          /\ seen = dictIterNext(dict) /\ held = {k \in Keys : dictFind(dict, k) # None}
    <3>1. PICK n : n = IF dict.ht0.used = 0 THEN 0 ELSE 1
      OBVIOUS
    <3>2. QED
      BY <3>1
  <2>2. DictOK(dict) /\ Sound(a) /\ Sound(b) /\ All(dict) = Held(a) \cup Held(b)
    BY <1>1, <2>1, DictParts DEF DictInv, All
  <2>3. n \in {0, 1} /\ (n = 1 <=> a.used # 0)
    BY <2>1
  <2>4. seen = EntriesFrom(a, 0) \cup EntriesFrom(b, n)
    BY <2>1 DEF dictIterNext
  <2>5. EntriesFrom(a, 0) = Held(a)
    <3>1. 0 \in {0, 1} /\ 0 # 1
      OBVIOUS
    <3>2. QED
      BY <2>2, <3>1, WalkIs
  <2>6. /\ EntriesFrom(b, n) \subseteq Held(b)
        /\ \A e \in Held(b) : e \in EntriesFrom(b, n) \/ (n = 1 /\ Index(b, e.key) = 0)
    BY <2>2, <2>3, WalkIs
  <2>7. ASSUME NEW e \in seen PROVE dictFind(dict, e.key) = e.val
    <3>1. e \in All(dict)
      BY <2>2, <2>4, <2>5, <2>6, <2>7
    <3>2. e.key \in Keys
      BY <2>2, <3>1, DictParts, EntryParts
    <3>3. QED
      BY <2>2, <3>1, <3>2, FindIs
  <2>8. ASSUME NEW k \in held \ {e.key : e \in seen}
        PROVE  a.used # 0 /\ Places(b, k) # {} /\ Index(b, k) = 0
    <3>1. k \in Keys /\ dictFind(dict, k) # None
      BY <2>1, <2>8
    <3>2. PICK e \in All(dict) : e.key = k
      BY <2>2, <3>1, FoundIs
    <3>3. e \notin seen
      BY <2>8, <3>2
    <3>4. e \in Held(b) /\ e \notin EntriesFrom(b, n)
      BY <2>2, <2>4, <2>5, <3>2, <3>3
    <3>5. n = 1 /\ Index(b, k) = 0
      BY <2>6, <3>2, <3>4
    <3>6. Places(b, k) # {}
      <4>1. Places(b, k) = {First(b, k)}
        BY <2>2, <3>1, <3>2, <3>4, PlacesAre
      <4>2. QED
        BY <4>1
    <3>7. QED
      BY <2>3, <3>5, <3>6
  <2>9. ASSUME dictIsEmpty(dict), held # {} PROVE seen # {} /\ dictIsRehashing(dict)
    <3>1. PICK k \in held : TRUE
      BY <2>9
    <3>2. k \in Keys /\ dictFind(dict, k) # None
      BY <2>1
    <3>3. PICK e \in All(dict) : e.key = k
      BY <2>2, <3>2, FoundIs
    <3>4. a.used = 0
      BY <2>1, <2>9 DEF dictIsEmpty
    <3>5. Held(a) = {} /\ e \in Held(b)
      BY <2>2, <3>3, <3>4, UsedIsZero
    <3>6. seen # {}
      BY <2>3, <2>8, <3>1, <3>4
    <3>7. dictIsRehashing(dict)
      BY <2>1, <2>2, <3>5, DictParts
    <3>8. QED
      BY <3>6, <3>7
  <2>10. QED
    BY <2>1, <2>7, <2>8, <2>9 DEF IterMissesOneChain
<1>2. QED
  BY <1>1, DictInvariant, PTL

\* A step of the dictionary is a step of the map, or the process dies with
\* the map as it was.
LEMMA MapStep ==
  ASSUME DictInv, Next
  PROVE  [Abstract!Next]_<<Shown(dict), reply>>
<1> DEFINE map == Shown(dict)
<1>1. Abstract!Next <=>
        \E k \in Keys :
          /\ reply'.key = k
          /\ \/ /\ reply'.op = "dictAdd"
                /\ \E v \in Vals : Abstract!Insert(k, v)
             \/ /\ reply'.op = "dictReplace"
                /\ \E v \in Vals : Abstract!Update(k, v)
             \/ /\ reply'.op \in {"dictFetchValue", "dictContains"}
                /\ Abstract!Lookup(k) \/ Abstract!Test(k)
             \/ /\ reply'.op = "dictDelete"
                /\ Abstract!Remove(k)
  BY DEF Abstract!Next
<1>2. \A op, k, b : Ok(op, k, b).key = k /\ Ok(op, k, b).op = op
  BY DEF Ok
<1>3. ASSUME NEW k \in Keys, NEW v \in Vals, dictAdd(k, v), ~dict.dead
      PROVE  [Abstract!Next]_<<Shown(dict), reply>>
  <2>1. \/ /\ reply' = Ok("dictAdd", k, Shown(dict)[k] = None)
           /\ Shown(dict') = IF Shown(dict)[k] = None
                               THEN [Shown(dict) EXCEPT ![k] = v] ELSE Shown(dict)
        \/ Shown(dict') = Shown(dict) /\ reply' = reply
    BY <1>3, AddRefines
  <2>2. CASE /\ reply' = Ok("dictAdd", k, Shown(dict)[k] = None)
             /\ Shown(dict') = IF Shown(dict)[k] = None
                                 THEN [Shown(dict) EXCEPT ![k] = v] ELSE Shown(dict)
    <3>1. Abstract!Insert(k, v)
      BY <2>2 DEF Abstract!Insert, Abstract!Ok, Ok, Shown
    <3>2. QED
      BY <1>1, <1>2, <2>2, <3>1
  <2>3. QED
    BY <2>1, <2>2
<1>4. ASSUME NEW k \in Keys, NEW v \in Vals, dictReplace(k, v), ~dict.dead
      PROVE  [Abstract!Next]_<<Shown(dict), reply>>
  <2>1. /\ reply' = Ok("dictReplace", k, Shown(dict)[k] # None)
        /\ Shown(dict') = IF Shown(dict)[k] = None
                            THEN Shown(dict) ELSE [Shown(dict) EXCEPT ![k] = v]
    BY <1>4, ReplaceRefines
  <2>2. Abstract!Update(k, v)
    BY <2>1 DEF Abstract!Update, Abstract!Ok, Ok, Shown
  <2>3. QED
    BY <1>1, <1>2, <2>1, <2>2
<1>5. ASSUME NEW k \in Keys, dictFetchValue(k), ~dict.dead
      PROVE  [Abstract!Next]_<<Shown(dict), reply>>
  <2>1. /\ Shown(dict') = Shown(dict)
        /\ \/ reply' = [op |-> "dictFetchValue", key |-> k, val |-> Shown(dict)[k]]
           \/ reply' = reply
    BY <1>5, FetchRefines
  <2>2. CASE reply' = [op |-> "dictFetchValue", key |-> k, val |-> Shown(dict)[k]]
    <3>1. Abstract!Lookup(k)
      BY <2>1, <2>2 DEF Abstract!Lookup, Shown
    <3>2. reply'.key = k /\ reply'.op = "dictFetchValue"
      BY <2>2
    <3>3. QED
      BY <1>1, <3>1, <3>2
  <2>3. QED
    BY <2>1, <2>2
<1>6. ASSUME NEW k \in Keys, dictContains(k), ~dict.dead
      PROVE  [Abstract!Next]_<<Shown(dict), reply>>
  <2>1. dict' = dict /\ reply' = Ok("dictContains", k, Shown(dict)[k] # None)
    BY <1>6, ContainsRefines
  <2>2. Abstract!Test(k)
    BY <2>1 DEF Abstract!Test, Abstract!Ok, Ok, Shown
  <2>3. QED
    BY <1>1, <1>2, <2>1, <2>2
<1>7. ASSUME NEW k \in Keys, dictDelete(k), ~dict.dead
      PROVE  [Abstract!Next]_<<Shown(dict), reply>>
  <2>1. \/ /\ reply' = Ok("dictDelete", k, Shown(dict)[k] # None)
           /\ Shown(dict') = [Shown(dict) EXCEPT ![k] = None]
        \/ Shown(dict') = Shown(dict) /\ reply' = reply
    BY <1>7, DeleteRefines
  <2>2. CASE /\ reply' = Ok("dictDelete", k, Shown(dict)[k] # None)
             /\ Shown(dict') = [Shown(dict) EXCEPT ![k] = None]
    <3>1. Abstract!Remove(k)
      BY <2>2 DEF Abstract!Remove, Abstract!Ok, Ok, Shown
    <3>2. QED
      BY <1>1, <1>2, <2>2, <3>1
  <2>3. QED
    BY <2>1, <2>2
<1>8. QED
  BY <1>3, <1>4, <1>5, <1>6, <1>7 DEF Next

\* A dictionary is a map: whatever is added, replaced, found and deleted, and
\* whatever is being moved from one table to the other meanwhile, every answer
\* is the one a finite map gives.
THEOREM DictIsAMap == Spec => MapSpec
<1>1. Init => Abstract!Init
  BY DictStarts DEF Abstract!Init, Shown
<1>2. DictInv /\ [Next]_vars => [Abstract!Next]_Abstract!mapVars
  <2>1. ASSUME DictInv, Next PROVE [Abstract!Next]_Abstract!mapVars
    BY <2>1, MapStep DEF Abstract!mapVars, Shown
  <2>2. ASSUME UNCHANGED vars PROVE UNCHANGED Abstract!mapVars
    <3>1. dict' = dict /\ reply' = reply
      BY <2>2 DEF vars
    <3>2. QED
      BY <3>1 DEF Abstract!mapVars
  <2>3. QED
    BY <2>1, <2>2
<1>3. QED
  BY <1>1, <1>2, DictInvariant, PTL DEF Spec, MapSpec, Abstract!Spec

\* _dictRehashStep reads past its table only after dictDelete has taken the
\* last entry of the first table in the middle of a rehash.
THEOREM DiesOnlyWhenEmptied == Spec => DiesOnlyEmptied
<1>1. DictInv /\ [Next]_vars => [dict'.dead => dict.ht0.used = 0]_vars
  BY DictStep
<1>2. QED
  BY <1>1, DictInvariant, PTL DEF Spec, DiesOnlyEmptied
=============================================================================
