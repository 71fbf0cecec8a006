----------------------------- MODULE ListProofs -----------------------------
(***************************************************************************)
(* The lists of list.c for any number of lists, nodes and values: they can *)
(* be walked from both ends whatever is called, they implement sequences,  *)
(* and the loop of closeClients meets every client that was marked.        *)
(***************************************************************************)
EXTENDS List, SequenceTheorems, FiniteSetTheorems, WellFoundedInduction, TLAPS

(***************************************************************************)
(* The chains of a heap.                                                   *)
(***************************************************************************)
Heap ==
  [head : [Lists -> Nodes \cup {NULL}], tail : [Lists -> Nodes \cup {NULL}],
   len : [Lists -> Nat],
   prev : [Nodes -> Nodes \cup {NULL}], next : [Nodes -> Nodes \cup {NULL}],
   value : [Nodes -> Values \cup {NULL}], used : SUBSET Nodes]

\* c gives each list the nodes it is made of, in their order.
Lies(h, c) ==
  /\ \A l \in Lists : c[l] \in [1 .. h.len[l] -> h.used]
  /\ \A node \in h.used : \E l \in Lists : \E i \in 1 .. h.len[l] : c[l][i] = node
  /\ \A l, m \in Lists : \A i \in 1 .. h.len[l] : \A j \in 1 .. h.len[m] :
       c[l][i] = c[m][j] => l = m /\ i = j

Chained(h, c) ==
  /\ h \in Heap
  /\ Lies(h, c)
  /\ \A l \in Lists : Linked(h, l, c[l])
  /\ \A node \in h.used : h.value[node] \in Values

\* What holds of a number when it holds of all smaller ones holds of each up
\* to n.
LEMMA NumberInduction ==
  ASSUME NEW n \in Nat, NEW Good,
         \A k \in 0 .. n : (\A j \in 0 .. k - 1 : j \in Good) => k \in Good
  PROVE  \A k \in 0 .. n : k \in Good
<1> DEFINE U == 1 .. n
           Bad == {1 .. k : k \in {i \in 0 .. n : i \notin Good}}
<1> SUFFICES ASSUME Bad # {} PROVE FALSE
  OBVIOUS
<1>1. IsWellFoundedOn(StrictSubsetOrdering(U), SUBSET U)
  <2>1. IsFiniteSet(U)
    BY FS_Interval
  <2>2. FiniteSubsetsOf(U) = SUBSET U
    BY <2>1, FS_FiniteSubsetsOfFinite
  <2>3. IsWellFoundedOn(StrictSubsetOrdering(U), FiniteSubsetsOf(U))
    BY FS_StrictSubsetOrderingWellFounded
  <2> QED
    BY <2>2, <2>3
<1>2. Bad \subseteq SUBSET U
  OBVIOUS
<1> HIDE DEF Bad
<1>3. PICK s \in Bad : \A t \in Bad : <<t, s>> \notin StrictSubsetOrdering(U)
  BY <1>1, <1>2, WFMin
<1> USE DEF Bad
<1>4. PICK k \in 0 .. n : k \notin Good /\ s = 1 .. k
  OBVIOUS
<1>5. ASSUME NEW j \in 0 .. k - 1 PROVE j \in Good
  <2>1. SUFFICES ASSUME j \notin Good PROVE FALSE
    OBVIOUS
  <2>2. 1 .. j \in Bad
    BY <1>4, <2>1
  <2>3. 1 .. j \subseteq s /\ 1 .. j # s /\ s \subseteq U
    <3>1. k \in 1 .. k /\ k \notin 1 .. j
      BY <1>4
    <3>2. QED
      BY <1>4, <3>1
  <2>4. <<1 .. j, s>> \in StrictSubsetOrdering(U)
    BY <2>3 DEF StrictSubsetOrdering
  <2>5. QED
    BY <1>3, <2>2, <2>4
<1>6. QED
  BY <1>4, <1>5
\* The nodes that a heap leads to are the only ones that lie there.
LEMMA ChainIs ==
  ASSUME NEW h, NEW c, Chained(h, c), NEW l \in Lists
  PROVE  Chain(h, l) = c[l]
<1>0. PICK n \in Nat : n = h.len[l]
  BY DEF Chained, Heap
<1>1. PICK q \in [1 .. n -> Nodes] : n = h.len[l] /\ q = c[l]
  <2>1. h.used \subseteq Nodes
    BY DEF Chained, Heap
  <2>2. c[l] \in [1 .. h.len[l] -> h.used]
    BY DEF Chained, Lies
  <2> QED
    BY <1>0, <2>1, <2>2
<1>2. /\ h.head[l] = (IF n = 0 THEN NULL ELSE q[1])
      /\ \A i \in 1 .. n : h.next[q[i]] = (IF i = n THEN NULL ELSE q[i + 1])
  BY <1>1 DEF Chained, Linked
<1>3. Leads(h, l, q)
  BY <1>1, <1>2 DEF Leads
<1>4. ASSUME NEW p \in [1 .. n -> Nodes], Leads(h, l, p) PROVE p = q
  <2> DEFINE Good == {k \in 0 .. n : k = 0 \/ p[k] = q[k]}
  <2>1. ASSUME NEW k \in 0 .. n, \A j \in 0 .. k - 1 : j \in Good PROVE k \in Good
    <3>1. CASE k = 0
      BY <3>1
    <3>2. CASE k = 1
      <4>1. p[1] = q[1]
        BY <1>1, <1>2, <1>4, <3>2 DEF Leads
      <4> QED
        BY <3>2, <4>1
    <3>3. CASE k > 1
      <4>1. k - 1 \in 0 .. k - 1 /\ k - 1 \in 1 .. n - 1
        BY <3>3
      <4>2. p[k - 1] = q[k - 1]
        BY <2>1, <4>1
      <4>3. p[(k - 1) + 1] = h.next[p[k - 1]]
        BY <1>1, <1>4, <4>1 DEF Leads
      <4>4. q[(k - 1) + 1] = h.next[q[k - 1]]
        BY <1>2, <4>1
      <4>5. (k - 1) + 1 = k
        OBVIOUS
      <4>6. p[k] = q[k]
        BY <4>2, <4>3, <4>4, <4>5
      <4> QED
        BY <4>6
    <3> QED
      BY <3>1, <3>2, <3>3
  <2> HIDE DEF Good
  <2>2. \A k \in 0 .. n : k \in Good
    BY <2>1, NumberInduction
  <2>3. \A k \in 1 .. n : p[k] = q[k]
    BY <2>2 DEF Good
  <2> QED
    BY <2>3
<1>5. Chain(h, l) = q
  BY <1>1, <1>3, <1>4 DEF Chain
<1> QED
  BY <1>1, <1>5

\* Hence what is in the lists.
LEMMA ContentsAre ==
  ASSUME NEW h, NEW c, Chained(h, c)
  PROVE  /\ Contents(h) = [l \in Lists |-> [i \in 1 .. h.len[l] |-> h.value[c[l][i]]]]
         /\ \A l \in Lists : Contents(h)[l] \in Seq(Values) /\ Len(Contents(h)[l]) = h.len[l]
         /\ \A l \in Lists : \A i \in 1 .. h.len[l] : Contents(h)[l][i] = h.value[c[l][i]]
<1>1. \A l \in Lists : Chain(h, l) = c[l]
  BY ChainIs
<1>2. Contents(h) = [l \in Lists |-> [i \in 1 .. h.len[l] |-> h.value[c[l][i]]]]
  BY <1>1 DEF Contents
<1>3. ASSUME NEW l \in Lists
      PROVE  Contents(h)[l] \in Seq(Values) /\ Len(Contents(h)[l]) = h.len[l]
  <2>1. h.len[l] \in Nat /\ \A i \in 1 .. h.len[l] : h.value[c[l][i]] \in Values
    <3>1. h.len[l] \in Nat
      BY DEF Chained, Heap
    <3>2. c[l] \in [1 .. h.len[l] -> h.used]
      BY DEF Chained, Lies
    <3> QED
      BY <3>1, <3>2 DEF Chained
  <2>2. PICK n \in Nat : n = h.len[l]
    BY <2>1
  <2>3. Contents(h)[l] = [i \in 1 .. n |-> h.value[c[l][i]]]
    BY <1>2, <2>2
  <2>4. [i \in 1 .. n |-> h.value[c[l][i]]] \in Seq(Values)
    BY <2>1, <2>2
  <2> QED
    BY <2>2, <2>3, <2>4
<1>4. \A l \in Lists : \A i \in 1 .. h.len[l] : Contents(h)[l][i] = h.value[c[l][i]]
  BY <1>2
<1> QED
  BY <1>2, <1>3, <1>4

(***************************************************************************)
(* A node comes into a chain, at place i.                                  *)
(***************************************************************************)
\* A sequence s of n with e put in.
Put(s, n, i, e) ==
  [j \in 1 .. n + 1 |-> IF j < i THEN s[j] ELSE IF j = i THEN e ELSE s[j - 1]]

PutChain(c, l, n, i, node) == [m \in Lists |-> IF m = l THEN Put(c[l], n, i, node) ELSE c[m]]

\* h becomes g with node, of value v, at place i of list l.
Spliced(h, c, g, l, i, node, v) ==
  /\ g.used = h.used \cup {node}
  /\ g.value[node] = v
  /\ \A x \in h.used : g.value[x] = h.value[x]
  /\ g.len = [h.len EXCEPT ![l] = h.len[l] + 1]
  /\ g.head = [h.head EXCEPT ![l] = IF i = 1 THEN node ELSE h.head[l]]
  /\ g.tail = [h.tail EXCEPT ![l] = IF i = h.len[l] + 1 THEN node ELSE h.tail[l]]
  /\ \A x \in g.used :
       /\ g.next[x] = IF x = node THEN (IF i = h.len[l] + 1 THEN NULL ELSE c[l][i])
                      ELSE IF i > 1 /\ x = c[l][i - 1] THEN node ELSE h.next[x]
       /\ g.prev[x] = IF x = node THEN (IF i = 1 THEN NULL ELSE c[l][i - 1])
                      ELSE IF i <= h.len[l] /\ x = c[l][i] THEN node ELSE h.prev[x]

\* The places of the nodes after that.
LEMMA SplicedLies ==
  ASSUME NEW h, NEW c, Chained(h, c), NEW g \in Heap, NEW l \in Lists,
         NEW node \in Nodes \ h.used, NEW v \in Values, NEW i \in 1 .. h.len[l] + 1,
         Spliced(h, c, g, l, i, node, v)
  PROVE  Lies(g, PutChain(c, l, h.len[l], i, node))
<1>1. PICK n \in Nat : n = h.len[l]
  BY DEF Chained, Heap
<1>2. PICK d : d = PutChain(c, l, h.len[l], i, node)
  OBVIOUS
<1>3. /\ \A m \in Lists : m # l => d[m] = c[m]
      /\ d[l] = Put(c[l], n, i, node)
  BY <1>1, <1>2 DEF PutChain
<1>4. \A m \in Lists : g.len[m] = (IF m = l THEN n + 1 ELSE h.len[m]) /\ h.len[m] \in Nat
  BY <1>1 DEF Spliced, Chained, Heap
<1>5. /\ \A m \in Lists : c[m] \in [1 .. h.len[m] -> h.used]
      /\ \A x \in h.used : \E m \in Lists : \E j \in 1 .. h.len[m] : c[m][j] = x
      /\ \A m, k \in Lists : \A a \in 1 .. h.len[m] : \A b \in 1 .. h.len[k] :
           c[m][a] = c[k][b] => m = k /\ a = b
  BY DEF Chained, Lies
<1>6. g.used = h.used \cup {node}
  BY DEF Spliced
<1>7. c[l] \in [1 .. n -> h.used] /\ i \in 1 .. n + 1
  BY <1>1, <1>5
<1>8. /\ DOMAIN d[l] = 1 .. n + 1
      /\ d[l] = [j \in 1 .. n + 1 |-> d[l][j]]
      /\ \A j \in 1 .. n + 1 : d[l][j] = IF j < i THEN c[l][j] ELSE IF j = i THEN node ELSE c[l][j - 1]
  BY <1>3 DEF Put
<1>9. \A j \in 1 .. n + 1 : d[l][j] \in g.used
  <2>1. ASSUME NEW j \in 1 .. n + 1 PROVE d[l][j] \in g.used
    <3>1. CASE j < i
      BY <1>6, <1>7, <1>8, <3>1
    <3>2. CASE j = i
      BY <1>6, <1>8, <3>2
    <3>3. CASE j > i
      <4>1. j - 1 \in 1 .. n /\ ~(j < i) /\ j # i
        BY <1>7, <3>3
      <4> QED
        BY <1>6, <1>7, <1>8, <4>1
    <3> QED
      BY <1>7, <3>1, <3>2, <3>3
  <2> QED
    BY <2>1
<1>10. ASSUME NEW m \in Lists PROVE d[m] \in [1 .. g.len[m] -> g.used]
  <2>1. CASE m = l
    BY <1>4, <1>8, <1>9, <2>1
  <2>2. CASE m # l
    BY <1>3, <1>4, <1>5, <1>6, <2>2
  <2> QED
    BY <2>1, <2>2
<1>11. ASSUME NEW x \in g.used PROVE \E m \in Lists : \E j \in 1 .. g.len[m] : d[m][j] = x
  <2>1. CASE x = node
    BY <1>4, <1>7, <1>8, <2>1
  <2>2. CASE x \in h.used
    <3>0. PICK m \in Lists : \E j \in 1 .. h.len[m] : c[m][j] = x
      BY <1>5, <2>2
    <3>1. PICK j \in 1 .. h.len[m] : c[m][j] = x
      BY <3>0
    <3>2. CASE m # l
      BY <1>3, <1>4, <3>1, <3>2
    <3>3. CASE m = l /\ j < i
      <4>0. j \in 1 .. n /\ c[l][j] = x /\ j < i
        BY <1>1, <3>1, <3>3
      <4>1. j \in 1 .. n + 1 /\ d[l][j] = x
        BY <1>8, <4>0
      <4> QED
        BY <1>4, <4>1
    <3>4. CASE m = l /\ ~(j < i)
      <4>1. j + 1 \in 1 .. n + 1 /\ ~(j + 1 < i) /\ j + 1 # i /\ (j + 1) - 1 = j
        BY <1>1, <1>7, <3>1, <3>4
      <4>2. d[l][j + 1] = x
        BY <1>8, <3>1, <3>4, <4>1
      <4> QED
        BY <1>4, <4>1, <4>2
    <3> QED
      BY <3>2, <3>3, <3>4
  <2> QED
    BY <1>6, <2>1, <2>2
<1>12. ASSUME NEW a \in 1 .. n + 1
       PROVE  d[l][a] = node \/ \E e \in 1 .. n : d[l][a] = c[l][e] /\ e = (IF a < i THEN a ELSE a - 1) /\ a # i
  <2>1. CASE a < i
    BY <1>7, <1>8, <2>1
  <2>2. CASE a = i
    BY <1>8, <2>2
  <2>3. CASE a > i
    <3>1. a - 1 \in 1 .. n /\ ~(a < i) /\ a # i
      BY <1>7, <2>3
    <3> QED
      BY <1>8, <3>1
  <2> QED
    BY <1>7, <2>1, <2>2, <2>3
<1>13. ASSUME NEW a \in 1 .. n + 1, d[l][a] = node PROVE a = i
  <2>1. CASE a < i
    BY <1>7, <1>8, <1>13, <2>1
  <2>2. CASE a > i
    <3>1. a - 1 \in 1 .. n /\ ~(a < i) /\ a # i
      BY <1>7, <2>2
    <3> QED
      BY <1>7, <1>8, <1>13, <3>1
  <2> QED
    BY <1>7, <2>1, <2>2
<1>14. ASSUME NEW a \in 1 .. n + 1, NEW b \in 1 .. n + 1, d[l][a] = d[l][b] PROVE a = b
  <2>1. CASE d[l][a] = node
    BY <1>13, <1>14, <2>1
  <2>2. CASE d[l][a] # node
    <3>1. PICK e \in 1 .. n : d[l][a] = c[l][e] /\ e = (IF a < i THEN a ELSE a - 1) /\ a # i
      BY <1>12, <2>2
    <3>2. PICK f \in 1 .. n : d[l][b] = c[l][f] /\ f = (IF b < i THEN b ELSE b - 1) /\ b # i
      BY <1>12, <1>14, <2>2
    <3>3. e = f
      <4>1. \A a1, b1 \in 1 .. n : c[l][a1] = c[l][b1] => a1 = b1
        BY <1>1, <1>5
      <4>2. c[l][e] = c[l][f]
        BY <1>14, <3>1, <3>2
      <4> QED
        BY <4>1, <4>2
    <3> QED
      BY <1>7, <3>1, <3>2, <3>3
  <2> QED
    BY <2>1, <2>2
<1>15. ASSUME NEW m \in Lists, m # l, NEW a \in 1 .. n + 1, NEW b \in 1 .. h.len[m]
       PROVE  d[l][a] # d[m][b]
  <2>1. d[m][b] = c[m][b] /\ c[m][b] \in h.used
    <3>1. d[m] = c[m]
      BY <1>3, <1>15
    <3>2. c[m] \in [1 .. h.len[m] -> h.used]
      BY <1>5
    <3> QED
      BY <3>1, <3>2
  <2>2. CASE d[l][a] = node
    BY <2>1, <2>2
  <2>3. CASE d[l][a] # node
    <3>1. PICK e \in 1 .. n : d[l][a] = c[l][e]
      BY <1>12, <2>3
    <3> QED
      BY <1>1, <1>5, <1>15, <2>1, <3>1
  <2> QED
    BY <2>2, <2>3
<1>16. ASSUME NEW m \in Lists, NEW k \in Lists, NEW a \in 1 .. g.len[m], NEW b \in 1 .. g.len[k],
              d[m][a] = d[k][b]
       PROVE  m = k /\ a = b
  <2>1. CASE m = l /\ k = l
    BY <1>4, <1>14, <1>16, <2>1
  <2>2. CASE m = l /\ k # l
    BY <1>4, <1>15, <1>16, <2>2
  <2>3. CASE m # l /\ k = l
    BY <1>4, <1>15, <1>16, <2>3
  <2>4. CASE m # l /\ k # l
    BY <1>3, <1>4, <1>5, <1>16, <2>4
  <2> QED
    BY <2>1, <2>2, <2>3, <2>4
<1> QED
  BY <1>2, <1>10, <1>11, <1>16 DEF Lies

(***************************************************************************)
(* The fields that the nodes p[1 .. n] have in a list, and those that such *)
(* nodes U have after one of them has come in at place i.                  *)
(***************************************************************************)
Joined(p, n, nx, pv) ==
  \A a \in 1 .. n : /\ nx[p[a]] = (IF a = n THEN NULL ELSE p[a + 1])
                    /\ pv[p[a]] = (IF a = 1 THEN NULL ELSE p[a - 1])

JoinedWith(p, n, i, node, U, nx, pv, gx, gp) ==
  /\ gx[node] = (IF i = n + 1 THEN NULL ELSE p[i])
  /\ gp[node] = (IF i = 1 THEN NULL ELSE p[i - 1])
  /\ \A x \in U : gx[x] = (IF i > 1 /\ x = p[i - 1] THEN node ELSE nx[x])
  /\ \A x \in U : gp[x] = (IF i <= n /\ x = p[i] THEN node ELSE pv[x])

Distinct(p, n) == \A a, b \in 1 .. n : p[a] = p[b] => a = b

\* The nodes of its list are linked again.
LEMMA PutLinks ==
  ASSUME NEW n \in Nat, NEW i \in 1 .. n + 1, NEW U, NEW p \in [1 .. n -> U],
         NEW node, node \notin U, Distinct(p, n),
         NEW nx, NEW pv, NEW gx, NEW gp,
         Joined(p, n, nx, pv), JoinedWith(p, n, i, node, U, nx, pv, gx, gp)
  PROVE  Joined(Put(p, n, i, node), n + 1, gx, gp)
<1> DEFINE q == Put(p, n, i, node)
<1>0. /\ \A a \in 1 .. n : /\ nx[p[a]] = (IF a = n THEN NULL ELSE p[a + 1])
                           /\ pv[p[a]] = (IF a = 1 THEN NULL ELSE p[a - 1])
      /\ gx[node] = (IF i = n + 1 THEN NULL ELSE p[i])
      /\ gp[node] = (IF i = 1 THEN NULL ELSE p[i - 1])
      /\ \A x \in U : gx[x] = (IF i > 1 /\ x = p[i - 1] THEN node ELSE nx[x])
      /\ \A x \in U : gp[x] = (IF i <= n /\ x = p[i] THEN node ELSE pv[x])
      /\ \A j \in 1 .. n + 1 : q[j] = IF j < i THEN p[j] ELSE IF j = i THEN node ELSE p[j - 1]
      /\ \A a, b \in 1 .. n : p[a] = p[b] => a = b
  BY DEF Joined, JoinedWith, Put, Distinct
<1> HIDE DEF q
<1> USE <1>0
<1>1. \A a \in 1 .. n : p[a] \in U /\ p[a] # node
  OBVIOUS
<1>2. q[i] = node
  OBVIOUS
<1>3. \A a \in 1 .. n : a < i => q[a] = p[a]
  OBVIOUS
<1>4. \A a \in 1 .. n : a >= i => q[a + 1] = p[a]
  <2>1. ASSUME NEW a \in 1 .. n, a >= i PROVE q[a + 1] = p[a]
    <3>1. a + 1 \in 1 .. n + 1 /\ ~(a + 1 < i) /\ a + 1 # i /\ (a + 1) - 1 = a
      BY <2>1
    <3> QED
      BY <3>1
  <2> QED
    BY <2>1
<1>5. ASSUME NEW a \in 1 .. n + 1 PROVE gx[q[a]] = (IF a = n + 1 THEN NULL ELSE q[a + 1])
  <2>1. CASE a = i
    <3>1. CASE i = n + 1
      BY <1>2, <2>1, <3>1
    <3>2. CASE i <= n
      BY <1>2, <1>4, <2>1, <3>2
    <3> QED
      BY <3>1, <3>2
  <2>2. CASE a < i
    <3>1. a \in 1 .. n /\ q[a] = p[a] /\ p[a] \in U
      BY <1>1, <1>3, <2>2
    <3>2. CASE a = i - 1
      <4>1. gx[p[a]] = node
        BY <3>1, <3>2
      <4>2. q[a + 1] = node /\ a # n + 1
        BY <1>2, <3>2
      <4> QED
        BY <3>1, <4>1, <4>2
    <3>3. CASE a # i - 1
      <4>1. i - 1 \in 1 .. n /\ a + 1 \in 1 .. n /\ a + 1 < i /\ a # n
        BY <2>2, <3>3
      <4>2. p[a] # p[i - 1]
        BY <3>1, <3>3, <4>1
      <4>3. gx[p[a]] = p[a + 1]
        BY <3>1, <4>1, <4>2
      <4> QED
        BY <1>3, <3>1, <4>1, <4>3
    <3> QED
      BY <3>2, <3>3
  <2>3. CASE a > i
    <3> DEFINE b == a - 1
    <3>1. b \in 1 .. n /\ b >= i /\ b + 1 = a
      BY <2>3
    <3> HIDE DEF b
    <3>2. q[a] = p[b] /\ p[b] \in U
      BY <1>1, <1>4, <3>1
    <3>3. i > 1 => p[b] # p[i - 1]
      <4>1. i > 1 => i - 1 \in 1 .. n /\ b # i - 1
        BY <3>1
      <4> QED
        BY <3>1, <4>1
    <3>4. gx[p[b]] = nx[p[b]]
      BY <3>2, <3>3
    <3>5. CASE b = n
      BY <3>1, <3>2, <3>4, <3>5
    <3>6. CASE b # n
      <4>1. b + 1 \in 1 .. n /\ b + 1 >= i /\ a # n + 1 /\ (b + 1) + 1 = a + 1
        BY <3>1, <3>6
      <4>2. q[(b + 1) + 1] = p[b + 1]
        BY <1>4, <4>1
      <4> QED
        BY <3>1, <3>2, <3>4, <3>6, <4>1, <4>2
    <3> QED
      BY <3>5, <3>6
  <2> QED
    BY <2>1, <2>2, <2>3
<1>6. ASSUME NEW a \in 1 .. n + 1 PROVE gp[q[a]] = (IF a = 1 THEN NULL ELSE q[a - 1])
  <2>1. CASE a = i
    <3>1. i > 1 => i - 1 \in 1 .. n /\ i - 1 < i
      OBVIOUS
    <3> QED
      BY <1>2, <1>3, <2>1, <3>1
  <2>2. CASE a < i
    <3>1. a \in 1 .. n /\ q[a] = p[a] /\ p[a] \in U
      BY <1>1, <1>3, <2>2
    <3>2. i <= n => p[a] # p[i]
      BY <2>2, <3>1
    <3>3. gp[p[a]] = pv[p[a]]
      BY <3>1, <3>2
    <3>4. a # 1 => a - 1 \in 1 .. n /\ a - 1 < i
      BY <2>2, <3>1
    <3> QED
      BY <1>3, <3>1, <3>3, <3>4
  <2>3. CASE a > i
    <3> DEFINE b == a - 1
    <3>1. b \in 1 .. n /\ b >= i /\ b + 1 = a /\ a # 1
      BY <2>3
    <3> HIDE DEF b
    <3>2. q[a] = p[b] /\ p[b] \in U
      BY <1>1, <1>4, <3>1
    <3>3. CASE b = i
      <4>1. gp[p[b]] = node
        BY <3>1, <3>2, <3>3
      <4>2. a - 1 = i
        BY <3>1, <3>3
      <4> QED
        BY <1>2, <3>1, <3>2, <4>1, <4>2
    <3>4. CASE b # i
      <4>1. i \in 1 .. n /\ b # 1 /\ b - 1 \in 1 .. n /\ b - 1 >= i /\ (b - 1) + 1 = a - 1
        BY <3>1, <3>4
      <4>2. p[b] # p[i]
        BY <3>1, <3>4, <4>1
      <4>3. gp[p[b]] = p[b - 1]
        BY <3>1, <3>2, <4>1, <4>2
      <4>4. q[(b - 1) + 1] = p[b - 1]
        BY <1>4, <4>1
      <4> QED
        BY <3>1, <3>2, <4>1, <4>3, <4>4
    <3> QED
      BY <3>3, <3>4
  <2> QED
    BY <2>1, <2>2, <2>3
<1> QED
  BY <1>5, <1>6 DEF Joined, q

LEMMA SplicedLinked ==
  ASSUME NEW h, NEW c, Chained(h, c), NEW g \in Heap, NEW l \in Lists,
         NEW node \in Nodes \ h.used, NEW v \in Values, NEW i \in 1 .. h.len[l] + 1,
         Spliced(h, c, g, l, i, node, v),
         NEW m \in Lists
  PROVE  Linked(g, m, PutChain(c, l, h.len[l], i, node)[m])
<1>1. PICK n \in Nat : n = h.len[l]
  BY DEF Chained, Heap
<1>2. PICK q : q = PutChain(c, l, h.len[l], i, node)[m]
  OBVIOUS
<1>3. PICK k \in Nat : k = h.len[m]
  BY DEF Chained, Heap
<1>4. /\ h.head[m] = (IF k = 0 THEN NULL ELSE c[m][1])
      /\ h.tail[m] = (IF k = 0 THEN NULL ELSE c[m][k])
      /\ \A a \in 1 .. k : /\ h.next[c[m][a]] = (IF a = k THEN NULL ELSE c[m][a + 1])
                           /\ h.prev[c[m][a]] = (IF a = 1 THEN NULL ELSE c[m][a - 1])
  BY <1>3 DEF Chained, Linked
<1>5. c[m] \in [1 .. k -> h.used] /\ c[l] \in [1 .. n -> h.used] /\ h.used \subseteq Nodes
  BY <1>1, <1>3 DEF Chained, Lies, Heap
<1>6. i \in 1 .. n + 1
  BY <1>1
<1>7. /\ g.len[m] = IF m = l THEN n + 1 ELSE k
      /\ g.head[m] = IF m = l /\ i = 1 THEN node ELSE h.head[m]
      /\ g.tail[m] = IF m = l /\ i = n + 1 THEN node ELSE h.tail[m]
  BY <1>1, <1>3 DEF Spliced, Chained, Heap
<1>8. \A x \in h.used :
        /\ g.next[x] = IF i > 1 /\ x = c[l][i - 1] THEN node ELSE h.next[x]
        /\ g.prev[x] = IF i <= n /\ x = c[l][i] THEN node ELSE h.prev[x]
  <2>1. \A x \in h.used : x \in g.used /\ x # node
    BY DEF Spliced
  <2> QED
    BY <1>1, <2>1 DEF Spliced
<1>9. /\ g.next[node] = (IF i = n + 1 THEN NULL ELSE c[l][i])
      /\ g.prev[node] = (IF i = 1 THEN NULL ELSE c[l][i - 1])
  BY <1>1 DEF Spliced
<1>10. CASE m = l
  <2>1. k = n
    BY <1>1, <1>3, <1>10
  <2>2. PICK p \in [1 .. n -> h.used] : p = c[l]
    BY <1>5
  <2>3. q = Put(p, n, i, node)
    BY <1>1, <1>2, <1>10, <2>2 DEF PutChain
  <2>4. \A j \in 1 .. n + 1 : q[j] = IF j < i THEN p[j] ELSE IF j = i THEN node ELSE p[j - 1]
    BY <2>3 DEF Put
  <2>5. \A a, b \in 1 .. n : p[a] = p[b] => a = b
    BY <1>1, <2>2 DEF Chained, Lies
  <2>6. PICK nx : nx = h.next
    OBVIOUS
  <2>7. PICK pv : pv = h.prev
    OBVIOUS
  <2>8. PICK gx : gx = g.next
    OBVIOUS
  <2>9. PICK gp : gp = g.prev
    OBVIOUS
  <2>10. Joined(p, n, nx, pv)
    BY <1>4, <1>10, <2>1, <2>2, <2>6, <2>7 DEF Joined
  <2>11. JoinedWith(p, n, i, node, h.used, nx, pv, gx, gp)
    BY <1>8, <1>9, <2>2, <2>6, <2>7, <2>8, <2>9 DEF JoinedWith
  <2>12. Distinct(p, n) /\ node \notin h.used
    BY <2>5 DEF Distinct
  <2>13. Joined(q, n + 1, gx, gp)
    BY <1>6, <2>3, <2>10, <2>11, <2>12, PutLinks
  <2>14. g.head[m] = q[1]
    <3>1. CASE i = 1
      BY <1>7, <1>10, <2>4, <3>1
    <3>2. CASE i > 1
      <4>1. n > 0 /\ 1 \in 1 .. n + 1 /\ 1 < i
        BY <1>6, <3>2
      <4> QED
        BY <1>4, <1>7, <1>10, <2>1, <2>2, <2>4, <4>1
    <3> QED
      BY <1>6, <3>1, <3>2
  <2>15. g.tail[m] = q[n + 1]
    <3>1. CASE i = n + 1
      BY <1>7, <1>10, <2>4, <3>1
    <3>2. CASE i <= n
      <4>1. n > 0 /\ n + 1 \in 1 .. n + 1 /\ ~(n + 1 < i) /\ n + 1 # i /\ (n + 1) - 1 = n
        BY <1>6, <3>2
      <4> QED
        BY <1>4, <1>7, <1>10, <2>1, <2>2, <2>4, <4>1
    <3> QED
      BY <1>6, <3>1, <3>2
  <2>16. g.len[m] = n + 1 /\ n + 1 # 0
    BY <1>7, <1>10
  <2> QED
    BY <1>2, <2>8, <2>9, <2>13, <2>14, <2>15, <2>16 DEF Linked, Joined
<1>11. CASE m # l
  <2>1. q = c[m]
    BY <1>2, <1>11 DEF PutChain
  <2>2. g.len[m] = k /\ g.head[m] = h.head[m] /\ g.tail[m] = h.tail[m]
    BY <1>7, <1>11
  <2>3. ASSUME NEW a \in 1 .. k PROVE g.next[c[m][a]] = h.next[c[m][a]] /\ g.prev[c[m][a]] = h.prev[c[m][a]]
    <3>1. \A b \in 1 .. n : c[m][a] # c[l][b]
      BY <1>1, <1>3, <1>11 DEF Chained, Lies
    <3>2. c[m][a] \in h.used
      BY <1>5
    <3>3. (i > 1 => i - 1 \in 1 .. n) /\ (i <= n => i \in 1 .. n)
      BY <1>6
    <3> QED
      BY <1>8, <3>1, <3>2, <3>3
  <2> QED
    BY <1>2, <1>4, <2>1, <2>2, <2>3 DEF Linked
<1> QED
  BY <1>10, <1>11

(***************************************************************************)
(* What the operators of Sequence do to a sequence, place by place.        *)
(***************************************************************************)
\* A sequence s of n without what is at i.
Drop(s, n, i) == [j \in 1 .. n - 1 |-> IF j < i THEN s[j] ELSE s[j + 1]]

LEMMA Part ==
  ASSUME NEW T, NEW s \in Seq(T), NEW a \in 1 .. Len(s) + 1, NEW b \in 0 .. Len(s), a <= b + 1
  PROVE  /\ SubSeq(s, a, b) \in Seq(T)
         /\ Len(SubSeq(s, a, b)) = b - a + 1
         /\ \A j \in 1 .. b - a + 1 : SubSeq(s, a, b)[j] = s[a + j - 1]
<1>1. \A j \in a .. b : s[j] \in T
  <2>1. \A j \in a .. b : j \in 1 .. Len(s)
    BY LenProperties
  <2> QED
    BY <2>1, ElementOfSeq
<1>2. a \in Int /\ b \in Int
  BY LenProperties
<1> QED
  BY <1>1, <1>2, SubSeqProperties

LEMMA Front ==
  ASSUME NEW T, NEW s \in Seq(T), NEW k \in 0 .. Len(s)
  PROVE  /\ SubSeq(s, 1, k) \in Seq(T)
         /\ Len(SubSeq(s, 1, k)) = k
         /\ \A j \in 1 .. k : SubSeq(s, 1, k)[j] = s[j]
<1>2. /\ 1 \in 1 .. Len(s) + 1 /\ 1 <= k + 1 /\ k - 1 + 1 = k
      /\ \A j \in 1 .. k : 1 + j - 1 = j
  BY LenProperties
<1>3. PICK a : a = SubSeq(s, 1, k)
  OBVIOUS
<1>4. a \in Seq(T) /\ Len(a) = k - 1 + 1 /\ \A j \in 1 .. k - 1 + 1 : a[j] = s[1 + j - 1]
  BY <1>2, <1>3, Part
<1>5. \A j \in 1 .. k : a[j] = s[j]
  BY <1>2, <1>4
<1> QED
  BY <1>2, <1>3, <1>4, <1>5

LEMMA Rest ==
  ASSUME NEW T, NEW s \in Seq(T), NEW k \in 0 .. Len(s)
  PROVE  /\ SubSeq(s, k + 1, Len(s)) \in Seq(T)
         /\ Len(SubSeq(s, k + 1, Len(s))) = Len(s) - k
         /\ \A j \in 1 .. Len(s) - k : SubSeq(s, k + 1, Len(s))[j] = s[k + j]
<1>1. PICK n \in Nat : n = Len(s)
  BY LenProperties
<1>2. /\ n \in 0 .. Len(s) /\ k + 1 <= n + 1 /\ k + 1 \in 1 .. Len(s) + 1 /\ n - (k + 1) + 1 = n - k
      /\ \A j \in 1 .. n - k : (k + 1) + j - 1 = k + j
  BY <1>1
<1>3. PICK b : b = SubSeq(s, k + 1, n)
  OBVIOUS
<1>4. /\ b \in Seq(T) /\ Len(b) = n - (k + 1) + 1
      /\ \A j \in 1 .. n - (k + 1) + 1 : b[j] = s[(k + 1) + j - 1]
  BY <1>2, <1>3, Part
<1>5. \A j \in 1 .. n - k : b[j] = s[k + j]
  BY <1>2, <1>4
<1> QED
  BY <1>1, <1>2, <1>3, <1>4, <1>5

LEMMA InsertAtIs ==
  ASSUME NEW T, NEW s \in Seq(T), NEW i \in 1 .. Len(s) + 1, NEW e \in T
  PROVE  S!InsertAt(s, i, e) = Put(s, Len(s), i, e)
<1>1. PICK n \in Nat : n = Len(s)
  BY LenProperties
<1>0. i \in 1 .. n + 1
  BY <1>1
<1>2. PICK a : a = SubSeq(s, 1, i - 1)
  OBVIOUS
<1>3. PICK b : b = SubSeq(s, i, n)
  OBVIOUS
<1>a. a \in Seq(T) /\ Len(a) = i - 1 /\ \A j \in 1 .. i - 1 : a[j] = s[j]
  <2>1. i - 1 \in 0 .. Len(s)
    BY <1>0, <1>1
  <2> QED
    BY <1>2, <2>1, Front
<1>b. b \in Seq(T) /\ Len(b) = n - i + 1 /\ \A j \in 1 .. n - i + 1 : b[j] = s[i + j - 1]
  <2>1. i - 1 \in 0 .. Len(s) /\ (i - 1) + 1 = i
    BY <1>0, <1>1
  <2>2. /\ b \in Seq(T) /\ Len(b) = n - (i - 1)
        /\ \A j \in 1 .. n - (i - 1) : b[j] = s[(i - 1) + j]
    BY <1>1, <1>3, <2>1, Rest
  <2>3. n - (i - 1) = n - i + 1 /\ \A j \in 1 .. n - i + 1 : (i - 1) + j = i + j - 1
    BY <1>0
  <2> QED
    BY <2>2, <2>3
<1>c. <<e>> \in Seq(T) /\ Len(<<e>>) = 1 /\ <<e>>[1] = e
  OBVIOUS
<1>4. PICK f : f = <<e>>
  OBVIOUS
<1>5. PICK m : m = a \o f
  OBVIOUS
<1>6. /\ m \in Seq(T) /\ Len(m) = Len(a) + Len(f)
      /\ \A j \in 1 .. Len(a) + Len(f) : m[j] = IF j <= Len(a) THEN a[j] ELSE f[j - Len(a)]
  BY <1>a, <1>c, <1>4, <1>5, ConcatProperties
<1>7. Len(a) + Len(f) = i /\ Len(a) = i - 1 /\ f[1] = e
  BY <1>0, <1>a, <1>c, <1>4
<1>8. Len(m) = i /\ \A j \in 1 .. i : m[j] = IF j <= i - 1 THEN a[j] ELSE f[j - (i - 1)]
  BY <1>6, <1>7
<1>9. PICK q : q = m \o b
  OBVIOUS
<1>10. /\ q \in Seq(T) /\ Len(q) = Len(m) + Len(b)
       /\ \A j \in 1 .. Len(m) + Len(b) : q[j] = IF j <= Len(m) THEN m[j] ELSE b[j - Len(m)]
  <2>1. m \in Seq(T) /\ b \in Seq(T)
    BY <1>6, <1>b
  <2> QED
    BY <1>9, <2>1, ConcatProperties
<1>11. Len(m) + Len(b) = n + 1
  <2>1. Len(m) = i /\ Len(b) = n - i + 1
    BY <1>8, <1>b
  <2> QED
    BY <1>0, <2>1
<1>12. Len(q) = n + 1 /\ \A j \in 1 .. n + 1 : q[j] = IF j <= i THEN m[j] ELSE b[j - i]
  BY <1>8, <1>10, <1>11
<1>13. ASSUME NEW j \in 1 .. n + 1 PROVE q[j] = IF j < i THEN s[j] ELSE IF j = i THEN e ELSE s[j - 1]
  <2>1. CASE j < i
    <3>1. j \in 1 .. i - 1 /\ j \in 1 .. i /\ j <= i - 1 /\ j <= i
      BY <1>0, <2>1
    <3> QED
      BY <1>a, <1>8, <1>12, <2>1, <3>1
  <2>2. CASE j = i
    <3>1. j \in 1 .. i /\ ~(j <= i - 1) /\ j <= i /\ j - (i - 1) = 1
      BY <1>0, <2>2
    <3>2. m[j] = f[j - (i - 1)] /\ q[j] = m[j]
      BY <1>8, <1>12, <3>1
    <3>3. q[j] = e /\ ~(j < i)
      BY <1>7, <3>1, <3>2
    <3> QED
      BY <2>2, <3>3
  <2>3. CASE j > i
    <3>1. j - i \in 1 .. n - i + 1 /\ i + (j - i) - 1 = j - 1 /\ ~(j <= i) /\ ~(j < i) /\ j # i
      BY <1>0, <2>3
    <3>2. b[j - i] = s[j - 1]
      BY <1>b, <3>1
    <3> QED
      BY <1>12, <3>1, <3>2
  <2> QED
    BY <1>0, <2>1, <2>2, <2>3
<1>14. q = [j \in 1 .. n + 1 |-> q[j]]
  <2>1. q \in [1 .. n + 1 -> T]
    BY <1>10, <1>12, LenProperties
  <2> QED
    BY <2>1
<1>15. q = Put(s, n, i, e)
  BY <1>13, <1>14 DEF Put
<1> QED
  BY <1>1, <1>2, <1>3, <1>4, <1>5, <1>9, <1>15 DEF S!InsertAt

LEMMA RemoveAtIs ==
  ASSUME NEW T, NEW s \in Seq(T), NEW i \in 1 .. Len(s)
  PROVE  S!RemoveAt(s, i) = Drop(s, Len(s), i)
<1>1. PICK n \in Nat : n = Len(s)
  BY LenProperties
<1>0. i \in 1 .. n
  BY <1>1
<1>2. PICK a : a = SubSeq(s, 1, i - 1)
  OBVIOUS
<1>3. PICK b : b = SubSeq(s, i + 1, n)
  OBVIOUS
<1>a. a \in Seq(T) /\ Len(a) = i - 1 /\ \A j \in 1 .. i - 1 : a[j] = s[j]
  <2>1. i - 1 \in 0 .. Len(s)
    BY <1>0, <1>1
  <2> QED
    BY <1>2, <2>1, Front
<1>b. b \in Seq(T) /\ Len(b) = n - i /\ \A j \in 1 .. n - i : b[j] = s[i + j]
  <2>1. i \in 0 .. Len(s)
    BY <1>0, <1>1
  <2> QED
    BY <1>1, <1>3, <2>1, Rest
<1>4. PICK q : q = a \o b
  OBVIOUS
<1>5. /\ q \in Seq(T) /\ Len(q) = Len(a) + Len(b)
      /\ \A j \in 1 .. Len(a) + Len(b) : q[j] = IF j <= Len(a) THEN a[j] ELSE b[j - Len(a)]
  BY <1>4, <1>a, <1>b, ConcatProperties
<1>6. Len(a) + Len(b) = n - 1
  <2>1. Len(a) = i - 1 /\ Len(b) = n - i
    BY <1>a, <1>b
  <2> QED
    BY <1>0, <2>1
<1>7. Len(q) = n - 1 /\ \A j \in 1 .. n - 1 : q[j] = IF j <= i - 1 THEN a[j] ELSE b[j - (i - 1)]
  BY <1>5, <1>6, <1>a
<1>8. ASSUME NEW j \in 1 .. n - 1 PROVE q[j] = IF j < i THEN s[j] ELSE s[j + 1]
  <2>1. CASE j < i
    <3>1. j \in 1 .. i - 1 /\ j <= i - 1
      BY <1>0, <2>1
    <3> QED
      BY <1>7, <1>a, <2>1, <3>1
  <2>2. CASE j >= i
    <3>1. j - (i - 1) \in 1 .. n - i /\ i + (j - (i - 1)) = j + 1 /\ ~(j <= i - 1) /\ ~(j < i)
      BY <1>0, <2>2
    <3>2. b[j - (i - 1)] = s[j + 1]
      BY <1>b, <3>1
    <3> QED
      BY <1>7, <3>1, <3>2
  <2> QED
    BY <1>0, <2>1, <2>2
<1>9. q = [j \in 1 .. n - 1 |-> q[j]]
  <2>1. q \in [1 .. n - 1 -> T]
    BY <1>5, <1>7, LenProperties
  <2> QED
    BY <2>1
<1>10. q = Drop(s, n, i)
  BY <1>8, <1>9 DEF Drop
<1> QED
  BY <1>1, <1>2, <1>3, <1>4, <1>10 DEF S!RemoveAt

LEMMA AppendIs ==
  ASSUME NEW T, NEW s \in Seq(T), NEW e \in T
  PROVE  Append(s, e) = Put(s, Len(s), Len(s) + 1, e)
<1>1. PICK n \in Nat : n = Len(s)
  BY LenProperties
<1>2. PICK q : q = Append(s, e)
  OBVIOUS
<1>3. q \in Seq(T) /\ Len(q) = n + 1 /\ q[n + 1] = e /\ \A j \in 1 .. n : q[j] = s[j]
  BY <1>1, <1>2, AppendProperties
<1>4. q = [j \in 1 .. n + 1 |-> q[j]]
  <2>1. q \in [1 .. n + 1 -> T]
    BY <1>3, LenProperties
  <2> QED
    BY <2>1
<1>5. \A j \in 1 .. n + 1 : q[j] = IF j < n + 1 THEN s[j] ELSE IF j = n + 1 THEN e ELSE s[j - 1]
  BY <1>3
<1>6. q = Put(s, n, n + 1, e)
  BY <1>4, <1>5 DEF Put
<1> QED
  BY <1>1, <1>2, <1>6

\* The last in front of the others.
LEMMA RotatedIs ==
  ASSUME NEW T, NEW s \in Seq(T), s # <<>>
  PROVE  <<S!Last(s)>> \o S!Front(s) = [j \in 1 .. Len(s) |-> IF j = 1 THEN s[Len(s)] ELSE s[j - 1]]
<1>1. PICK n \in Nat : n = Len(s) /\ n > 0
  BY LenProperties, EmptySeq
<1>2. PICK a : a = SubSeq(s, 1, n - 1)
  OBVIOUS
<1>3. PICK b : b = <<s[n]>>
  OBVIOUS
<1>a. a \in Seq(T) /\ Len(a) = n - 1 /\ \A j \in 1 .. n - 1 : a[j] = s[j]
  <2>1. n - 1 \in 0 .. Len(s)
    BY <1>1
  <2> QED
    BY <1>2, <2>1, Front
<1>b. b \in Seq(T) /\ Len(b) = 1 /\ b[1] = s[n]
  <2>1. s[n] \in T
    BY <1>1, LenProperties
  <2> QED
    BY <1>3, <2>1
<1>4. PICK q : q = b \o a
  OBVIOUS
<1>5. /\ q \in Seq(T) /\ Len(q) = Len(b) + Len(a)
      /\ \A j \in 1 .. Len(b) + Len(a) : q[j] = IF j <= Len(b) THEN b[j] ELSE a[j - Len(b)]
  BY <1>4, <1>a, <1>b, ConcatProperties
<1>6. Len(b) + Len(a) = n
  <2>1. Len(b) = 1 /\ Len(a) = n - 1
    BY <1>a, <1>b
  <2> QED
    BY <1>1, <2>1
<1>7. Len(q) = n /\ \A j \in 1 .. n : q[j] = IF j <= 1 THEN b[j] ELSE a[j - 1]
  BY <1>5, <1>6, <1>b
<1>8. ASSUME NEW j \in 1 .. n PROVE q[j] = IF j = 1 THEN s[n] ELSE s[j - 1]
  <2>1. CASE j = 1
    BY <1>7, <1>b, <2>1
  <2>2. CASE j # 1
    <3>1. j - 1 \in 1 .. n - 1 /\ ~(j <= 1)
      BY <2>2
    <3> QED
      BY <1>7, <1>a, <2>2, <3>1
  <2> QED
    BY <2>1, <2>2
<1>9. q = [j \in 1 .. n |-> q[j]]
  <2>1. q \in [1 .. n -> T]
    BY <1>5, <1>7, LenProperties
  <2> QED
    BY <2>1
<1>10. q = [j \in 1 .. n |-> IF j = 1 THEN s[n] ELSE s[j - 1]]
  BY <1>8, <1>9
<1> QED
  BY <1>1, <1>2, <1>3, <1>4, <1>10 DEF S!Last, S!Front

(***************************************************************************)
(* The functions of list.c that put a node in.                             *)
(***************************************************************************)
LEMMA SplicedChained ==
  ASSUME NEW h, NEW c, Chained(h, c), NEW g \in Heap, NEW l \in Lists,
         NEW node \in Nodes \ h.used, NEW v \in Values, NEW i \in 1 .. h.len[l] + 1,
         Spliced(h, c, g, l, i, node, v)
  PROVE  /\ Chained(g, PutChain(c, l, h.len[l], i, node))
         /\ Contents(g) = [Contents(h) EXCEPT ![l] = Put(Contents(h)[l], h.len[l], i, v)]
<1>1. PICK n \in Nat : n = h.len[l]
  BY DEF Chained, Heap
<1>2. PICK d : d = PutChain(c, l, h.len[l], i, node)
  OBVIOUS
<1>3. g.value[node] = v /\ g.used = h.used \cup {node} /\ \A x \in h.used : g.value[x] = h.value[x]
  BY DEF Spliced
<1>4. Chained(g, d)
  <2>1. Lies(g, d)
    BY <1>2, SplicedLies
  <2>2. \A m \in Lists : Linked(g, m, d[m])
    BY <1>2, SplicedLinked
  <2>3. ASSUME NEW x \in g.used PROVE g.value[x] \in Values
    <3>2. CASE x = node
      BY <1>3, <3>2
    <3>3. CASE x # node
      BY <1>3, <3>3 DEF Chained
    <3> QED
      BY <3>2, <3>3
  <2> QED
    BY <2>1, <2>2, <2>3 DEF Chained
<1>5. /\ Contents(g) = [m \in Lists |-> [j \in 1 .. g.len[m] |-> g.value[d[m][j]]]]
      /\ Contents(h) = [m \in Lists |-> [j \in 1 .. h.len[m] |-> h.value[c[m][j]]]]
  BY <1>4, ContentsAre
<1>6. \A m \in Lists : g.len[m] = (IF m = l THEN n + 1 ELSE h.len[m])
  BY <1>1 DEF Spliced, Chained, Heap
<1>7. \A m \in Lists : \A j \in 1 .. h.len[m] : c[m][j] \in h.used /\ g.value[c[m][j]] = h.value[c[m][j]]
  <2>1. \A m \in Lists : c[m] \in [1 .. h.len[m] -> h.used]
    BY DEF Chained, Lies
  <2>2. \A x \in h.used : g.value[x] = h.value[x]
    BY <1>3
  <2> QED
    BY <2>1, <2>2
<1>8. ASSUME NEW m \in Lists, m # l PROVE Contents(g)[m] = Contents(h)[m]
  <2>1. d[m] = c[m] /\ g.len[m] = h.len[m]
    BY <1>2, <1>6, <1>8 DEF PutChain
  <2> QED
    BY <1>5, <1>7, <2>1
<1>9. Contents(g)[l] = Put(Contents(h)[l], n, i, v)
  <2>1. d[l] = Put(c[l], n, i, node) /\ i \in 1 .. n + 1
    BY <1>1, <1>2 DEF PutChain
  <2>2. PICK s : s = Contents(h)[l]
    OBVIOUS
  <2>3. \A j \in 1 .. n : s[j] = h.value[c[l][j]] /\ g.value[c[l][j]] = s[j]
    BY <1>1, <1>5, <1>7, <2>2
  <2>4. g.value[node] = v
    BY <1>3
  <2>5. ASSUME NEW j \in 1 .. n + 1
        PROVE  g.value[d[l][j]] = IF j < i THEN s[j] ELSE IF j = i THEN v ELSE s[j - 1]
    <3>0. d[l][j] = IF j < i THEN c[l][j] ELSE IF j = i THEN node ELSE c[l][j - 1]
      BY <2>1 DEF Put
    <3>1. CASE j < i
      <4>1. j \in 1 .. n
        BY <2>1, <3>1
      <4> QED
        BY <2>3, <3>0, <3>1, <4>1
    <3>2. CASE j = i
      BY <2>4, <3>0, <3>2
    <3>3. CASE j > i
      <4>1. j - 1 \in 1 .. n /\ ~(j < i) /\ j # i
        BY <2>1, <3>3
      <4> QED
        BY <2>3, <3>0, <4>1
    <3> QED
      BY <2>1, <3>1, <3>2, <3>3
  <2>6. Contents(g)[l] = [j \in 1 .. n + 1 |-> g.value[d[l][j]]]
    BY <1>5, <1>6
  <2> QED
    BY <2>2, <2>5, <2>6 DEF Put
<1> QED
  BY <1>1, <1>2, <1>4, <1>5, <1>8, <1>9

\* A record with the fields of a heap is one when each of them is right.
LEMMA IsHeap ==
  ASSUME NEW h \in Heap, NEW g,
         g = [head |-> g.head, tail |-> g.tail, len |-> g.len, prev |-> g.prev, next |-> g.next,
              value |-> g.value, used |-> g.used],
         g.head \in [Lists -> Nodes \cup {NULL}], g.tail \in [Lists -> Nodes \cup {NULL}],
         g.len \in [Lists -> Nat],
         g.prev \in [Nodes -> Nodes \cup {NULL}], g.next \in [Nodes -> Nodes \cup {NULL}],
         g.value \in [Nodes -> Values \cup {NULL}], g.used \subseteq Nodes
  PROVE  g \in Heap
BY DEF Heap

\* The fields of a heap with a new node.
LEMMA Created ==
  ASSUME NEW h \in Heap, NEW node \in Nodes, NEW v \in Values
  PROVE  LET k == listCreateNode(h, node, v) IN
         /\ k \in Heap
         /\ k.head = h.head /\ k.tail = h.tail /\ k.len = h.len
         /\ k.next = [h.next EXCEPT ![node] = NULL]
         /\ k.prev = [h.prev EXCEPT ![node] = NULL]
         /\ k.value = [h.value EXCEPT ![node] = v]
         /\ k.used = h.used \cup {node}
BY DEF Heap, listCreateNode

LEMMA HeadSplices ==
  ASSUME NEW h, NEW c, Chained(h, c), NEW l \in Lists,
         NEW node \in Nodes \ h.used, NEW v \in Values
  PROVE  LET g == listAddNodeHead(listCreateNode(h, node, v), l, node) IN
         g \in Heap /\ Spliced(h, c, g, l, 1, node, v)
<1>1. PICK k : k = listCreateNode(h, node, v)
  OBVIOUS
<1>2. h \in Heap
  BY DEF Chained
<1>3. /\ k \in Heap
      /\ k.head = h.head /\ k.tail = h.tail /\ k.len = h.len
      /\ k.next = [h.next EXCEPT ![node] = NULL]
      /\ k.prev = [h.prev EXCEPT ![node] = NULL]
      /\ k.value = [h.value EXCEPT ![node] = v]
      /\ k.used = h.used \cup {node}
  BY <1>1, <1>2, Created
<1>4. PICK n \in Nat : n = h.len[l]
  BY <1>2 DEF Heap
<1>5. c[l] \in [1 .. n -> h.used] /\ h.head[l] = (IF n = 0 THEN NULL ELSE c[l][1]) /\ h.used \subseteq Nodes
      /\ h.tail[l] = (IF n = 0 THEN NULL ELSE c[l][n])
  BY <1>4 DEF Chained, Lies, Linked, Heap
<1>6. PICK g : g = listAddNodeHead(k, l, node)
  OBVIOUS
<1>7. CASE n = 0
  <2>1. g = [k EXCEPT !.head[l] = node, !.tail[l] = node,
                      !.prev[node] = NULL, !.next[node] = NULL, !.len[l] = @ + 1]
    BY <1>3, <1>4, <1>6, <1>7 DEF listAddNodeHead
  <2>a. g = [head |-> g.head, tail |-> g.tail, len |-> g.len, prev |-> g.prev, next |-> g.next,
             value |-> g.value, used |-> g.used]
    BY <1>3, <2>1 DEF Heap
  <2>3. /\ g.head = [k.head EXCEPT ![l] = node] /\ g.tail = [k.tail EXCEPT ![l] = node]
        /\ g.prev = [k.prev EXCEPT ![node] = NULL] /\ g.next = [k.next EXCEPT ![node] = NULL]
        /\ g.len = [k.len EXCEPT ![l] = k.len[l] + 1] /\ g.value = k.value /\ g.used = k.used
    BY <1>3, <2>1 DEF Heap
  <2>2. g \in Heap
    <3>1. /\ g.head \in [Lists -> Nodes \cup {NULL}] /\ g.tail \in [Lists -> Nodes \cup {NULL}]
          /\ g.len \in [Lists -> Nat] /\ g.used \subseteq Nodes
      BY <1>3, <2>3 DEF Heap
    <3>2. g.prev \in [Nodes -> Nodes \cup {NULL}] /\ g.next \in [Nodes -> Nodes \cup {NULL}]
      <4>1. /\ k.prev \in [Nodes -> Nodes \cup {NULL}] /\ k.next \in [Nodes -> Nodes \cup {NULL}]
            /\ k.head[l] \in Nodes \cup {NULL} /\ k.tail[l] \in Nodes \cup {NULL}
        BY <1>3 DEF Heap
      <4>2. g.prev \in [Nodes -> Nodes \cup {NULL}]
        BY <2>3, <4>1
      <4>3. g.next \in [Nodes -> Nodes \cup {NULL}]
        BY <2>3, <4>1
      <4> QED
        BY <4>2, <4>3
    <3>3. g.value \in [Nodes -> Values \cup {NULL}]
      BY <1>3, <2>3 DEF Heap
    <3> QED
      BY <1>3, <2>a, <3>1, <3>2, <3>3, IsHeap
  <2>4. /\ g.used = h.used \cup {node}
        /\ g.value = [h.value EXCEPT ![node] = v]
        /\ g.len = [h.len EXCEPT ![l] = h.len[l] + 1]
        /\ g.head = [h.head EXCEPT ![l] = node]
        /\ g.tail = [h.tail EXCEPT ![l] = node]
    BY <1>3, <2>3
  <2>5. ASSUME NEW x \in Nodes
        PROVE  g.next[x] = (IF x = node THEN NULL ELSE h.next[x]) /\ g.prev[x] = (IF x = node THEN NULL ELSE h.prev[x])
    BY <1>2, <1>3, <2>3 DEF Heap
  <2>b. /\ g.used \subseteq Nodes /\ g.value[node] = v
        /\ \A x \in h.used : g.value[x] = h.value[x]
    BY <1>2, <2>4 DEF Heap
  <2>6. Spliced(h, c, g, l, 1, node, v)
    <3>1. h.len[l] + 1 = 1 /\ ~(1 > 1) /\ ~(1 <= h.len[l]) /\ n + 1 = 1
      BY <1>4, <1>7
    <3> HIDE DEF Spliced
    <3> QED
      BY <2>4, <2>5, <2>b, <3>1 DEF Spliced
  <2> QED
    BY <1>1, <1>6, <2>2, <2>6
<1>8. CASE n # 0
  <2>0. c[l][1] \in Nodes /\ c[l][1] # node /\ h.head[l] = c[l][1] /\ 1 \in 1 .. n
    BY <1>5, <1>8
  <2>1. g = [k EXCEPT !.prev = [@ EXCEPT ![node] = NULL, ![k.head[l]] = node],
                      !.next[node] = k.head[l],
                      !.head[l] = node, !.len[l] = @ + 1]
    BY <1>3, <1>4, <1>6, <1>8 DEF listAddNodeHead
  <2>a. g = [head |-> g.head, tail |-> g.tail, len |-> g.len, prev |-> g.prev, next |-> g.next,
             value |-> g.value, used |-> g.used]
    BY <1>3, <2>1 DEF Heap
  <2>3. /\ g.head = [k.head EXCEPT ![l] = node] /\ g.tail = k.tail
        /\ g.prev = [k.prev EXCEPT ![node] = NULL, ![k.head[l]] = node]
        /\ g.next = [k.next EXCEPT ![node] = k.head[l]]
        /\ g.len = [k.len EXCEPT ![l] = k.len[l] + 1] /\ g.value = k.value /\ g.used = k.used
    BY <1>3, <2>1 DEF Heap
  <2>2. g \in Heap
    <3>1. /\ g.head \in [Lists -> Nodes \cup {NULL}] /\ g.tail \in [Lists -> Nodes \cup {NULL}]
          /\ g.len \in [Lists -> Nat] /\ g.used \subseteq Nodes
      BY <1>3, <2>3 DEF Heap
    <3>2. g.prev \in [Nodes -> Nodes \cup {NULL}] /\ g.next \in [Nodes -> Nodes \cup {NULL}]
      <4>1. /\ k.prev \in [Nodes -> Nodes \cup {NULL}] /\ k.next \in [Nodes -> Nodes \cup {NULL}]
            /\ k.head[l] \in Nodes \cup {NULL} /\ k.tail[l] \in Nodes \cup {NULL}
        BY <1>3 DEF Heap
      <4>2. g.prev \in [Nodes -> Nodes \cup {NULL}]
        BY <2>3, <4>1
      <4>3. g.next \in [Nodes -> Nodes \cup {NULL}]
        BY <2>3, <4>1
      <4> QED
        BY <4>2, <4>3
    <3>3. g.value \in [Nodes -> Values \cup {NULL}]
      BY <1>3, <2>3 DEF Heap
    <3> QED
      BY <1>3, <2>a, <3>1, <3>2, <3>3, IsHeap
  <2>4. /\ g.used = h.used \cup {node}
        /\ g.value = [h.value EXCEPT ![node] = v]
        /\ g.len = [h.len EXCEPT ![l] = h.len[l] + 1]
        /\ g.head = [h.head EXCEPT ![l] = node]
        /\ g.tail = [h.tail EXCEPT ![l] = h.tail[l]]
    BY <1>2, <1>3, <2>3 DEF Heap
  <2>5. ASSUME NEW x \in Nodes
        PROVE  /\ g.next[x] = (IF x = node THEN c[l][1] ELSE h.next[x])
               /\ g.prev[x] = (IF x = node THEN NULL ELSE IF x = c[l][1] THEN node ELSE h.prev[x])
    BY <1>2, <1>3, <2>0, <2>3 DEF Heap
  <2>b. /\ g.used \subseteq Nodes /\ g.value[node] = v
        /\ \A x \in h.used : g.value[x] = h.value[x]
    BY <1>2, <2>4 DEF Heap
  <2>6. Spliced(h, c, g, l, 1, node, v)
    BY <1>4, <1>8, <2>4, <2>5, <2>b DEF Spliced
  <2> QED
    BY <1>1, <1>6, <2>2, <2>6
<1> QED
  BY <1>7, <1>8

LEMMA TailSplices ==
  ASSUME NEW h, NEW c, Chained(h, c), NEW l \in Lists,
         NEW node \in Nodes \ h.used, NEW v \in Values
  PROVE  LET g == listAddNodeTail(listCreateNode(h, node, v), l, node) IN
         g \in Heap /\ Spliced(h, c, g, l, h.len[l] + 1, node, v)
<1>1. PICK k : k = listCreateNode(h, node, v)
  OBVIOUS
<1>2. h \in Heap
  BY DEF Chained
<1>3. /\ k \in Heap
      /\ k.head = h.head /\ k.tail = h.tail /\ k.len = h.len
      /\ k.next = [h.next EXCEPT ![node] = NULL]
      /\ k.prev = [h.prev EXCEPT ![node] = NULL]
      /\ k.value = [h.value EXCEPT ![node] = v]
      /\ k.used = h.used \cup {node}
  BY <1>1, <1>2, Created
<1>4. PICK n \in Nat : n = h.len[l]
  BY <1>2 DEF Heap
<1>5. c[l] \in [1 .. n -> h.used] /\ h.head[l] = (IF n = 0 THEN NULL ELSE c[l][1]) /\ h.used \subseteq Nodes
      /\ h.tail[l] = (IF n = 0 THEN NULL ELSE c[l][n])
  BY <1>4 DEF Chained, Lies, Linked, Heap
<1>6. PICK g : g = listAddNodeTail(k, l, node)
  OBVIOUS
<1>7. CASE n = 0
  <2>1. g = [k EXCEPT !.head[l] = node, !.tail[l] = node,
                      !.prev[node] = NULL, !.next[node] = NULL, !.len[l] = @ + 1]
    BY <1>3, <1>4, <1>6, <1>7 DEF listAddNodeTail
  <2>a. g = [head |-> g.head, tail |-> g.tail, len |-> g.len, prev |-> g.prev, next |-> g.next,
             value |-> g.value, used |-> g.used]
    BY <1>3, <2>1 DEF Heap
  <2>3. /\ g.head = [k.head EXCEPT ![l] = node] /\ g.tail = [k.tail EXCEPT ![l] = node]
        /\ g.prev = [k.prev EXCEPT ![node] = NULL] /\ g.next = [k.next EXCEPT ![node] = NULL]
        /\ g.len = [k.len EXCEPT ![l] = k.len[l] + 1] /\ g.value = k.value /\ g.used = k.used
    BY <1>3, <2>1 DEF Heap
  <2>2. g \in Heap
    <3>1. /\ g.head \in [Lists -> Nodes \cup {NULL}] /\ g.tail \in [Lists -> Nodes \cup {NULL}]
          /\ g.len \in [Lists -> Nat] /\ g.used \subseteq Nodes
      BY <1>3, <2>3 DEF Heap
    <3>2. g.prev \in [Nodes -> Nodes \cup {NULL}] /\ g.next \in [Nodes -> Nodes \cup {NULL}]
      <4>1. /\ k.prev \in [Nodes -> Nodes \cup {NULL}] /\ k.next \in [Nodes -> Nodes \cup {NULL}]
            /\ k.head[l] \in Nodes \cup {NULL} /\ k.tail[l] \in Nodes \cup {NULL}
        BY <1>3 DEF Heap
      <4>2. g.prev \in [Nodes -> Nodes \cup {NULL}]
        BY <2>3, <4>1
      <4>3. g.next \in [Nodes -> Nodes \cup {NULL}]
        BY <2>3, <4>1
      <4> QED
        BY <4>2, <4>3
    <3>3. g.value \in [Nodes -> Values \cup {NULL}]
      BY <1>3, <2>3 DEF Heap
    <3> QED
      BY <1>3, <2>a, <3>1, <3>2, <3>3, IsHeap
  <2>4. /\ g.used = h.used \cup {node}
        /\ g.value = [h.value EXCEPT ![node] = v]
        /\ g.len = [h.len EXCEPT ![l] = h.len[l] + 1]
        /\ g.head = [h.head EXCEPT ![l] = node]
        /\ g.tail = [h.tail EXCEPT ![l] = node]
    BY <1>3, <2>3
  <2>5. ASSUME NEW x \in Nodes
        PROVE  g.next[x] = (IF x = node THEN NULL ELSE h.next[x]) /\ g.prev[x] = (IF x = node THEN NULL ELSE h.prev[x])
    BY <1>2, <1>3, <2>3 DEF Heap
  <2>b. /\ g.used \subseteq Nodes /\ g.value[node] = v
        /\ \A x \in h.used : g.value[x] = h.value[x]
    BY <1>2, <2>4 DEF Heap
  <2>6. Spliced(h, c, g, l, n + 1, node, v)
    <3>1. h.len[l] + 1 = 1 /\ ~(1 > 1) /\ ~(1 <= h.len[l]) /\ n + 1 = 1
      BY <1>4, <1>7
    <3> HIDE DEF Spliced
    <3> QED
      BY <2>4, <2>5, <2>b, <3>1 DEF Spliced
  <2> QED
    BY <1>1, <1>4, <1>6, <2>2, <2>6
<1>8. CASE n # 0
  <2>0. c[l][n] \in Nodes /\ c[l][n] # node /\ h.tail[l] = c[l][n] /\ n \in 1 .. n
    BY <1>5, <1>8
  <2>1. g = [k EXCEPT !.prev[node] = k.tail[l],
                      !.next = [@ EXCEPT ![node] = NULL, ![k.tail[l]] = node],
                      !.tail[l] = node, !.len[l] = @ + 1]
    BY <1>3, <1>4, <1>6, <1>8 DEF listAddNodeTail
  <2>a. g = [head |-> g.head, tail |-> g.tail, len |-> g.len, prev |-> g.prev, next |-> g.next,
             value |-> g.value, used |-> g.used]
    BY <1>3, <2>1 DEF Heap
  <2>3. /\ g.tail = [k.tail EXCEPT ![l] = node] /\ g.head = k.head
        /\ g.next = [k.next EXCEPT ![node] = NULL, ![k.tail[l]] = node]
        /\ g.prev = [k.prev EXCEPT ![node] = k.tail[l]]
        /\ g.len = [k.len EXCEPT ![l] = k.len[l] + 1] /\ g.value = k.value /\ g.used = k.used
    BY <1>3, <2>1 DEF Heap
  <2>2. g \in Heap
    <3>1. /\ g.head \in [Lists -> Nodes \cup {NULL}] /\ g.tail \in [Lists -> Nodes \cup {NULL}]
          /\ g.len \in [Lists -> Nat] /\ g.used \subseteq Nodes
      BY <1>3, <2>3 DEF Heap
    <3>2. g.prev \in [Nodes -> Nodes \cup {NULL}] /\ g.next \in [Nodes -> Nodes \cup {NULL}]
      <4>1. /\ k.prev \in [Nodes -> Nodes \cup {NULL}] /\ k.next \in [Nodes -> Nodes \cup {NULL}]
            /\ k.head[l] \in Nodes \cup {NULL} /\ k.tail[l] \in Nodes \cup {NULL}
        BY <1>3 DEF Heap
      <4>2. g.prev \in [Nodes -> Nodes \cup {NULL}]
        BY <2>3, <4>1
      <4>3. g.next \in [Nodes -> Nodes \cup {NULL}]
        BY <2>3, <4>1
      <4> QED
        BY <4>2, <4>3
    <3>3. g.value \in [Nodes -> Values \cup {NULL}]
      BY <1>3, <2>3 DEF Heap
    <3> QED
      BY <1>3, <2>a, <3>1, <3>2, <3>3, IsHeap
  <2>4. /\ g.used = h.used \cup {node}
        /\ g.value = [h.value EXCEPT ![node] = v]
        /\ g.len = [h.len EXCEPT ![l] = h.len[l] + 1]
        /\ g.head = [h.head EXCEPT ![l] = h.head[l]]
        /\ g.tail = [h.tail EXCEPT ![l] = node]
    BY <1>2, <1>3, <2>3 DEF Heap
  <2>5. ASSUME NEW x \in Nodes
        PROVE  /\ g.prev[x] = (IF x = node THEN c[l][n] ELSE h.prev[x])
               /\ g.next[x] = (IF x = node THEN NULL ELSE IF x = c[l][n] THEN node ELSE h.next[x])
    BY <1>2, <1>3, <2>0, <2>3 DEF Heap
  <2>b. /\ g.used \subseteq Nodes /\ g.value[node] = v
        /\ \A x \in h.used : g.value[x] = h.value[x]
    BY <1>2, <2>4 DEF Heap
  <2>6. Spliced(h, c, g, l, n + 1, node, v)
    <3>1. (n + 1) - 1 = n /\ n + 1 > 1 /\ n + 1 # 1 /\ ~(n + 1 <= n)
      BY <1>8
    <3> QED
      BY <1>4, <2>4, <2>5, <2>b, <3>1 DEF Spliced
  <2> QED
    BY <1>1, <1>4, <1>6, <2>2, <2>6
<1> QED
  BY <1>7, <1>8

Address == Nodes \cup {NULL}
Pointers == [Nodes -> Nodes \cup {NULL}]

LEMMA SetIs ==
  ASSUME NEW f \in Pointers, NEW y \in Address, NEW e \in Address
  PROVE  /\ Set(f, y, e) \in Pointers
         /\ \A x \in Nodes : Set(f, y, e)[x] = IF x = y THEN e ELSE f[x]
<1>1. CASE y = NULL
  <2>1. Set(f, y, e) = f
    BY <1>1 DEF Set
  <2>2. \A x \in Nodes : x # y
    BY <1>1, NullAssumption
  <2> QED
    BY <2>1, <2>2 DEF Pointers, Address
<1>2. CASE y # NULL
  <2>1. Set(f, y, e) = [f EXCEPT ![y] = e]
    BY <1>2 DEF Set
  <2> QED
    BY <1>2, <2>1 DEF Pointers, Address
<1> QED
  BY <1>1, <1>2

LEMMA InsertSplices ==
  ASSUME NEW h, NEW c, Chained(h, c), NEW l \in Lists,
         NEW node \in Nodes \ h.used, NEW v \in Values,
         NEW i \in 1 .. h.len[l], NEW after \in BOOLEAN, NEW at, at = IF after THEN i + 1 ELSE i
  PROVE  LET g == listInsertNode(listCreateNode(h, node, v), l, c[l][i], node, after) IN
         g \in Heap /\ Spliced(h, c, g, l, at, node, v)
<1>1. PICK k : k = listCreateNode(h, node, v)
  OBVIOUS
<1>2. h \in Heap
  BY DEF Chained
<1>3. /\ k \in Heap
      /\ k.head = h.head /\ k.tail = h.tail /\ k.len = h.len
      /\ k.next = [h.next EXCEPT ![node] = NULL]
      /\ k.prev = [h.prev EXCEPT ![node] = NULL]
      /\ k.value = [h.value EXCEPT ![node] = v]
      /\ k.used = h.used \cup {node}
  BY <1>1, <1>2, Created
<1>4. PICK n \in Nat : n = h.len[l]
  BY <1>2 DEF Heap
<1>5. PICK s \in [1 .. n -> h.used] :
        /\ s = c[l]
        /\ h.head[l] = (IF n = 0 THEN NULL ELSE s[1])
        /\ h.tail[l] = (IF n = 0 THEN NULL ELSE s[n])
        /\ \A a \in 1 .. n : /\ h.next[s[a]] = (IF a = n THEN NULL ELSE s[a + 1])
                             /\ h.prev[s[a]] = (IF a = 1 THEN NULL ELSE s[a - 1])
        /\ \A a, b \in 1 .. n : s[a] = s[b] => a = b
  BY <1>4 DEF Chained, Lies, Linked
<1>6. i \in 1 .. n /\ h.used \subseteq Nodes
  BY <1>2, <1>4 DEF Heap
<1>7. PICK old \in h.used : old = s[i]
  BY <1>6
<1>8. PICK p : p = IF after THEN old ELSE k.prev[old]
  OBVIOUS
<1>9. PICK x : x = IF after THEN k.next[old] ELSE old
  OBVIOUS
<1>10. PICK g : g = listInsertNode(k, l, old, node, after)
  OBVIOUS
<1>11. old \in Nodes /\ old # node /\ k.prev[old] = h.prev[old] /\ k.next[old] = h.next[old]
  <2>1. old \in Nodes /\ old # node
    BY <1>6, <1>7
  <2> QED
    BY <1>2, <1>3, <2>1 DEF Heap
<1>12. p = (IF at = 1 THEN NULL ELSE s[at - 1]) /\ x = (IF at = n + 1 THEN NULL ELSE s[at])
       /\ at \in 1 .. n + 1
  <2>1. CASE after
    <3>1. at = i + 1 /\ at # 1 /\ at - 1 = i /\ (at = n + 1 <=> i = n)
      BY <1>6, <2>1
    <3> QED
      BY <1>5, <1>6, <1>7, <1>8, <1>9, <1>11, <2>1, <3>1
  <2>2. CASE ~after
    <3>1. at = i /\ at # n + 1
      BY <1>6, <2>2
    <3> QED
      BY <1>5, <1>6, <1>7, <1>8, <1>9, <1>11, <2>2, <3>1
  <2> QED
    BY <2>1, <2>2
<1>13. p \in Nodes \cup {NULL} /\ x \in Nodes \cup {NULL} /\ p # node /\ x # node
  <2>1. \A a \in 1 .. n : s[a] \in Nodes /\ s[a] # node
    BY <1>6
  <2>2. (at # 1 => at - 1 \in 1 .. n) /\ (at # n + 1 => at \in 1 .. n)
    BY <1>12
  <2> QED
    BY <1>12, <2>1, <2>2, NullAssumption
<1>14. g = [k EXCEPT !.prev = Set([@ EXCEPT ![node] = p], x, node),
                     !.next = Set([@ EXCEPT ![node] = x], p, node),
                     !.tail[l] = IF after /\ @ = old THEN node ELSE @,
                     !.head[l] = IF ~after /\ @ = old THEN node ELSE @,
                     !.len[l] = @ + 1]
  BY <1>8, <1>9, <1>10 DEF listInsertNode
<1>15. g = [head |-> g.head, tail |-> g.tail, len |-> g.len, prev |-> g.prev, next |-> g.next,
            value |-> g.value, used |-> g.used]
  BY <1>3, <1>14 DEF Heap
<1>16. /\ g.prev = Set([k.prev EXCEPT ![node] = p], x, node)
       /\ g.next = Set([k.next EXCEPT ![node] = x], p, node)
       /\ g.tail = [k.tail EXCEPT ![l] = IF after /\ k.tail[l] = old THEN node ELSE k.tail[l]]
       /\ g.head = [k.head EXCEPT ![l] = IF ~after /\ k.head[l] = old THEN node ELSE k.head[l]]
       /\ g.len = [k.len EXCEPT ![l] = k.len[l] + 1] /\ g.value = k.value /\ g.used = k.used
  BY <1>3, <1>14 DEF Heap
<1>17. /\ k.prev \in [Nodes -> Nodes \cup {NULL}] /\ k.next \in [Nodes -> Nodes \cup {NULL}]
       /\ k.head \in [Lists -> Nodes \cup {NULL}] /\ k.tail \in [Lists -> Nodes \cup {NULL}]
       /\ k.len \in [Lists -> Nat] /\ k.used \subseteq Nodes
       /\ k.value \in [Nodes -> Values \cup {NULL}]
  BY <1>3 DEF Heap
<1>18. /\ g.prev \in [Nodes -> Nodes \cup {NULL}]
       /\ \A y \in Nodes : g.prev[y] = IF y = x THEN node ELSE IF y = node THEN p ELSE h.prev[y]
  <2>1. PICK f : f = [k.prev EXCEPT ![node] = p]
    OBVIOUS
  <2>2. f \in Pointers
    BY <1>13, <1>17, <2>1 DEF Pointers
  <2>3. \A y \in Nodes : f[y] = IF y = node THEN p ELSE h.prev[y]
    BY <1>2, <1>3, <2>1 DEF Heap
  <2>4. g.prev = Set(f, x, node)
    BY <1>16, <2>1
  <2>5. g.prev \in [Nodes -> Nodes \cup {NULL}] /\ \A y \in Nodes : g.prev[y] = IF y = x THEN node ELSE f[y]
    <3>1. node \in Address /\ x \in Address
      BY <1>13 DEF Address
    <3>2. /\ Set(f, x, node) \in Pointers
          /\ \A y \in Nodes : Set(f, x, node)[y] = IF y = x THEN node ELSE f[y]
      BY <2>2, <3>1, SetIs
    <3> QED
      BY <2>4, <3>2 DEF Pointers
  <2> QED
    BY <2>3, <2>5
<1>19. /\ g.next \in [Nodes -> Nodes \cup {NULL}]
       /\ \A y \in Nodes : g.next[y] = IF y = p THEN node ELSE IF y = node THEN x ELSE h.next[y]
  <2>1. PICK f : f = [k.next EXCEPT ![node] = x]
    OBVIOUS
  <2>2. f \in Pointers
    BY <1>13, <1>17, <2>1 DEF Pointers
  <2>3. \A y \in Nodes : f[y] = IF y = node THEN x ELSE h.next[y]
    BY <1>2, <1>3, <2>1 DEF Heap
  <2>4. g.next = Set(f, p, node)
    BY <1>16, <2>1
  <2>5. g.next \in [Nodes -> Nodes \cup {NULL}] /\ \A y \in Nodes : g.next[y] = IF y = p THEN node ELSE f[y]
    <3>1. node \in Address /\ p \in Address
      BY <1>13 DEF Address
    <3>2. /\ Set(f, p, node) \in Pointers
          /\ \A y \in Nodes : Set(f, p, node)[y] = IF y = p THEN node ELSE f[y]
      BY <2>2, <3>1, SetIs
    <3> QED
      BY <2>4, <3>2 DEF Pointers
  <2> QED
    BY <2>3, <2>5
<1>20. g \in Heap
  <2>1. g.head \in [Lists -> Nodes \cup {NULL}] /\ g.tail \in [Lists -> Nodes \cup {NULL}]
    BY <1>16, <1>17
  <2>2. g.len \in [Lists -> Nat]
    BY <1>16, <1>17
  <2>3. g.used \subseteq Nodes /\ g.value \in [Nodes -> Values \cup {NULL}]
    BY <1>16, <1>17
  <2> QED
    BY <1>3, <1>15, <1>18, <1>19, <2>1, <2>2, <2>3, IsHeap
<1>21. g.head = [h.head EXCEPT ![l] = IF at = 1 THEN node ELSE h.head[l]]
  <2>1. (~after /\ h.head[l] = old) <=> at = 1
    <3>1. h.head[l] = s[1] /\ 1 \in 1 .. n
      BY <1>5, <1>6
    <3>2. s[1] = s[i] <=> i = 1
      BY <1>5, <1>6, <3>1
    <3>3. at = 1 <=> ~after /\ i = 1
      BY <1>6
    <3> QED
      BY <1>7, <3>1, <3>2, <3>3
  <2> QED
    BY <1>3, <1>16, <2>1
<1>22. g.tail = [h.tail EXCEPT ![l] = IF at = n + 1 THEN node ELSE h.tail[l]]
  <2>1. (after /\ h.tail[l] = old) <=> at = n + 1
    <3>1. h.tail[l] = s[n] /\ n \in 1 .. n
      BY <1>5, <1>6
    <3>2. s[n] = s[i] <=> i = n
      BY <1>5, <1>6, <3>1
    <3>3. at = n + 1 <=> after /\ i = n
      BY <1>6
    <3> QED
      BY <1>7, <3>1, <3>2, <3>3
  <2> QED
    BY <1>3, <1>16, <2>1
<1>23. ASSUME NEW y \in Nodes
       PROVE  /\ g.next[y] = IF y = node THEN (IF at = n + 1 THEN NULL ELSE s[at])
                             ELSE IF at > 1 /\ y = s[at - 1] THEN node ELSE h.next[y]
              /\ g.prev[y] = IF y = node THEN (IF at = 1 THEN NULL ELSE s[at - 1])
                             ELSE IF at <= n /\ y = s[at] THEN node ELSE h.prev[y]
  <2>1. y # NULL /\ (at > 1 <=> at # 1) /\ (at <= n <=> at # n + 1)
    BY <1>12, NullAssumption
  <2>2. g.next[y] = IF y = p THEN node ELSE IF y = node THEN x ELSE h.next[y]
    BY <1>19
  <2>3. g.prev[y] = IF y = x THEN node ELSE IF y = node THEN p ELSE h.prev[y]
    BY <1>18
  <2> QED
    BY <1>12, <1>13, <2>1, <2>2, <2>3
<1>24. /\ g.used = h.used \cup {node} /\ g.value = [h.value EXCEPT ![node] = v]
       /\ g.len = [h.len EXCEPT ![l] = h.len[l] + 1]
  BY <1>3, <1>16
<1>b. /\ g.used \subseteq Nodes /\ g.value[node] = v
      /\ \A y \in h.used : g.value[y] = h.value[y]
  BY <1>2, <1>24 DEF Heap
<1>25. Spliced(h, c, g, l, at, node, v)
  BY <1>4, <1>5, <1>21, <1>22, <1>23, <1>24, <1>b DEF Spliced
<1> QED
  BY <1>1, <1>5, <1>7, <1>10, <1>20, <1>25

(***************************************************************************)
(* A node leaves a chain.                                                  *)
(***************************************************************************)
DropChain(c, l, n, i) == [m \in Lists |-> IF m = l THEN Drop(c[l], n, i) ELSE c[m]]

\* h becomes g without the node at place i of list l.
Unlinked(h, c, g, l, i) ==
  /\ g.used = h.used \ {c[l][i]}
  /\ \A x \in g.used : g.value[x] = h.value[x]
  /\ g.len = [h.len EXCEPT ![l] = h.len[l] - 1]
  /\ g.head = [h.head EXCEPT ![l] = IF i > 1 THEN h.head[l]
                                    ELSE IF h.len[l] = 1 THEN NULL ELSE c[l][2]]
  /\ g.tail = [h.tail EXCEPT ![l] = IF i < h.len[l] THEN h.tail[l]
                                    ELSE IF i = 1 THEN NULL ELSE c[l][i - 1]]
  /\ \A x \in g.used :
       /\ g.next[x] = IF i > 1 /\ x = c[l][i - 1]
                      THEN (IF i = h.len[l] THEN NULL ELSE c[l][i + 1]) ELSE h.next[x]
       /\ g.prev[x] = IF i < h.len[l] /\ x = c[l][i + 1]
                      THEN (IF i = 1 THEN NULL ELSE c[l][i - 1]) ELSE h.prev[x]

\* The places of the nodes after that.
LEMMA UnlinkedLies ==
  ASSUME NEW h, NEW c, Chained(h, c), NEW g \in Heap, NEW l \in Lists, NEW i \in 1 .. h.len[l],
         Unlinked(h, c, g, l, i)
  PROVE  Lies(g, DropChain(c, l, h.len[l], i))
<1>1. PICK n \in Nat : n = h.len[l]
  BY DEF Chained, Heap
<1>2. PICK d : d = DropChain(c, l, h.len[l], i)
  OBVIOUS
<1>3. /\ \A m \in Lists : m # l => d[m] = c[m]
      /\ d[l] = Drop(c[l], n, i)
  BY <1>1, <1>2 DEF DropChain
<1>4. \A m \in Lists : g.len[m] = (IF m = l THEN n - 1 ELSE h.len[m]) /\ h.len[m] \in Nat
  BY <1>1 DEF Unlinked, Chained, Heap
<1>5. /\ \A m \in Lists : c[m] \in [1 .. h.len[m] -> h.used]
      /\ \A x \in h.used : \E m \in Lists : \E j \in 1 .. h.len[m] : c[m][j] = x
      /\ \A m, k \in Lists : \A a \in 1 .. h.len[m] : \A b \in 1 .. h.len[k] :
           c[m][a] = c[k][b] => m = k /\ a = b
  BY DEF Chained, Lies
<1>6. PICK node : node = c[l][i]
  OBVIOUS
<1>7. c[l] \in [1 .. n -> h.used] /\ i \in 1 .. n /\ g.used = h.used \ {node}
  BY <1>1, <1>5, <1>6 DEF Unlinked
<1>8. /\ DOMAIN d[l] = 1 .. n - 1
      /\ d[l] = [j \in 1 .. n - 1 |-> d[l][j]]
      /\ \A j \in 1 .. n - 1 : d[l][j] = IF j < i THEN c[l][j] ELSE c[l][j + 1]
  BY <1>3 DEF Drop
<1>9. \A a, b \in 1 .. n : c[l][a] = c[l][b] => a = b
  BY <1>1, <1>5
<1>10. ASSUME NEW j \in 1 .. n - 1
       PROVE  \E e \in 1 .. n : d[l][j] = c[l][e] /\ e # i /\ e = IF j < i THEN j ELSE j + 1
  <2>1. CASE j < i
    BY <1>7, <1>8, <2>1
  <2>2. CASE ~(j < i)
    <3>1. j + 1 \in 1 .. n /\ j + 1 # i
      BY <1>7, <2>2
    <3> QED
      BY <1>8, <2>2, <3>1
  <2> QED
    BY <2>1, <2>2
<1>11. \A j \in 1 .. n - 1 : d[l][j] \in g.used
  <2>1. ASSUME NEW j \in 1 .. n - 1 PROVE d[l][j] \in g.used
    <3>1. PICK e \in 1 .. n : d[l][j] = c[l][e] /\ e # i
      BY <1>10
    <3>2. c[l][e] \in h.used /\ c[l][e] # node
      BY <1>6, <1>7, <1>9, <3>1
    <3> QED
      BY <1>7, <3>1, <3>2
  <2> QED
    BY <2>1
<1>12. ASSUME NEW m \in Lists, m # l PROVE \A j \in 1 .. h.len[m] : c[m][j] \in g.used
  <2>1. \A j \in 1 .. h.len[m] : c[m][j] # node
    BY <1>1, <1>5, <1>6, <1>7, <1>12
  <2>2. c[m] \in [1 .. h.len[m] -> h.used]
    BY <1>5
  <2> QED
    BY <1>7, <2>1, <2>2
<1>13. ASSUME NEW m \in Lists PROVE d[m] \in [1 .. g.len[m] -> g.used]
  <2>1. CASE m = l
    BY <1>4, <1>8, <1>11, <2>1
  <2>2. CASE m # l
    <3>1. d[m] = c[m] /\ g.len[m] = h.len[m] /\ c[m] \in [1 .. h.len[m] -> h.used]
      BY <1>3, <1>4, <1>5, <2>2
    <3>2. \A j \in 1 .. h.len[m] : c[m][j] \in g.used
      BY <1>12, <2>2
    <3> QED
      BY <3>1, <3>2
  <2> QED
    BY <2>1, <2>2
<1>14. ASSUME NEW x \in g.used PROVE \E m \in Lists : \E j \in 1 .. g.len[m] : d[m][j] = x
  <2>0. x \in h.used /\ x # node
    BY <1>7
  <2>1. PICK m \in Lists : \E j \in 1 .. h.len[m] : c[m][j] = x
    BY <1>5, <2>0
  <2>2. PICK j \in 1 .. h.len[m] : c[m][j] = x
    BY <2>1
  <2>3. CASE m # l
    BY <1>3, <1>4, <2>2, <2>3
  <2>4. CASE m = l
    <3>1. j \in 1 .. n /\ c[l][j] = x /\ j # i
      BY <1>1, <1>6, <2>0, <2>2, <2>4
    <3>2. CASE j < i
      <4>1. j \in 1 .. n - 1 /\ d[l][j] = x
        BY <1>7, <1>8, <3>1, <3>2
      <4> QED
        BY <1>4, <4>1
    <3>3. CASE j > i
      <4>1. j - 1 \in 1 .. n - 1 /\ ~(j - 1 < i) /\ (j - 1) + 1 = j
        BY <1>7, <3>1, <3>3
      <4>2. d[l][j - 1] = x
        BY <1>8, <3>1, <4>1
      <4> QED
        BY <1>4, <4>1, <4>2
    <3> QED
      BY <1>7, <3>1, <3>2, <3>3
  <2> QED
    BY <2>3, <2>4
<1>15. ASSUME NEW a \in 1 .. n - 1, NEW b \in 1 .. n - 1, d[l][a] = d[l][b] PROVE a = b
  <2>1. PICK e \in 1 .. n : d[l][a] = c[l][e] /\ e = IF a < i THEN a ELSE a + 1
    BY <1>10
  <2>2. PICK f \in 1 .. n : d[l][b] = c[l][f] /\ f = IF b < i THEN b ELSE b + 1
    BY <1>10
  <2>3. c[l][e] = c[l][f]
    BY <1>15, <2>1, <2>2
  <2>4. e = f
    BY <1>9, <2>3
  <2> QED
    BY <1>7, <2>1, <2>2, <2>4
<1>16. ASSUME NEW m \in Lists, m # l, NEW a \in 1 .. n - 1, NEW b \in 1 .. h.len[m]
       PROVE  d[l][a] # d[m][b]
  <2>1. d[m] = c[m]
    BY <1>3, <1>16
  <2>2. PICK e \in 1 .. n : d[l][a] = c[l][e]
    BY <1>10
  <2>3. c[l][e] # c[m][b]
    BY <1>1, <1>5, <1>16
  <2> QED
    BY <2>1, <2>2, <2>3
<1>17. ASSUME NEW m \in Lists, NEW k \in Lists, NEW a \in 1 .. g.len[m], NEW b \in 1 .. g.len[k],
              d[m][a] = d[k][b]
       PROVE  m = k /\ a = b
  <2>1. CASE m = l /\ k = l
    BY <1>4, <1>15, <1>17, <2>1
  <2>2. CASE m = l /\ k # l
    BY <1>4, <1>16, <1>17, <2>2
  <2>3. CASE m # l /\ k = l
    BY <1>4, <1>16, <1>17, <2>3
  <2>4. CASE m # l /\ k # l
    BY <1>3, <1>4, <1>5, <1>17, <2>4
  <2> QED
    BY <2>1, <2>2, <2>3, <2>4
<1> QED
  BY <1>2, <1>13, <1>14, <1>17 DEF Lies

JoinedWithout(p, n, i, U, nx, pv, gx, gp) ==
  /\ \A x \in U : gx[x] = (IF i > 1 /\ x = p[i - 1] THEN (IF i = n THEN NULL ELSE p[i + 1]) ELSE nx[x])
  /\ \A x \in U : gp[x] = (IF i < n /\ x = p[i + 1] THEN (IF i = 1 THEN NULL ELSE p[i - 1]) ELSE pv[x])

\* The nodes of its list are linked again.
LEMMA DropLinks ==
  ASSUME NEW n \in Nat, NEW i \in 1 .. n, NEW p, Distinct(p, n),
         NEW U, \A a \in 1 .. n : a # i => p[a] \in U,
         NEW nx, NEW pv, NEW gx, NEW gp,
         Joined(p, n, nx, pv), JoinedWithout(p, n, i, U, nx, pv, gx, gp)
  PROVE  Joined(Drop(p, n, i), n - 1, gx, gp)
<1> DEFINE q == Drop(p, n, i)
<1>0. /\ \A a \in 1 .. n : /\ nx[p[a]] = (IF a = n THEN NULL ELSE p[a + 1])
                           /\ pv[p[a]] = (IF a = 1 THEN NULL ELSE p[a - 1])
      /\ \A x \in U : gx[x] = (IF i > 1 /\ x = p[i - 1] THEN (IF i = n THEN NULL ELSE p[i + 1]) ELSE nx[x])
      /\ \A x \in U : gp[x] = (IF i < n /\ x = p[i + 1] THEN (IF i = 1 THEN NULL ELSE p[i - 1]) ELSE pv[x])
      /\ \A j \in 1 .. n - 1 : q[j] = IF j < i THEN p[j] ELSE p[j + 1]
      /\ \A a, b \in 1 .. n : p[a] = p[b] => a = b
  BY DEF Joined, JoinedWithout, Drop, Distinct
<1> HIDE DEF q
<1>1. ASSUME NEW a \in 1 .. n, a # i
      PROVE  /\ gx[p[a]] = IF i > 1 /\ a = i - 1 THEN (IF i = n THEN NULL ELSE p[i + 1])
                           ELSE IF a = n THEN NULL ELSE p[a + 1]
             /\ gp[p[a]] = IF i < n /\ a = i + 1 THEN (IF i = 1 THEN NULL ELSE p[i - 1])
                           ELSE IF a = 1 THEN NULL ELSE p[a - 1]
  <2>1. p[a] \in U
    BY <1>1
  <2>2. i > 1 => i - 1 \in 1 .. n /\ (p[a] = p[i - 1] <=> a = i - 1)
    BY <1>0
  <2>3. i < n => i + 1 \in 1 .. n /\ (p[a] = p[i + 1] <=> a = i + 1)
    BY <1>0
  <2>4. gx[p[a]] = (IF i > 1 /\ p[a] = p[i - 1] THEN (IF i = n THEN NULL ELSE p[i + 1]) ELSE nx[p[a]])
    BY <1>0, <2>1
  <2>5. gp[p[a]] = (IF i < n /\ p[a] = p[i + 1] THEN (IF i = 1 THEN NULL ELSE p[i - 1]) ELSE pv[p[a]])
    BY <1>0, <2>1
  <2>6. nx[p[a]] = (IF a = n THEN NULL ELSE p[a + 1]) /\ pv[p[a]] = (IF a = 1 THEN NULL ELSE p[a - 1])
    BY <1>0
  <2> QED
    BY <2>2, <2>3, <2>4, <2>5, <2>6
<1>2. ASSUME NEW j \in 1 .. n - 1
      PROVE  /\ gx[q[j]] = (IF j = n - 1 THEN NULL ELSE q[j + 1])
             /\ gp[q[j]] = (IF j = 1 THEN NULL ELSE q[j - 1])
  <2>1. CASE j < i
    <3>1. j \in 1 .. n /\ j # i /\ q[j] = p[j]
      BY <1>0, <2>1
    <3>2. gx[p[j]] = (IF j = n - 1 THEN NULL ELSE q[j + 1])
      <4>1. CASE j = i - 1
        <5>1. gx[p[j]] = IF i = n THEN NULL ELSE p[i + 1]
          BY <1>1, <3>1, <4>1
        <5>2. j = n - 1 <=> i = n
          BY <3>1, <4>1
        <5>3. i # n => j + 1 \in 1 .. n - 1 /\ ~(j + 1 < i) /\ (j + 1) + 1 = i + 1
          BY <3>1, <4>1
        <5>4. i # n => q[j + 1] = p[i + 1]
          BY <1>0, <5>3
        <5> QED
          BY <5>1, <5>2, <5>4
      <4>2. CASE j # i - 1
        <5>1. gx[p[j]] = IF j = n THEN NULL ELSE p[j + 1]
          BY <1>1, <3>1, <4>2
        <5>2. j # n /\ j # n - 1 /\ j + 1 \in 1 .. n - 1 /\ j + 1 < i
          BY <2>1, <3>1, <4>2
        <5>3. q[j + 1] = p[j + 1]
          BY <1>0, <5>2
        <5> QED
          BY <5>1, <5>2, <5>3
      <4> QED
        BY <4>1, <4>2
    <3>3. gp[p[j]] = (IF j = 1 THEN NULL ELSE q[j - 1])
      <4>1. gp[p[j]] = IF j = 1 THEN NULL ELSE p[j - 1]
        BY <1>1, <2>1, <3>1
      <4>2. j # 1 => j - 1 \in 1 .. n - 1 /\ j - 1 < i
        BY <2>1
      <4>3. j # 1 => q[j - 1] = p[j - 1]
        BY <1>0, <4>2
      <4> QED
        BY <4>1, <4>3
    <3> QED
      BY <3>1, <3>2, <3>3
  <2>2. CASE ~(j < i)
    <3>1. j + 1 \in 1 .. n /\ j + 1 # i /\ q[j] = p[j + 1]
      BY <1>0, <2>2
    <3>2. gx[p[j + 1]] = (IF j = n - 1 THEN NULL ELSE q[j + 1])
      <4>1. gx[p[j + 1]] = IF j + 1 = n THEN NULL ELSE p[(j + 1) + 1]
        <5>1. ~(i > 1 /\ j + 1 = i - 1)
          BY <2>2
        <5> QED
          BY <1>1, <3>1, <5>1
      <4>2. j # n - 1 => j + 1 \in 1 .. n - 1 /\ ~(j + 1 < i)
        BY <2>2
      <4>3. j # n - 1 => q[j + 1] = p[(j + 1) + 1]
        BY <1>0, <4>2
      <4>4. j + 1 = n <=> j = n - 1
        OBVIOUS
      <4> QED
        BY <4>1, <4>3, <4>4
    <3>3. gp[p[j + 1]] = (IF j = 1 THEN NULL ELSE q[j - 1])
      <4>1. CASE j = i
        <5>1. i < n /\ j + 1 = i + 1
          BY <4>1
        <5>2. gp[p[j + 1]] = IF i = 1 THEN NULL ELSE p[i - 1]
          BY <1>1, <3>1, <5>1
        <5>3. i # 1 => i - 1 \in 1 .. n - 1 /\ i - 1 < i
          OBVIOUS
        <5>4. i # 1 => q[i - 1] = p[i - 1]
          BY <1>0, <5>3
        <5> QED
          BY <4>1, <5>2, <5>4
      <4>2. CASE j # i
        <5>1. j + 1 # i + 1 /\ j + 1 # 1 /\ j # 1 /\ (j + 1) - 1 = j
          BY <2>2, <4>2
        <5>2. gp[p[j + 1]] = p[j]
          BY <1>1, <3>1, <5>1
        <5>3. j - 1 \in 1 .. n - 1 /\ ~(j - 1 < i) /\ (j - 1) + 1 = j
          BY <2>2, <4>2
        <5>4. q[j - 1] = p[j]
          BY <1>0, <5>3
        <5> QED
          BY <5>1, <5>2, <5>4
      <4> QED
        BY <4>1, <4>2
    <3> QED
      BY <3>1, <3>2, <3>3
  <2> QED
    BY <2>1, <2>2
<1> QED
  BY <1>2 DEF Joined, q

LEMMA UnlinkedLinked ==
  ASSUME NEW h, NEW c, Chained(h, c), NEW g \in Heap, NEW l \in Lists, NEW i \in 1 .. h.len[l],
         Unlinked(h, c, g, l, i), NEW m \in Lists
  PROVE  Linked(g, m, DropChain(c, l, h.len[l], i)[m])
<1>1. PICK n \in Nat : n = h.len[l]
  BY DEF Chained, Heap
<1>2. PICK q : q = DropChain(c, l, h.len[l], i)[m]
  OBVIOUS
<1>3. PICK k \in Nat : k = h.len[m]
  BY DEF Chained, Heap
<1>4. /\ h.head[m] = (IF k = 0 THEN NULL ELSE c[m][1])
      /\ h.tail[m] = (IF k = 0 THEN NULL ELSE c[m][k])
      /\ \A a \in 1 .. k : /\ h.next[c[m][a]] = (IF a = k THEN NULL ELSE c[m][a + 1])
                           /\ h.prev[c[m][a]] = (IF a = 1 THEN NULL ELSE c[m][a - 1])
  BY <1>3 DEF Chained, Linked
<1>5. c[m] \in [1 .. k -> h.used] /\ c[l] \in [1 .. n -> h.used]
  BY <1>1, <1>3 DEF Chained, Lies
<1>6. i \in 1 .. n
  BY <1>1
<1>7. /\ g.len[m] = IF m = l THEN n - 1 ELSE k
      /\ g.head[m] = IF m = l THEN (IF i > 1 THEN h.head[m] ELSE IF n = 1 THEN NULL ELSE c[l][2])
                     ELSE h.head[m]
      /\ g.tail[m] = IF m = l THEN (IF i < n THEN h.tail[m] ELSE IF i = 1 THEN NULL ELSE c[l][i - 1])
                     ELSE h.tail[m]
  BY <1>1, <1>3 DEF Unlinked, Chained, Heap
<1>8. \A x \in g.used :
        /\ g.next[x] = IF i > 1 /\ x = c[l][i - 1] THEN (IF i = n THEN NULL ELSE c[l][i + 1]) ELSE h.next[x]
        /\ g.prev[x] = IF i < n /\ x = c[l][i + 1] THEN (IF i = 1 THEN NULL ELSE c[l][i - 1]) ELSE h.prev[x]
  BY <1>1 DEF Unlinked
<1>9. g.used = h.used \ {c[l][i]}
  BY DEF Unlinked
<1>10. CASE m = l
  <2>1. k = n
    BY <1>1, <1>3, <1>10
  <2>2. PICK p \in [1 .. n -> h.used] : p = c[l]
    BY <1>5
  <2>3. q = Drop(p, n, i)
    BY <1>1, <1>2, <1>10, <2>2 DEF DropChain
  <2>4. \A j \in 1 .. n - 1 : q[j] = IF j < i THEN p[j] ELSE p[j + 1]
    BY <2>3 DEF Drop
  <2>5. Distinct(p, n)
    BY <1>1, <2>2 DEF Chained, Lies, Distinct
  <2>6. \A a \in 1 .. n : a # i => p[a] \in g.used
    BY <1>6, <1>9, <2>2, <2>5 DEF Distinct
  <2>7. PICK nx : nx = h.next
    OBVIOUS
  <2>8. PICK pv : pv = h.prev
    OBVIOUS
  <2>9. PICK gx : gx = g.next
    OBVIOUS
  <2>10. PICK gp : gp = g.prev
    OBVIOUS
  <2>11. Joined(p, n, nx, pv)
    BY <1>4, <1>10, <2>1, <2>2, <2>7, <2>8 DEF Joined
  <2>12. JoinedWithout(p, n, i, g.used, nx, pv, gx, gp)
    BY <1>8, <2>2, <2>7, <2>8, <2>9, <2>10 DEF JoinedWithout
  <2>13. Joined(q, n - 1, gx, gp)
    BY <1>6, <2>3, <2>5, <2>6, <2>11, <2>12, DropLinks
  <2>14. g.head[m] = IF n - 1 = 0 THEN NULL ELSE q[1]
    <3>1. CASE i > 1
      <4>1. n # 0 /\ n - 1 # 0 /\ 1 \in 1 .. n - 1 /\ 1 < i
        BY <1>6, <3>1
      <4>2. q[1] = p[1]
        BY <2>4, <4>1
      <4> QED
        BY <1>4, <1>7, <1>10, <2>1, <2>2, <3>1, <4>1, <4>2
    <3>2. CASE i = 1 /\ n = 1
      BY <1>7, <1>10, <3>2
    <3>3. CASE i = 1 /\ n > 1
      <4>1. n - 1 # 0 /\ 1 \in 1 .. n - 1 /\ ~(1 < i) /\ 1 + 1 = 2
        BY <3>3
      <4>2. q[1] = p[2]
        BY <2>4, <4>1
      <4> QED
        BY <1>7, <1>10, <2>2, <3>3, <4>1, <4>2
    <3> QED
      BY <1>6, <3>1, <3>2, <3>3
  <2>15. g.tail[m] = IF n - 1 = 0 THEN NULL ELSE q[n - 1]
    <3>1. CASE i < n
      <4>1. n # 0 /\ n - 1 # 0 /\ n - 1 \in 1 .. n - 1 /\ ~(n - 1 < i) /\ (n - 1) + 1 = n
        BY <1>6, <3>1
      <4>2. q[n - 1] = p[n]
        BY <2>4, <4>1
      <4> QED
        BY <1>4, <1>7, <1>10, <2>1, <2>2, <3>1, <4>1, <4>2
    <3>2. CASE i = n /\ i = 1
      BY <1>7, <1>10, <3>2
    <3>3. CASE i = n /\ i > 1
      <4>1. n - 1 # 0 /\ n - 1 \in 1 .. n - 1 /\ n - 1 < i /\ i - 1 = n - 1
        BY <3>3
      <4>2. q[n - 1] = p[i - 1]
        BY <2>4, <4>1
      <4> QED
        BY <1>7, <1>10, <2>2, <3>3, <4>1, <4>2
    <3> QED
      BY <1>6, <3>1, <3>2, <3>3
  <2>16. g.len[m] = n - 1
    BY <1>7, <1>10
  <2> QED
    BY <1>2, <2>9, <2>10, <2>13, <2>14, <2>15, <2>16 DEF Linked, Joined
<1>11. CASE m # l
  <2>1. q = c[m]
    BY <1>2, <1>11 DEF DropChain
  <2>2. g.len[m] = k /\ g.head[m] = h.head[m] /\ g.tail[m] = h.tail[m]
    BY <1>7, <1>11
  <2>3. ASSUME NEW a \in 1 .. k PROVE g.next[c[m][a]] = h.next[c[m][a]] /\ g.prev[c[m][a]] = h.prev[c[m][a]]
    <3>1. \A b \in 1 .. n : c[m][a] # c[l][b]
      BY <1>1, <1>3, <1>11 DEF Chained, Lies
    <3>2. c[m][a] \in g.used
      BY <1>5, <1>6, <1>9, <3>1
    <3>3. (i > 1 => i - 1 \in 1 .. n) /\ (i < n => i + 1 \in 1 .. n)
      BY <1>6
    <3> QED
      BY <1>8, <3>1, <3>2, <3>3
  <2> QED
    BY <1>2, <1>4, <2>1, <2>2, <2>3 DEF Linked
<1> QED
  BY <1>10, <1>11

LEMMA UnlinkedChained ==
  ASSUME NEW h, NEW c, Chained(h, c), NEW g \in Heap, NEW l \in Lists, NEW i \in 1 .. h.len[l],
         Unlinked(h, c, g, l, i)
  PROVE  /\ Chained(g, DropChain(c, l, h.len[l], i))
         /\ Contents(g) = [Contents(h) EXCEPT ![l] = Drop(Contents(h)[l], h.len[l], i)]
<1>1. PICK n \in Nat : n = h.len[l]
  BY DEF Chained, Heap
<1>2. PICK d : d = DropChain(c, l, h.len[l], i)
  OBVIOUS
<1>3. g.used = h.used \ {c[l][i]} /\ \A x \in g.used : g.value[x] = h.value[x]
  BY DEF Unlinked
<1>4. Chained(g, d)
  <2>1. Lies(g, d)
    BY <1>2, UnlinkedLies
  <2>2. \A m \in Lists : Linked(g, m, d[m])
    BY <1>2, UnlinkedLinked
  <2>3. \A x \in g.used : g.value[x] \in Values
    BY <1>3 DEF Chained
  <2> QED
    BY <2>1, <2>2, <2>3 DEF Chained
<1>5. /\ Contents(g) = [m \in Lists |-> [j \in 1 .. g.len[m] |-> g.value[d[m][j]]]]
      /\ Contents(h) = [m \in Lists |-> [j \in 1 .. h.len[m] |-> h.value[c[m][j]]]]
  BY <1>4, ContentsAre
<1>6. \A m \in Lists : g.len[m] = (IF m = l THEN n - 1 ELSE h.len[m])
  BY <1>1 DEF Unlinked, Chained, Heap
<1>7. \A m \in Lists : \A j \in 1 .. g.len[m] : g.value[d[m][j]] = h.value[d[m][j]]
  <2>1. \A m \in Lists : d[m] \in [1 .. g.len[m] -> g.used]
    BY <1>4 DEF Chained, Lies
  <2> QED
    BY <1>3, <2>1
<1>8. ASSUME NEW m \in Lists, m # l PROVE Contents(g)[m] = Contents(h)[m]
  <2>1. d[m] = c[m] /\ g.len[m] = h.len[m]
    BY <1>2, <1>6, <1>8 DEF DropChain
  <2> QED
    BY <1>5, <1>7, <2>1
<1>9. Contents(g)[l] = Drop(Contents(h)[l], n, i)
  <2>1. d[l] = Drop(c[l], n, i) /\ i \in 1 .. n
    BY <1>1, <1>2 DEF DropChain
  <2>2. PICK s : s = Contents(h)[l]
    OBVIOUS
  <2>3. \A j \in 1 .. n : s[j] = h.value[c[l][j]]
    BY <1>1, <1>5, <2>2
  <2>4. ASSUME NEW j \in 1 .. n - 1
        PROVE  g.value[d[l][j]] = IF j < i THEN s[j] ELSE s[j + 1]
    <3>0. d[l][j] = IF j < i THEN c[l][j] ELSE c[l][j + 1]
      BY <2>1 DEF Drop
    <3>1. g.value[d[l][j]] = h.value[d[l][j]]
      BY <1>6, <1>7
    <3>2. j \in 1 .. n /\ j + 1 \in 1 .. n
      BY <2>1
    <3> QED
      BY <2>3, <3>0, <3>1, <3>2
  <2>5. Contents(g)[l] = [j \in 1 .. n - 1 |-> g.value[d[l][j]]]
    BY <1>5, <1>6
  <2> QED
    BY <2>2, <2>4, <2>5 DEF Drop
<1> QED
  BY <1>1, <1>2, <1>4, <1>5, <1>8, <1>9

(***************************************************************************)
(* listDelNode.                                                            *)
(***************************************************************************)
LEMMA DelUnlinks ==
  ASSUME NEW h, NEW c, Chained(h, c), NEW l \in Lists, NEW i \in 1 .. h.len[l]
  PROVE  LET g == listDelNode(h, l, c[l][i]) IN g \in Heap /\ Unlinked(h, c, g, l, i)
<1>1. h \in Heap
  BY DEF Chained
<1>0. PICK n \in Nat : n = h.len[l]
  BY <1>1 DEF Heap
<1>2. n = h.len[l] /\ i \in 1 .. n
  BY <1>0
<1>a. PICK s \in [1 .. n -> h.used] : s = c[l]
  BY <1>0 DEF Chained, Lies
<1>b. /\ h.head[l] = (IF n = 0 THEN NULL ELSE s[1])
      /\ h.tail[l] = (IF n = 0 THEN NULL ELSE s[n])
      /\ \A a \in 1 .. n : /\ h.next[s[a]] = (IF a = n THEN NULL ELSE s[a + 1])
                           /\ h.prev[s[a]] = (IF a = 1 THEN NULL ELSE s[a - 1])
  BY <1>0, <1>a DEF Chained, Linked
<1>c. \A a, b \in 1 .. n : s[a] = s[b] => a = b
  BY <1>0, <1>a DEF Chained, Lies
<1>3. s = c[l]
  BY <1>a
<1>4. h.used \subseteq Nodes
  BY <1>1 DEF Heap
<1>5. PICK node \in Nodes : node = s[i]
  BY <1>2, <1>4
<1>6. PICK p : p = h.prev[node]
  OBVIOUS
<1>7. PICK x : x = h.next[node]
  OBVIOUS
<1>8. PICK g : g = listDelNode(h, l, node)
  OBVIOUS
<1>9. p = (IF i = 1 THEN NULL ELSE s[i - 1]) /\ x = (IF i = n THEN NULL ELSE s[i + 1])
  BY <1>2, <1>b, <1>5, <1>6, <1>7
<1>10. /\ p \in Nodes \cup {NULL} /\ (p = NULL <=> i = 1)
       /\ x \in Nodes \cup {NULL} /\ (x = NULL <=> i = n)
  <2>1. \A a \in 1 .. n : s[a] \in Nodes
    BY <1>4
  <2>2. (i # 1 => i - 1 \in 1 .. n) /\ (i # n => i + 1 \in 1 .. n)
    BY <1>2
  <2> QED
    BY <1>9, <2>1, <2>2, NullAssumption
<1>11. g = [h EXCEPT !.next = [Set(@, p, x) EXCEPT ![node] = NULL],
                     !.prev = [Set(@, x, p) EXCEPT ![node] = NULL],
                     !.value[node] = NULL,
                     !.head[l] = IF p = NULL THEN x ELSE @,
                     !.tail[l] = IF x = NULL THEN p ELSE @,
                     !.used = @ \ {node}, !.len[l] = @ - 1]
  BY <1>6, <1>7, <1>8 DEF listDelNode
<1>12. g = [head |-> g.head, tail |-> g.tail, len |-> g.len, prev |-> g.prev, next |-> g.next,
            value |-> g.value, used |-> g.used]
  BY <1>1, <1>11 DEF Heap
<1>13. /\ g.next = [Set(h.next, p, x) EXCEPT ![node] = NULL]
       /\ g.prev = [Set(h.prev, x, p) EXCEPT ![node] = NULL]
       /\ g.value = [h.value EXCEPT ![node] = NULL]
       /\ g.head = [h.head EXCEPT ![l] = IF p = NULL THEN x ELSE h.head[l]]
       /\ g.tail = [h.tail EXCEPT ![l] = IF x = NULL THEN p ELSE h.tail[l]]
       /\ g.used = h.used \ {node} /\ g.len = [h.len EXCEPT ![l] = h.len[l] - 1]
  BY <1>1, <1>11 DEF Heap
<1>14. /\ h.prev \in Pointers /\ h.next \in Pointers
       /\ h.head \in [Lists -> Nodes \cup {NULL}] /\ h.tail \in [Lists -> Nodes \cup {NULL}]
       /\ h.len \in [Lists -> Nat]
       /\ h.value \in [Nodes -> Values \cup {NULL}]
  BY <1>1 DEF Heap, Pointers
<1>15. /\ g.next \in [Nodes -> Nodes \cup {NULL}]
       /\ \A y \in Nodes : y # node => g.next[y] = IF y = p THEN x ELSE h.next[y]
  <2>1. PICK f : f = Set(h.next, p, x)
    OBVIOUS
  <2>2. f \in Pointers /\ \A y \in Nodes : f[y] = IF y = p THEN x ELSE h.next[y]
    <3>1. /\ h.next \in Pointers /\ h.prev \in Pointers
          /\ p \in Address /\ x \in Address
      BY <1>10, <1>14 DEF Address
    <3>2. PICK nx : nx = h.next
      OBVIOUS
    <3>4. nx \in Pointers
      BY <3>1, <3>2
    <3>5. /\ Set(nx, p, x) \in Pointers
          /\ \A y \in Nodes : Set(nx, p, x)[y] = IF y = p THEN x ELSE nx[y]
      BY <3>1, <3>4, SetIs
    <3> QED
      BY <2>1, <3>2, <3>5
  <2>3. g.next = [f EXCEPT ![node] = NULL]
    BY <1>13, <2>1
  <2> QED
    BY <2>2, <2>3 DEF Pointers
<1>16. /\ g.prev \in [Nodes -> Nodes \cup {NULL}]
       /\ \A y \in Nodes : y # node => g.prev[y] = IF y = x THEN p ELSE h.prev[y]
  <2>1. PICK f : f = Set(h.prev, x, p)
    OBVIOUS
  <2>2. f \in Pointers /\ \A y \in Nodes : f[y] = IF y = x THEN p ELSE h.prev[y]
    <3>1. /\ h.next \in Pointers /\ h.prev \in Pointers
          /\ p \in Address /\ x \in Address
      BY <1>10, <1>14 DEF Address
    <3>2. PICK pv : pv = h.prev
      OBVIOUS
    <3>3. pv \in Pointers
      BY <3>1, <3>2
    <3>4. /\ Set(pv, x, p) \in Pointers
          /\ \A y \in Nodes : Set(pv, x, p)[y] = IF y = x THEN p ELSE pv[y]
      BY <3>1, <3>3, SetIs
    <3> QED
      BY <2>1, <3>2, <3>4
  <2>3. g.prev = [f EXCEPT ![node] = NULL]
    BY <1>13, <2>1
  <2> QED
    BY <2>2, <2>3 DEF Pointers
<1>17. g \in Heap
  <2>1. g.head \in [Lists -> Nodes \cup {NULL}]
    BY <1>10, <1>13, <1>14
  <2>2. g.tail \in [Lists -> Nodes \cup {NULL}]
    BY <1>10, <1>13, <1>14
  <2>3. g.len \in [Lists -> Nat]
    <3>1. h.len[l] - 1 \in Nat
      BY <1>2
    <3> QED
      BY <1>13, <1>14, <3>1
  <2>4. g.used \subseteq Nodes /\ g.value \in [Nodes -> Values \cup {NULL}]
    BY <1>4, <1>13, <1>14
  <2> QED
    BY <1>1, <1>12, <1>15, <1>16, <2>1, <2>2, <2>3, <2>4, IsHeap
<1>18. g.head = [h.head EXCEPT ![l] = IF i > 1 THEN h.head[l] ELSE IF n = 1 THEN NULL ELSE s[2]]
  <2>1. (IF p = NULL THEN x ELSE h.head[l]) = IF i > 1 THEN h.head[l] ELSE IF n = 1 THEN NULL ELSE s[2]
    <3>1. CASE i > 1
      BY <1>10, <3>1
    <3>2. CASE i = 1
      <4>1. p = NULL /\ x = IF n = 1 THEN NULL ELSE s[2]
        BY <1>9, <3>2
      <4> QED
        BY <3>2, <4>1
    <3> QED
      BY <1>2, <3>1, <3>2
  <2> QED
    BY <1>13, <2>1
<1>19. g.tail = [h.tail EXCEPT ![l] = IF i < n THEN h.tail[l] ELSE IF i = 1 THEN NULL ELSE s[i - 1]]
  <2>1. (IF x = NULL THEN p ELSE h.tail[l]) = IF i < n THEN h.tail[l] ELSE IF i = 1 THEN NULL ELSE s[i - 1]
    <3>1. CASE i < n
      BY <1>10, <3>1
    <3>2. CASE i = n
      <4>1. x = NULL /\ p = IF i = 1 THEN NULL ELSE s[i - 1]
        BY <1>9, <3>2
      <4> QED
        BY <3>2, <4>1
    <3> QED
      BY <1>2, <3>1, <3>2
  <2> QED
    BY <1>13, <2>1
<1>20. ASSUME NEW y \in g.used
       PROVE  /\ g.next[y] = IF i > 1 /\ y = s[i - 1] THEN (IF i = n THEN NULL ELSE s[i + 1]) ELSE h.next[y]
              /\ g.prev[y] = IF i < n /\ y = s[i + 1] THEN (IF i = 1 THEN NULL ELSE s[i - 1]) ELSE h.prev[y]
              /\ g.value[y] = h.value[y]
  <2>1. y \in Nodes /\ y # node /\ y # NULL
    BY <1>4, <1>13, NullAssumption
  <2>2. (i > 1 <=> i # 1) /\ (i < n <=> i # n)
    BY <1>2
  <2>3. g.next[y] = IF y = p THEN x ELSE h.next[y]
    BY <1>15, <2>1
  <2>4. g.prev[y] = IF y = x THEN p ELSE h.prev[y]
    BY <1>16, <2>1
  <2>5. g.value[y] = h.value[y]
    BY <1>13, <1>14, <2>1
  <2>6. y = p <=> i > 1 /\ y = s[i - 1]
    BY <1>9, <2>1, <2>2
  <2>7. y = x <=> i < n /\ y = s[i + 1]
    BY <1>9, <2>1, <2>2
  <2> QED
    BY <1>9, <2>3, <2>4, <2>5, <2>6, <2>7
<1>21. Unlinked(h, c, g, l, i)
  BY <1>2, <1>3, <1>5, <1>13, <1>18, <1>19, <1>20 DEF Unlinked
<1> QED
  BY <1>3, <1>5, <1>8, <1>17, <1>21

(***************************************************************************)
(* listRotate is what taking the last node out and putting it in front is. *)
(***************************************************************************)
Turned(s, n) == [j \in 1 .. n |-> IF j = 1 THEN s[n] ELSE s[j - 1]]

LEMMA TurnedIs ==
  ASSUME NEW n \in Nat \ {0}, NEW s
  PROVE  Put(Drop(s, n, n), n - 1, 1, s[n]) = Turned(s, n)
<1>1. PICK q : q = Put(Drop(s, n, n), n - 1, 1, s[n])
  OBVIOUS
<1>2. q = [j \in 1 .. n |-> q[j]]
  BY <1>1 DEF Put
<1>3. ASSUME NEW j \in 1 .. n PROVE q[j] = IF j = 1 THEN s[n] ELSE s[j - 1]
  <2>1. CASE j = 1
    BY <1>1, <2>1 DEF Put
  <2>2. CASE j # 1
    <3>1. j - 1 \in 1 .. n - 1 /\ j - 1 < n /\ ~(j < 1)
      BY <2>2
    <3>2. q[j] = Drop(s, n, n)[j - 1]
      BY <1>1, <2>2, <3>1 DEF Put
    <3>3. Drop(s, n, n)[j - 1] = s[j - 1]
      BY <3>1 DEF Drop
    <3> QED
      BY <2>2, <3>2, <3>3
  <2> QED
    BY <2>1, <2>2
<1> QED
  BY <1>1, <1>2, <1>3 DEF Turned

LEMMA RotateTurns ==
  ASSUME NEW h, NEW c, Chained(h, c), NEW l \in Lists
  PROVE  LET g == listRotate(h, l) IN
         /\ \E d : Chained(g, d)
         /\ Contents(g) = [Contents(h) EXCEPT ![l] = Turned(Contents(h)[l], h.len[l])]
<1>1. h \in Heap
  BY DEF Chained
<1>2. PICK n \in Nat : n = h.len[l]
  BY <1>1 DEF Heap
<1>3. PICK g : g = listRotate(h, l)
  OBVIOUS
<1>4. Contents(h)[l] \in Seq(Values) /\ Len(Contents(h)[l]) = n /\ DOMAIN Contents(h) = Lists
  BY <1>2, ContentsAre
<1>5. CASE n <= 1
  <2>1. g = h
    BY <1>2, <1>3, <1>5 DEF listRotate
  <2>2. PICK s \in Seq(Values) : s = Contents(h)[l] /\ Len(s) = n
    BY <1>4
  <2>3. s = [j \in 1 .. n |-> s[j]]
    BY <2>2, LenProperties
  <2>4. \A j \in 1 .. n : j = 1 /\ n = 1
    BY <1>5
  <2>5. Turned(s, n) = s
    BY <2>3, <2>4 DEF Turned
  <2>6. [Contents(h) EXCEPT ![l] = Contents(h)[l]] = Contents(h)
    BY DEF Contents
  <2> QED
    BY <1>2, <1>3, <2>1, <2>2, <2>5, <2>6
<1>6. CASE n > 1
  <2>1. PICK s \in [1 .. n -> h.used] : s = c[l]
    BY <1>2 DEF Chained, Lies
  <2>2. h.head[l] = s[1] /\ h.tail[l] = s[n]
    BY <1>2, <1>6, <2>1 DEF Chained, Linked
  <2>3. PICK last : last = s[n]
    OBVIOUS
  <2>4. last \in h.used /\ s[1] \in h.used /\ s[n - 1] \in h.used /\ h.used \subseteq Nodes
    BY <1>1, <1>6, <2>3 DEF Heap
  <2>5. s[1] # last /\ s[n - 1] # last
    <3>1. \A a, b \in 1 .. n : s[a] = s[b] => a = b
      BY <1>2, <2>1 DEF Chained, Lies
    <3> QED
      BY <1>6, <2>3, <3>1
  <2>6. h.prev[last] = s[n - 1] /\ h.next[last] = NULL
    <3>1. \A a \in 1 .. n : /\ h.next[s[a]] = (IF a = n THEN NULL ELSE s[a + 1])
                            /\ h.prev[s[a]] = (IF a = 1 THEN NULL ELSE s[a - 1])
      BY <1>2, <2>1 DEF Chained, Linked
    <3> QED
      BY <1>6, <2>3, <3>1
  <2>7. PICK m : m = listDelNode(h, l, c[l][n])
    OBVIOUS
  <2>8. m \in Heap /\ Unlinked(h, c, m, l, n)
    <3>1. n \in 1 .. h.len[l]
      BY <1>2, <1>6
    <3> QED
      BY <2>7, <3>1, DelUnlinks
  <2>9. PICK e : e = DropChain(c, l, n, n)
    OBVIOUS
  <2>10. Chained(m, e) /\ Contents(m) = [Contents(h) EXCEPT ![l] = Drop(Contents(h)[l], n, n)]
    <3>1. n \in 1 .. h.len[l]
      BY <1>2, <1>6
    <3> QED
      BY <1>2, <2>8, <2>9, <3>1, UnlinkedChained
  <2>11. m.used = h.used \ {last} /\ m.len[l] = n - 1
    BY <1>1, <1>2, <2>1, <2>3, <2>8 DEF Unlinked, Heap
  <2>12. PICK v \in Values : v = h.value[last]
    BY <2>4 DEF Chained
  <2>13. g = [h EXCEPT !.tail[l] = s[n - 1], !.head[l] = last,
                       !.next = [@ EXCEPT ![s[n - 1]] = NULL, ![last] = s[1]],
                       !.prev = [@ EXCEPT ![last] = NULL, ![s[1]] = last]]
    BY <1>2, <1>3, <1>6, <2>2, <2>3, <2>6 DEF listRotate
  <2>14. g = [head |-> g.head, tail |-> g.tail, len |-> g.len, prev |-> g.prev, next |-> g.next,
              value |-> g.value, used |-> g.used]
    BY <1>1, <2>13 DEF Heap
  <2>15. /\ g.tail = [h.tail EXCEPT ![l] = s[n - 1]] /\ g.head = [h.head EXCEPT ![l] = last]
         /\ g.next = [h.next EXCEPT ![s[n - 1]] = NULL, ![last] = s[1]]
         /\ g.prev = [h.prev EXCEPT ![last] = NULL, ![s[1]] = last]
         /\ g.len = h.len /\ g.value = h.value /\ g.used = h.used
    BY <1>1, <2>13 DEF Heap
  <2>16. /\ h.prev \in [Nodes -> Nodes \cup {NULL}] /\ h.next \in [Nodes -> Nodes \cup {NULL}]
         /\ h.head \in [Lists -> Nodes \cup {NULL}] /\ h.tail \in [Lists -> Nodes \cup {NULL}]
         /\ h.len \in [Lists -> Nat] /\ h.value \in [Nodes -> Values \cup {NULL}]
    BY <1>1 DEF Heap
  <2>17. g \in Heap
    <3>1. g.head \in [Lists -> Nodes \cup {NULL}] /\ g.tail \in [Lists -> Nodes \cup {NULL}]
      BY <2>4, <2>15, <2>16
    <3>2. g.prev \in [Nodes -> Nodes \cup {NULL}]
      <4>1. PICK f \in [Nodes -> Nodes \cup {NULL}] : f = [h.prev EXCEPT ![last] = NULL]
        BY <2>4, <2>16
      <4>2. g.prev = [f EXCEPT ![s[1]] = last]
        BY <2>15, <4>1
      <4> QED
        BY <2>4, <4>2
    <3>3. g.next \in [Nodes -> Nodes \cup {NULL}]
      <4>1. PICK f \in [Nodes -> Nodes \cup {NULL}] : f = [h.next EXCEPT ![s[n - 1]] = NULL]
        BY <2>4, <2>16
      <4>2. g.next = [f EXCEPT ![last] = s[1]]
        BY <2>15, <4>1
      <4> QED
        BY <2>4, <4>2
    <3> QED
      BY <1>1, <2>4, <2>14, <2>15, <2>16, <3>1, <3>2, <3>3, IsHeap
  <2>18. Spliced(m, e, g, l, 1, last, v)
    <3>1. e[l][1] = s[1]
      <4>1. e[l] = Drop(s, n, n) /\ 1 \in 1 .. n - 1
        BY <1>6, <2>1, <2>9 DEF DropChain
      <4> QED
        BY <4>1 DEF Drop
    <3>2. /\ m.len = [h.len EXCEPT ![l] = n - 1]
          /\ m.head = [h.head EXCEPT ![l] = h.head[l]]
          /\ m.tail = [h.tail EXCEPT ![l] = s[n - 1]]
      BY <1>2, <1>6, <2>1, <2>8 DEF Unlinked
    <3>3. \A x \in m.used : m.value[x] = h.value[x] /\ g.value[x] = h.value[x]
      BY <2>8, <2>15 DEF Unlinked
    <3>4. g.used = m.used \cup {last} /\ g.value[last] = v
      BY <2>4, <2>11, <2>12, <2>15
    <3>5. g.len = [m.len EXCEPT ![l] = m.len[l] + 1]
      BY <1>2, <2>11, <2>15, <2>16, <3>2
    <3>6. g.head = [m.head EXCEPT ![l] = last] /\ g.tail = [m.tail EXCEPT ![l] = m.tail[l]]
      BY <2>15, <2>16, <3>2
    <3>7. ASSUME NEW x \in m.used
          PROVE  /\ m.next[x] = IF x = s[n - 1] THEN NULL ELSE h.next[x]
                 /\ m.prev[x] = h.prev[x]
      BY <1>2, <1>6, <2>1, <2>8 DEF Unlinked
    <3>8. ASSUME NEW x \in g.used
          PROVE  /\ g.next[x] = IF x = last THEN s[1] ELSE m.next[x]
                 /\ g.prev[x] = IF x = last THEN NULL ELSE IF x = s[1] THEN last ELSE m.prev[x]
      <4>1. x \in Nodes
        BY <2>4, <2>15
      <4>2. /\ g.next[x] = IF x = last THEN s[1] ELSE IF x = s[n - 1] THEN NULL ELSE h.next[x]
            /\ g.prev[x] = IF x = s[1] THEN last ELSE IF x = last THEN NULL ELSE h.prev[x]
        BY <2>4, <2>5, <2>15, <2>16, <4>1
      <4>3. x # last => x \in m.used
        BY <3>4
      <4> QED
        BY <2>5, <3>7, <4>2, <4>3
    <3>9. m.len[l] + 1 # 1 /\ 1 <= m.len[l]
      BY <1>6, <2>11
    <3> QED
      BY <3>1, <3>3, <3>4, <3>5, <3>6, <3>8, <3>9 DEF Spliced
  <2>19. /\ Chained(g, PutChain(e, l, m.len[l], 1, last))
         /\ Contents(g) = [Contents(m) EXCEPT ![l] = Put(Contents(m)[l], m.len[l], 1, v)]
    <3>1. PICK i : i = 1
      OBVIOUS
    <3>2. last \in Nodes \ m.used /\ i \in 1 .. m.len[l] + 1
      BY <1>6, <2>4, <2>11, <3>1
    <3>3. Chained(m, e) /\ Spliced(m, e, g, l, i, last, v)
      BY <2>10, <2>18, <3>1
    <3>4. /\ Chained(g, PutChain(e, l, m.len[l], i, last))
          /\ Contents(g) = [Contents(m) EXCEPT ![l] = Put(Contents(m)[l], m.len[l], i, v)]
      BY <2>17, <3>2, <3>3, SplicedChained
    <3> QED
      BY <3>1, <3>4
  <2>20. v = Contents(h)[l][n]
    <3>1. n \in 1 .. h.len[l]
      BY <1>2, <1>6
    <3> QED
      BY <2>1, <2>3, <2>12, <3>1, ContentsAre
  <2>21. Contents(g) = [Contents(h) EXCEPT ![l] = Turned(Contents(h)[l], n)]
    <3>1. PICK s1 : s1 = Contents(h)[l]
      OBVIOUS
    <3>2. Contents(g) = [Contents(h) EXCEPT ![l] = Put(Drop(s1, n, n), n - 1, 1, s1[n])]
      BY <1>4, <2>10, <2>11, <2>19, <2>20, <3>1
    <3>3. Put(Drop(s1, n, n), n - 1, 1, s1[n]) = Turned(s1, n)
      BY <1>6, TurnedIs
    <3> QED
      BY <3>1, <3>2, <3>3
  <2> QED
    BY <1>2, <1>3, <2>19, <2>21
<1> QED
  BY <1>5, <1>6

(***************************************************************************)
(* listRelease.                                                            *)
(***************************************************************************)
LEMMA ReleaseClears ==
  ASSUME NEW h, NEW c, Chained(h, c), NEW l \in Lists
  PROVE  LET g == listRelease(h, l) IN
         /\ \E d : Chained(g, d)
         /\ Contents(g) = [Contents(h) EXCEPT ![l] = <<>>]
<1>1. h \in Heap
  BY DEF Chained
<1>2. PICK freed : freed = {c[l][i] : i \in 1 .. h.len[l]}
  OBVIOUS
<1>3. ChainSet(h, l) = freed
  BY <1>2, ChainIs DEF ChainSet
<1>4. PICK g : g = listRelease(h, l)
  OBVIOUS
<1>5. PICK d : d = [m \in Lists |-> IF m = l THEN [i \in 1 .. 0 |-> NULL] ELSE c[m]]
  OBVIOUS
<1>6. g = [h EXCEPT !.next = [node \in Nodes |-> IF node \in freed THEN NULL ELSE @[node]],
                    !.prev = [node \in Nodes |-> IF node \in freed THEN NULL ELSE @[node]],
                    !.value = [node \in Nodes |-> IF node \in freed THEN NULL ELSE @[node]],
                    !.head[l] = NULL, !.tail[l] = NULL, !.len[l] = 0, !.used = @ \ freed]
  BY <1>3, <1>4 DEF listRelease
<1>7. g = [head |-> g.head, tail |-> g.tail, len |-> g.len, prev |-> g.prev, next |-> g.next,
           value |-> g.value, used |-> g.used]
  BY <1>1, <1>6 DEF Heap
<1>8. /\ g.next = [node \in Nodes |-> IF node \in freed THEN NULL ELSE h.next[node]]
      /\ g.prev = [node \in Nodes |-> IF node \in freed THEN NULL ELSE h.prev[node]]
      /\ g.value = [node \in Nodes |-> IF node \in freed THEN NULL ELSE h.value[node]]
      /\ g.head = [h.head EXCEPT ![l] = NULL] /\ g.tail = [h.tail EXCEPT ![l] = NULL]
      /\ g.len = [h.len EXCEPT ![l] = 0] /\ g.used = h.used \ freed
  BY <1>1, <1>6 DEF Heap
<1>9. /\ h.prev \in [Nodes -> Nodes \cup {NULL}] /\ h.next \in [Nodes -> Nodes \cup {NULL}]
      /\ h.head \in [Lists -> Nodes \cup {NULL}] /\ h.tail \in [Lists -> Nodes \cup {NULL}]
      /\ h.len \in [Lists -> Nat] /\ h.value \in [Nodes -> Values \cup {NULL}] /\ h.used \subseteq Nodes
  BY <1>1 DEF Heap
<1>10. g \in Heap
  <2>1. g.head \in [Lists -> Nodes \cup {NULL}] /\ g.tail \in [Lists -> Nodes \cup {NULL}]
    BY <1>8, <1>9
  <2>2. g.prev \in [Nodes -> Nodes \cup {NULL}] /\ g.next \in [Nodes -> Nodes \cup {NULL}]
    BY <1>8, <1>9
  <2>3. g.value \in [Nodes -> Values \cup {NULL}] /\ g.len \in [Lists -> Nat] /\ g.used \subseteq Nodes
    BY <1>8, <1>9
  <2> QED
    BY <1>1, <1>7, <2>1, <2>2, <2>3, IsHeap
<1>11. ASSUME NEW m \in Lists, m # l
       PROVE  /\ d[m] = c[m] /\ g.len[m] = h.len[m] /\ g.head[m] = h.head[m] /\ g.tail[m] = h.tail[m]
              /\ c[m] \in [1 .. h.len[m] -> g.used]
              /\ \A i \in 1 .. h.len[m] : /\ g.next[c[m][i]] = h.next[c[m][i]]
                                          /\ g.prev[c[m][i]] = h.prev[c[m][i]]
                                          /\ g.value[c[m][i]] = h.value[c[m][i]]
  <2>1. d[m] = c[m] /\ g.len[m] = h.len[m] /\ g.head[m] = h.head[m] /\ g.tail[m] = h.tail[m]
    BY <1>5, <1>8, <1>9, <1>11
  <2>2. c[m] \in [1 .. h.len[m] -> h.used]
    BY DEF Chained, Lies
  <2>3. \A i \in 1 .. h.len[m] : c[m][i] \notin freed
    BY <1>2, <1>11 DEF Chained, Lies
  <2>4. \A i \in 1 .. h.len[m] : c[m][i] \in g.used /\ c[m][i] \in Nodes
    BY <1>8, <1>9, <2>2, <2>3
  <2> QED
    BY <1>8, <2>1, <2>2, <2>3, <2>4
<1>12. g.len[l] = 0 /\ g.head[l] = NULL /\ g.tail[l] = NULL /\ d[l] = [i \in 1 .. 0 |-> NULL]
  BY <1>5, <1>8, <1>9
<1>13. Lies(g, d)
  <2>1. ASSUME NEW m \in Lists PROVE d[m] \in [1 .. g.len[m] -> g.used]
    <3>1. CASE m = l
      <4>1. [i \in 1 .. 0 |-> NULL] \in [1 .. 0 -> g.used]
        OBVIOUS
      <4> QED
        BY <1>12, <3>1, <4>1
    <3>2. CASE m # l
      BY <1>11, <3>2
    <3> QED
      BY <3>1, <3>2
  <2>2. ASSUME NEW node \in g.used PROVE \E m \in Lists : \E i \in 1 .. g.len[m] : d[m][i] = node
    <3>1. node \in h.used /\ node \notin freed
      BY <1>8
    <3>2. PICK m \in Lists : \E i \in 1 .. h.len[m] : c[m][i] = node
      BY <3>1 DEF Chained, Lies
    <3>3. m # l
      BY <1>2, <3>1, <3>2
    <3> QED
      BY <1>11, <3>2, <3>3
  <2>3. ASSUME NEW m \in Lists, NEW k \in Lists, NEW a \in 1 .. g.len[m], NEW b \in 1 .. g.len[k],
               d[m][a] = d[k][b]
        PROVE  m = k /\ a = b
    <3>1. m # l /\ k # l
      BY <1>12
    <3>2. /\ d[m] = c[m] /\ g.len[m] = h.len[m]
          /\ d[k] = c[k] /\ g.len[k] = h.len[k]
      BY <1>11, <3>1
    <3> QED
      BY <2>3, <3>2 DEF Chained, Lies
  <2> QED
    BY <2>1, <2>2, <2>3 DEF Lies
<1>14. ASSUME NEW m \in Lists PROVE Linked(g, m, d[m])
  <2>1. CASE m = l
    BY <1>12, <2>1 DEF Linked
  <2>2. CASE m # l
    <3>1. Linked(h, m, c[m])
      BY DEF Chained
    <3> QED
      BY <1>11, <2>2, <3>1 DEF Linked
  <2> QED
    BY <2>1, <2>2
<1>15. \A node \in g.used : g.value[node] \in Values
  <2>1. \A node \in g.used : node \in h.used /\ g.value[node] = h.value[node]
    BY <1>8, <1>9
  <2> QED
    BY <2>1 DEF Chained
<1>16. Chained(g, d)
  BY <1>10, <1>13, <1>14, <1>15 DEF Chained
<1>17. /\ Contents(g) = [m \in Lists |-> [i \in 1 .. g.len[m] |-> g.value[d[m][i]]]]
       /\ Contents(h) = [m \in Lists |-> [i \in 1 .. h.len[m] |-> h.value[c[m][i]]]]
  BY <1>16, ContentsAre
<1>18. ASSUME NEW m \in Lists, m # l PROVE Contents(g)[m] = Contents(h)[m]
  <2>1. d[m] = c[m] /\ g.len[m] = h.len[m] /\ \A i \in 1 .. h.len[m] : g.value[c[m][i]] = h.value[c[m][i]]
    BY <1>11, <1>18
  <2> QED
    BY <1>17, <2>1
<1>19. Contents(g)[l] = <<>>
  <2>1. Contents(g)[l] \in Seq(Values) /\ Len(Contents(g)[l]) = 0
    BY <1>12, <1>16, ContentsAre
  <2> QED
    BY <2>1, EmptySeq
<1> QED
  BY <1>4, <1>16, <1>17, <1>18, <1>19

(***************************************************************************)
(* What each function of list.c does to the sequences.                     *)
(***************************************************************************)
Chains(h) == [l \in Lists |-> Chain(h, l)]

Sound(h) == Chained(h, Chains(h))

LEMMA ChainsAre ==
  ASSUME NEW h, NEW d, Chained(h, d)
  PROVE  Sound(h) /\ \A l \in Lists : Chain(h, l) = d[l]
<1>1. \A l \in Lists : Chain(h, l) = d[l]
  BY ChainIs
<1>2. PICK c : c = Chains(h)
  OBVIOUS
<1>3. \A l \in Lists : c[l] = d[l]
  BY <1>1, <1>2 DEF Chains
<1>4. Lies(h, c)
  <2>1. Lies(h, d)
    BY DEF Chained
  <2>2. \A l \in Lists : c[l] \in [1 .. h.len[l] -> h.used]
    BY <1>3, <2>1 DEF Lies
  <2>3. \A node \in h.used : \E l \in Lists : \E i \in 1 .. h.len[l] : c[l][i] = node
    BY <1>3, <2>1 DEF Lies
  <2>4. ASSUME NEW l \in Lists, NEW m \in Lists, NEW i \in 1 .. h.len[l], NEW j \in 1 .. h.len[m],
               c[l][i] = c[m][j]
        PROVE  l = m /\ i = j
    BY <1>3, <2>1, <2>4 DEF Lies
  <2> QED
    BY <2>2, <2>3, <2>4 DEF Lies
<1>5. \A l \in Lists : Linked(h, l, c[l])
  BY <1>3 DEF Chained
<1>6. Chained(h, c)
  BY <1>4, <1>5 DEF Chained
<1> QED
  BY <1>1, <1>2, <1>6 DEF Sound

LEMMA SoundHeap ==
  ASSUME NEW h, Sound(h), NEW l \in Lists
  PROVE  /\ h \in Heap
         /\ h.len[l] \in Nat
         /\ Chain(h, l) \in [1 .. h.len[l] -> h.used]
         /\ h.used \subseteq Nodes
         /\ Contents(h)[l] \in Seq(Values) /\ Len(Contents(h)[l]) = h.len[l]
         /\ \A i \in 1 .. h.len[l] : Contents(h)[l][i] = h.value[Chain(h, l)[i]]
         /\ Linked(h, l, Chain(h, l))
         /\ DOMAIN Contents(h) = Lists
<1>1. Chained(h, Chains(h)) /\ Chains(h)[l] = Chain(h, l)
  BY DEF Sound, Chains
<1>2. h \in Heap /\ h.len[l] \in Nat /\ h.used \subseteq Nodes
  BY <1>1 DEF Chained, Heap
<1>3. Chain(h, l) \in [1 .. h.len[l] -> h.used]
  BY <1>1 DEF Chained, Lies
<1>4. /\ Contents(h)[l] \in Seq(Values) /\ Len(Contents(h)[l]) = h.len[l]
      /\ \A i \in 1 .. h.len[l] : Contents(h)[l][i] = h.value[Chain(h, l)[i]]
  <2>1. PICK c : c = Chains(h)
    OBVIOUS
  <2>2. Chained(h, c)
    BY <1>1, <2>1
  <2>3. /\ Contents(h)[l] \in Seq(Values) /\ Len(Contents(h)[l]) = h.len[l]
        /\ \A i \in 1 .. h.len[l] : Contents(h)[l][i] = h.value[c[l][i]]
    BY <2>2, ContentsAre
  <2> QED
    BY <1>1, <2>1, <2>3
<1>5. Linked(h, l, Chain(h, l))
  BY <1>1 DEF Chained
<1>6. DOMAIN Contents(h) = Lists
  BY DEF Contents
<1> QED
  BY <1>2, <1>3, <1>4, <1>5, <1>6

\* g is h with the value v at place i of list l.
Inserted(h, g, l, i, v) ==
  /\ Sound(g)
  /\ Contents(g) = [Contents(h) EXCEPT ![l] = S!InsertAt(Contents(h)[l], i, v)]
  /\ g.len = [h.len EXCEPT ![l] = h.len[l] + 1]
  /\ \A m \in Lists : m # l => Chain(g, m) = Chain(h, m)

LEMMA SplicedInserts ==
  ASSUME NEW h, Sound(h), NEW g \in Heap, NEW l \in Lists,
         NEW node \in Nodes \ h.used, NEW v \in Values, NEW i \in 1 .. h.len[l] + 1,
         Spliced(h, Chains(h), g, l, i, node, v)
  PROVE  Inserted(h, g, l, i, v)
<1>1. PICK c : c = Chains(h)
  OBVIOUS
<1>2. Chained(h, c) /\ Spliced(h, c, g, l, i, node, v)
  BY <1>1 DEF Sound
<1>3. PICK d : d = PutChain(c, l, h.len[l], i, node)
  OBVIOUS
<1>4. /\ Chained(g, d)
      /\ Contents(g) = [Contents(h) EXCEPT ![l] = Put(Contents(h)[l], h.len[l], i, v)]
  BY <1>2, <1>3, SplicedChained
<1>5. S!InsertAt(Contents(h)[l], i, v) = Put(Contents(h)[l], h.len[l], i, v)
  <2>1. PICK s \in Seq(Values) : s = Contents(h)[l] /\ Len(s) = h.len[l]
    BY SoundHeap
  <2>2. i \in 1 .. Len(s) + 1
    BY <2>1
  <2>3. S!InsertAt(s, i, v) = Put(s, Len(s), i, v)
    BY <2>2, InsertAtIs
  <2> QED
    BY <2>1, <2>3
<1>6. Sound(g) /\ \A m \in Lists : Chain(g, m) = d[m]
  BY <1>4, ChainsAre
<1>7. \A m \in Lists : m # l => d[m] = c[m] /\ c[m] = Chain(h, m)
  BY <1>1, <1>3 DEF PutChain, Chains
<1>8. g.len = [h.len EXCEPT ![l] = h.len[l] + 1]
  BY DEF Spliced
<1> QED
  BY <1>4, <1>5, <1>6, <1>7, <1>8 DEF Inserted

LEMMA HeadInserts ==
  ASSUME NEW h, Sound(h), NEW l \in Lists, NEW node \in Nodes \ h.used, NEW v \in Values
  PROVE  Inserted(h, listAddNodeHead(listCreateNode(h, node, v), l, node), l, 1, v)
<1>1. PICK g : g = listAddNodeHead(listCreateNode(h, node, v), l, node)
  OBVIOUS
<1>2. PICK c : c = Chains(h)
  OBVIOUS
<1>3. PICK i : i = 1
  OBVIOUS
<1>4. g \in Heap /\ Spliced(h, c, g, l, 1, node, v)
  BY <1>1, <1>2, HeadSplices DEF Sound
<1>5. Spliced(h, Chains(h), g, l, i, node, v) /\ i \in 1 .. h.len[l] + 1
  BY <1>2, <1>3, <1>4, SoundHeap
<1>6. Inserted(h, g, l, i, v)
  BY <1>4, <1>5, SplicedInserts
<1> QED
  BY <1>1, <1>3, <1>6

LEMMA TailInserts ==
  ASSUME NEW h, Sound(h), NEW l \in Lists, NEW node \in Nodes \ h.used, NEW v \in Values
  PROVE  Inserted(h, listAddNodeTail(listCreateNode(h, node, v), l, node), l, h.len[l] + 1, v)
<1>1. PICK g : g = listAddNodeTail(listCreateNode(h, node, v), l, node)
  OBVIOUS
<1>2. PICK c : c = Chains(h)
  OBVIOUS
<1>3. PICK i : i = h.len[l] + 1
  OBVIOUS
<1>4. g \in Heap /\ Spliced(h, c, g, l, i, node, v)
  BY <1>1, <1>2, <1>3, TailSplices DEF Sound
<1>5. Spliced(h, Chains(h), g, l, i, node, v) /\ i \in 1 .. h.len[l] + 1
  BY <1>2, <1>3, <1>4, SoundHeap
<1>6. Inserted(h, g, l, i, v)
  BY <1>4, <1>5, SplicedInserts
<1> QED
  BY <1>1, <1>3, <1>6

LEMMA InsertInserts ==
  ASSUME NEW h, Sound(h), NEW l \in Lists, NEW node \in Nodes \ h.used, NEW v \in Values,
         NEW i \in 1 .. h.len[l], NEW after \in BOOLEAN
  PROVE  Inserted(h, listInsertNode(listCreateNode(h, node, v), l, Chain(h, l)[i], node, after),
                  l, IF after THEN i + 1 ELSE i, v)
<1>1. PICK c : c = Chains(h)
  OBVIOUS
<1>2. c[l] = Chain(h, l)
  BY <1>1 DEF Chains
<1>3. PICK g : g = listInsertNode(listCreateNode(h, node, v), l, c[l][i], node, after)
  OBVIOUS
<1>4. PICK at : at = IF after THEN i + 1 ELSE i
  OBVIOUS
<1>5. Chained(h, c)
  BY <1>1 DEF Sound
<1>6. g \in Heap /\ Spliced(h, c, g, l, at, node, v)
  BY <1>3, <1>4, <1>5, InsertSplices
<1>7. at \in 1 .. h.len[l] + 1
  BY <1>4, SoundHeap
<1>8. Inserted(h, g, l, at, v)
  BY <1>1, <1>6, <1>7, SplicedInserts
<1> QED
  BY <1>2, <1>3, <1>4, <1>8

\* g is h without the value at place i of list l.
Removed(h, g, l, i) ==
  /\ Sound(g)
  /\ Contents(g) = [Contents(h) EXCEPT ![l] = S!RemoveAt(Contents(h)[l], i)]
  /\ g.len = [h.len EXCEPT ![l] = h.len[l] - 1]
  /\ Chain(g, l) = Drop(Chain(h, l), h.len[l], i)
  /\ \A m \in Lists : m # l => Chain(g, m) = Chain(h, m)

LEMMA DelRemoves ==
  ASSUME NEW h, Sound(h), NEW l \in Lists, NEW i \in 1 .. h.len[l]
  PROVE  Removed(h, listDelNode(h, l, Chain(h, l)[i]), l, i)
<1>1. PICK c : c = Chains(h)
  OBVIOUS
<1>2. \A m \in Lists : c[m] = Chain(h, m)
  BY <1>1 DEF Chains
<1>3. PICK g : g = listDelNode(h, l, c[l][i])
  OBVIOUS
<1>4. Chained(h, c)
  BY <1>1 DEF Sound
<1>5. g \in Heap /\ Unlinked(h, c, g, l, i)
  BY <1>3, <1>4, DelUnlinks
<1>6. PICK d : d = DropChain(c, l, h.len[l], i)
  OBVIOUS
<1>7. /\ Chained(g, d)
      /\ Contents(g) = [Contents(h) EXCEPT ![l] = Drop(Contents(h)[l], h.len[l], i)]
  BY <1>4, <1>5, <1>6, UnlinkedChained
<1>8. S!RemoveAt(Contents(h)[l], i) = Drop(Contents(h)[l], h.len[l], i)
  <2>1. PICK s \in Seq(Values) : s = Contents(h)[l] /\ Len(s) = h.len[l]
    BY SoundHeap
  <2>2. i \in 1 .. Len(s)
    BY <2>1
  <2>3. S!RemoveAt(s, i) = Drop(s, Len(s), i)
    BY <2>2, RemoveAtIs
  <2> QED
    BY <2>1, <2>3
<1>9. Sound(g) /\ \A m \in Lists : Chain(g, m) = d[m]
  BY <1>7, ChainsAre
<1>10. (\A m \in Lists : m # l => d[m] = c[m]) /\ d[l] = Drop(c[l], h.len[l], i)
  BY <1>6 DEF DropChain
<1>11. g.len = [h.len EXCEPT ![l] = h.len[l] - 1]
  BY <1>5 DEF Unlinked
<1>12. Chain(g, l) = Drop(Chain(h, l), h.len[l], i)
  BY <1>2, <1>9, <1>10
<1>13. \A m \in Lists : m # l => Chain(g, m) = Chain(h, m)
  BY <1>2, <1>9, <1>10
<1>14. Removed(h, g, l, i)
  BY <1>7, <1>8, <1>9, <1>11, <1>12, <1>13 DEF Removed
<1> QED
  BY <1>2, <1>3, <1>14

LEMMA RotateRotates ==
  ASSUME NEW h, Sound(h), NEW l \in Lists
  PROVE  LET s == Contents(h)[l] IN
         /\ Sound(listRotate(h, l))
         /\ Contents(listRotate(h, l)) =
              [Contents(h) EXCEPT ![l] = IF s = <<>> THEN s ELSE <<S!Last(s)>> \o S!Front(s)]
<1>1. PICK c : c = Chains(h)
  OBVIOUS
<1>2. PICK g : g = listRotate(h, l)
  OBVIOUS
<1>3. Chained(h, c)
  BY <1>1 DEF Sound
<1>4. /\ \E d : Chained(g, d)
      /\ Contents(g) = [Contents(h) EXCEPT ![l] = Turned(Contents(h)[l], h.len[l])]
  BY <1>2, <1>3, RotateTurns
<1>5. Sound(g)
  BY <1>4, ChainsAre
<1>6. PICK s \in Seq(Values) : s = Contents(h)[l] /\ Len(s) = h.len[l]
  BY SoundHeap
<1>7. Turned(s, Len(s)) = IF s = <<>> THEN s ELSE <<S!Last(s)>> \o S!Front(s)
  <2>1. CASE s = <<>>
    <3>1. Len(s) = 0 /\ s = [j \in 1 .. Len(s) |-> s[j]]
      BY <2>1, LenProperties
    <3>2. Turned(s, Len(s)) = s
      BY <3>1 DEF Turned
    <3> QED
      BY <2>1, <3>2
  <2>2. CASE s # <<>>
    BY <2>2, RotatedIs DEF Turned
  <2> QED
    BY <2>1, <2>2
<1> QED
  BY <1>2, <1>4, <1>5, <1>6, <1>7

LEMMA ReleaseReleases ==
  ASSUME NEW h, Sound(h), NEW l \in Lists
  PROVE  /\ Sound(listRelease(h, l))
         /\ Contents(listRelease(h, l)) = [Contents(h) EXCEPT ![l] = <<>>]
<1>1. PICK c : c = Chains(h)
  OBVIOUS
<1>2. PICK g : g = listRelease(h, l)
  OBVIOUS
<1>3. Chained(h, c)
  BY <1>1 DEF Sound
<1>4. (\E d : Chained(g, d)) /\ Contents(g) = [Contents(h) EXCEPT ![l] = <<>>]
  BY <1>2, <1>3, ReleaseClears
<1> QED
  BY <1>2, <1>4, ChainsAre

(***************************************************************************)
(* The invariant.                                                          *)
(***************************************************************************)
\* A loop is at a place of the list it walks.
Loops ==
  /\ loop \in [op : {"none", "listDup", "mark", "close"}, from : Lists \cup {None},
               to : Lists \cup {None}, node : Nodes \cup {NULL}, at : Nat]
  /\ loop.op = "none" => loop = NoLoop
  /\ loop.op \in {"listDup", "mark"} =>
       /\ loop.from \in Lists /\ loop.to \in Lists /\ loop.from # loop.to
       /\ loop.at \in 1 .. heap.len[loop.from] + 1
       /\ loop.node = IF loop.at = heap.len[loop.from] + 1 THEN NULL
                      ELSE Chain(heap, loop.from)[loop.at]
  /\ loop.op = "listDup" =>
       /\ loop.to \in Others
       /\ loop.at # 1 => /\ call.op = "listDup" /\ call.list = loop.from /\ call.to = loop.to
                         /\ call.at = loop.at - 1
  /\ loop.op = "mark" => loop.from = clients /\ loop.to = clientsToClose

Occurs(s) == \A i, j \in 1 .. Len(s) : s[i] = s[j] => i = j

\* The clients mine and those that are leaving, marked ones, when the loop op
\* is at a place: behind it no client of mine is marked.
Kept(mine, leaving, marked, op, at) ==
  /\ Occurs(mine) /\ Occurs(leaving)
  /\ \A i \in 1 .. Len(mine), j \in 1 .. Len(leaving) : mine[i] # leaving[j]
  /\ \A j \in 1 .. Len(leaving) : leaving[j] \in marked
  /\ op \notin {"mark", "close"} => leaving = <<>>
  /\ op = "mark" => \A i \in 1 .. at - 1 : mine[i] \notin marked
  /\ op = "close" => \A i \in 1 .. Len(mine) : mine[i] \notin marked

IInv ==
  /\ Sound(heap)
  /\ Loops
  /\ Kept(Contents(heap)[clients], Contents(heap)[clientsToClose], toClose, loop.op, loop.at)

\* What is left of a sequence.
LEMMA RemovedSeq ==
  ASSUME NEW T, NEW s \in Seq(T), NEW i \in 1 .. Len(s)
  PROVE  /\ S!RemoveAt(s, i) \in Seq(T)
         /\ Len(S!RemoveAt(s, i)) = Len(s) - 1
         /\ \A j \in 1 .. Len(s) - 1 : S!RemoveAt(s, i)[j] = s[IF j < i THEN j ELSE j + 1]
<1>1. PICK n \in Nat : n = Len(s)
  BY LenProperties
<1>2. i \in 1 .. n
  BY <1>1
<1>3. PICK q : q = S!RemoveAt(s, i)
  OBVIOUS
<1>4. q = Drop(s, n, i)
  BY <1>1, <1>3, RemoveAtIs
<1>5. \A j \in 1 .. n : s[j] \in T
  BY <1>1, ElementOfSeq
<1>6. \A j \in 1 .. n - 1 : q[j] = s[IF j < i THEN j ELSE j + 1] /\ (IF j < i THEN j ELSE j + 1) \in 1 .. n
  BY <1>2, <1>4 DEF Drop
<1>7. q = [j \in 1 .. n - 1 |-> q[j]] /\ \A j \in 1 .. n - 1 : q[j] \in T
  BY <1>4, <1>5, <1>6 DEF Drop
<1>8. n - 1 \in Nat
  BY <1>2
<1>9. q \in Seq(T) /\ Len(q) = n - 1
  <2>1. PICK k \in Nat : k = n - 1
    BY <1>8
  <2>2. q = [j \in 1 .. k |-> q[j]] /\ \A j \in 1 .. k : q[j] \in T
    BY <1>7, <2>1
  <2>3. q \in [1 .. k -> T]
    BY <2>2
  <2> QED
    BY <2>1, <2>3
<1> QED
  BY <1>1, <1>3, <1>6, <1>9

LEMMA InsertedLast ==
  ASSUME NEW T, NEW s \in Seq(T), NEW e \in T
  PROVE  S!InsertAt(s, Len(s) + 1, e) = Append(s, e)
<1>1. Len(s) + 1 \in 1 .. Len(s) + 1
  BY LenProperties
<1>2. S!InsertAt(s, Len(s) + 1, e) = Put(s, Len(s), Len(s) + 1, e)
  BY <1>1, InsertAtIs
<1> QED
  BY <1>2, AppendIs

(***************************************************************************)
(* The clients while they come, are marked, are moved and are freed.       *)
(***************************************************************************)
LEMMA KeptArrives ==
  ASSUME NEW mine \in Seq(Values), NEW leaving \in Seq(Values), NEW marked, NEW at,
         Kept(mine, leaving, marked, "none", at),
         NEW v \in Values, \A i \in 1 .. Len(mine) : mine[i] # v
  PROVE  Kept(Append(mine, v), leaving, marked, "none", at)
<1>1. PICK n \in Nat : n = Len(mine)
  BY LenProperties
<1>2. PICK q : q = Append(mine, v)
  OBVIOUS
<1>3. q \in Seq(Values) /\ Len(q) = n + 1 /\ q[n + 1] = v /\ \A i \in 1 .. n : q[i] = mine[i]
  BY <1>1, <1>2, AppendProperties
<1>4. leaving = <<>> /\ Occurs(mine) /\ Occurs(leaving)
  BY DEF Kept
<1>5. Len(leaving) = 0
  BY <1>4, EmptySeq
<1>6. ASSUME NEW i \in 1 .. n + 1, NEW j \in 1 .. n + 1, q[i] = q[j] PROVE i = j
  <2>1. CASE i \in 1 .. n /\ j \in 1 .. n
    BY <1>1, <1>3, <1>4, <1>6, <2>1 DEF Occurs
  <2>2. CASE i = n + 1 /\ j \in 1 .. n
    BY <1>1, <1>3, <1>6, <2>2
  <2>3. CASE j = n + 1 /\ i \in 1 .. n
    BY <1>1, <1>3, <1>6, <2>3
  <2> QED
    BY <2>1, <2>2, <2>3
<1>7. Occurs(q)
  BY <1>3, <1>6 DEF Occurs
<1> QED
  BY <1>2, <1>4, <1>5, <1>7 DEF Kept

LEMMA KeptMarks ==
  ASSUME NEW mine, NEW leaving, NEW marked, NEW at, Kept(mine, leaving, marked, "none", at), NEW v
  PROVE  Kept(mine, leaving, marked \cup {v}, "none", at)
BY DEF Kept

LEMMA KeptDrops ==
  ASSUME NEW mine, NEW leaving, NEW marked, NEW at, Kept(mine, leaving, marked, "none", at), NEW v
  PROVE  Kept(mine, leaving, marked \ {v}, "none", at)
<1>1. leaving = <<>> /\ Len(<<>>) = 0
  BY DEF Kept
<1> QED
  BY <1>1 DEF Kept

LEMMA KeptBegins ==
  ASSUME NEW mine, NEW leaving, NEW marked, NEW at, Kept(mine, leaving, marked, "none", at)
  PROVE  Kept(mine, leaving, marked, "mark", 1) /\ \A i : Kept(mine, leaving, marked, "listDup", i)
BY DEF Kept

LEMMA KeptMoves ==
  ASSUME NEW mine \in Seq(Values), NEW leaving \in Seq(Values), NEW marked, NEW at \in 1 .. Len(mine),
         Kept(mine, leaving, marked, "mark", at), mine[at] \in marked
  PROVE  Kept(S!RemoveAt(mine, at), Append(leaving, mine[at]), marked, "mark", at)
<1>1. PICK n \in Nat : n = Len(mine)
  BY LenProperties
<1>2. PICK k \in Nat : k = Len(leaving)
  BY LenProperties
<1>3. PICK v : v = mine[at]
  OBVIOUS
<1>4. v \in Values /\ at \in 1 .. n
  BY <1>1, <1>3, ElementOfSeq
<1>5. PICK q : q = S!RemoveAt(mine, at)
  OBVIOUS
<1>6. PICK r : r = Append(leaving, v)
  OBVIOUS
<1>7. Len(q) = n - 1 /\ \A j \in 1 .. n - 1 : q[j] = mine[IF j < at THEN j ELSE j + 1]
  BY <1>1, <1>5, RemovedSeq
<1>8. Len(r) = k + 1 /\ r[k + 1] = v /\ \A j \in 1 .. k : r[j] = leaving[j]
  BY <1>2, <1>4, <1>6, AppendProperties
<1>9. /\ \A i, j \in 1 .. n : mine[i] = mine[j] => i = j
      /\ \A i, j \in 1 .. k : leaving[i] = leaving[j] => i = j
      /\ \A i \in 1 .. n, j \in 1 .. k : mine[i] # leaving[j]
      /\ \A j \in 1 .. k : leaving[j] \in marked
      /\ \A i \in 1 .. at - 1 : mine[i] \notin marked
  BY <1>1, <1>2 DEF Kept, Occurs
<1>10. ASSUME NEW j \in 1 .. n - 1
       PROVE  \E e \in 1 .. n : q[j] = mine[e] /\ e = (IF j < at THEN j ELSE j + 1) /\ e # at
  <2>1. CASE j < at
    BY <1>4, <1>7, <2>1
  <2>2. CASE ~(j < at)
    <3>1. j + 1 \in 1 .. n /\ j + 1 # at
      BY <1>4, <2>2
    <3> QED
      BY <1>7, <2>2, <3>1
  <2> QED
    BY <2>1, <2>2
<1>11. ASSUME NEW i \in 1 .. n - 1, NEW j \in 1 .. n - 1, q[i] = q[j] PROVE i = j
  <2>1. PICK e \in 1 .. n : q[i] = mine[e] /\ e = (IF i < at THEN i ELSE i + 1)
    BY <1>10
  <2>2. PICK f \in 1 .. n : q[j] = mine[f] /\ f = (IF j < at THEN j ELSE j + 1)
    BY <1>10
  <2>3. e = f
    BY <1>9, <1>11, <2>1, <2>2
  <2> QED
    BY <1>4, <2>1, <2>2, <2>3
<1>12. ASSUME NEW i \in 1 .. k + 1, NEW j \in 1 .. k + 1, r[i] = r[j] PROVE i = j
  <2>1. CASE i \in 1 .. k /\ j \in 1 .. k
    BY <1>8, <1>9, <1>12, <2>1
  <2>2. CASE i = k + 1 /\ j \in 1 .. k
    BY <1>3, <1>4, <1>8, <1>9, <1>12, <2>2
  <2>3. CASE j = k + 1 /\ i \in 1 .. k
    BY <1>3, <1>4, <1>8, <1>9, <1>12, <2>3
  <2> QED
    BY <2>1, <2>2, <2>3
<1>13. ASSUME NEW i \in 1 .. n - 1, NEW j \in 1 .. k + 1 PROVE q[i] # r[j]
  <2>1. PICK e \in 1 .. n : q[i] = mine[e] /\ e # at
    BY <1>10
  <2>2. CASE j \in 1 .. k
    BY <1>8, <1>9, <2>1, <2>2
  <2>3. CASE j = k + 1
    BY <1>3, <1>4, <1>8, <1>9, <2>1, <2>3
  <2> QED
    BY <2>2, <2>3
<1>14. ASSUME NEW j \in 1 .. k + 1 PROVE r[j] \in marked
  <2>1. v \in marked
    BY <1>3
  <2>2. CASE j \in 1 .. k
    <3>1. r[j] = leaving[j] /\ leaving[j] \in marked
      BY <1>8, <1>9, <2>2
    <3> QED
      BY <3>1
  <2>3. CASE j = k + 1
    BY <1>8, <2>1, <2>3
  <2> QED
    BY <2>2, <2>3
<1>15. ASSUME NEW i \in 1 .. at - 1 PROVE q[i] \notin marked
  <2>1. i \in 1 .. n - 1 /\ i < at
    BY <1>4
  <2> QED
    BY <1>7, <1>9, <2>1
<1>16. Occurs(q) /\ Occurs(r)
  BY <1>7, <1>8, <1>11, <1>12 DEF Occurs
<1>17. Kept(q, r, marked, "mark", at)
  BY <1>7, <1>8, <1>13, <1>14, <1>15, <1>16 DEF Kept
<1> QED
  BY <1>3, <1>5, <1>6, <1>17

LEMMA KeptPasses ==
  ASSUME NEW mine, NEW leaving, NEW marked, NEW at \in Nat, at > 0,
         Kept(mine, leaving, marked, "mark", at), mine[at] \notin marked
  PROVE  Kept(mine, leaving, marked, "mark", at + 1)
<1>1. \A i \in 1 .. (at + 1) - 1 : mine[i] \notin marked
  BY DEF Kept
<1> QED
  BY <1>1 DEF Kept

LEMMA KeptEnds ==
  ASSUME NEW mine \in Seq(Values), NEW leaving, NEW marked,
         Kept(mine, leaving, marked, "mark", Len(mine) + 1)
  PROVE  Kept(mine, leaving, marked, "close", 0)
<1>1. PICK n \in Nat : n = Len(mine)
  BY LenProperties
<1>2. \A i \in 1 .. n : mine[i] \notin marked
  <2>1. \A i \in 1 .. (n + 1) - 1 : mine[i] \notin marked
    BY <1>1 DEF Kept
  <2> QED
    BY <2>1
<1> QED
  BY <1>1, <1>2 DEF Kept

LEMMA KeptFrees ==
  ASSUME NEW mine \in Seq(Values), NEW leaving \in Seq(Values), NEW marked, NEW at,
         Len(leaving) # 0, Kept(mine, leaving, marked, "close", at)
  PROVE  Kept(mine, S!RemoveAt(leaving, 1), marked \ {leaving[1]}, "close", at)
<1>1. PICK n \in Nat : n = Len(leaving)
  BY LenProperties
<1>2. PICK q : q = S!RemoveAt(leaving, 1)
  OBVIOUS
<1>3. Len(q) = n - 1 /\ \A j \in 1 .. n - 1 : q[j] = leaving[j + 1]
  <2>1. 1 \in 1 .. Len(leaving)
    BY <1>1
  <2>2. Len(q) = n - 1 /\ \A j \in 1 .. n - 1 : q[j] = leaving[IF j < 1 THEN j ELSE j + 1]
    BY <1>1, <1>2, <2>1, RemovedSeq
  <2> QED
    BY <2>2
<1>4. /\ \A i, j \in 1 .. n : leaving[i] = leaving[j] => i = j
      /\ \A i \in 1 .. Len(mine), j \in 1 .. n : mine[i] # leaving[j]
      /\ \A j \in 1 .. n : leaving[j] \in marked
      /\ \A i \in 1 .. Len(mine) : mine[i] \notin marked
      /\ Occurs(mine)
  BY <1>1 DEF Kept, Occurs
<1>5. \A j \in 1 .. n - 1 : j + 1 \in 1 .. n /\ j + 1 # 1 /\ 1 \in 1 .. n
  OBVIOUS
<1>6. Occurs(q)
  <2>1. ASSUME NEW i \in 1 .. n - 1, NEW j \in 1 .. n - 1, q[i] = q[j] PROVE i = j
    <3>1. leaving[i + 1] = leaving[j + 1]
      BY <1>3, <2>1
    <3>2. i + 1 = j + 1
      BY <1>4, <1>5, <3>1
    <3> QED
      BY <3>2
  <2> QED
    BY <1>3, <2>1 DEF Occurs
<1>7. \A i \in 1 .. Len(mine), j \in 1 .. n - 1 : mine[i] # q[j]
  BY <1>3, <1>4, <1>5
<1>8. \A j \in 1 .. n - 1 : q[j] \in marked \ {leaving[1]}
  BY <1>3, <1>4, <1>5
<1>9. Kept(mine, q, marked \ {leaving[1]}, "close", at)
  BY <1>3, <1>4, <1>6, <1>7, <1>8 DEF Kept
<1> QED
  BY <1>2, <1>9

LEMMA KeptCloses ==
  ASSUME NEW mine, NEW marked, NEW at, Kept(mine, <<>>, marked, "close", at)
  PROVE  Kept(mine, <<>>, marked, "none", 0)
BY DEF Kept

(***************************************************************************)
(* The steps: what they do to the invariant and to the sequences.          *)
(***************************************************************************)
Steps == S!Next \/ UNCHANGED <<Contents(heap), call>>

LEMMA StartsSound == Init => IInv /\ S!Init
<1> SUFFICES ASSUME Init PROVE IInv /\ S!Init
  OBVIOUS
<1>1. PICK c : c = [l \in Lists |-> <<>>]
  OBVIOUS
<1>2. \A l \in Lists : c[l] = <<>>
  BY <1>1
<1>3. PICK h : h = heap
  OBVIOUS
<1>4. /\ h.head = [l \in Lists |-> NULL] /\ h.tail = [l \in Lists |-> NULL]
      /\ h.len = [l \in Lists |-> 0]
      /\ h.prev = [node \in Nodes |-> NULL] /\ h.next = [node \in Nodes |-> NULL]
      /\ h.value = [node \in Nodes |-> NULL] /\ h.used = {}
      /\ h = [head |-> h.head, tail |-> h.tail, len |-> h.len, prev |-> h.prev,
              next |-> h.next, value |-> h.value, used |-> h.used]
  BY <1>3 DEF Init, EmptyHeap
<1>5. h \in Heap
  BY <1>4 DEF Heap
<1>6. \A l \in Lists : h.len[l] = 0 /\ h.head[l] = NULL /\ h.tail[l] = NULL
  BY <1>4
<1>7. Lies(h, c)
  <2>1. \A l \in Lists : c[l] \in [1 .. h.len[l] -> h.used]
    <3>1. <<>> \in [1 .. 0 -> {}]
      OBVIOUS
    <3> QED
      BY <1>2, <1>4, <1>6, <3>1
  <2> QED
    BY <1>4, <1>6, <2>1 DEF Lies
<1>8. \A l \in Lists : Linked(h, l, c[l])
  BY <1>6 DEF Linked
<1>9. Chained(h, c)
  BY <1>4, <1>5, <1>7, <1>8 DEF Chained
<1>10. Sound(heap)
  BY <1>3, <1>9, ChainsAre
<1>11. \A l \in Lists : Contents(heap)[l] = <<>>
  <2>1. ASSUME NEW l \in Lists PROVE Contents(heap)[l] = <<>>
    <3>1. PICK s \in Seq(Values) : s = Contents(heap)[l] /\ Len(s) = heap.len[l]
      BY <1>10, SoundHeap
    <3>2. Len(s) = 0
      BY <1>3, <1>6, <3>1
    <3> QED
      BY <3>1, <3>2, EmptySeq
  <2> QED
    BY <2>1
<1>12. Contents(heap) = [l \in Lists |-> <<>>]
  BY <1>11 DEF Contents
<1>13. S!Init
  BY <1>12 DEF Init, S!Init, Call, S!Call
<1>14. Loops
  BY DEF Init, Loops, NoLoop
<1>15. Kept(<<>>, <<>>, {}, "none", 0)
  BY DEF Kept, Occurs
<1>16. Kept(Contents(heap)[clients], Contents(heap)[clientsToClose], toClose, loop.op, loop.at)
  BY <1>11, <1>15, ListsAssumption DEF Init, NoLoop
<1> QED
  BY <1>10, <1>13, <1>14, <1>16 DEF IInv

LEMMA LibraryKeeps ==
  ASSUME IInv, Idle, NEW l \in Others, NEW q,
         Sound(heap'), Contents(heap') = [Contents(heap) EXCEPT ![l] = q], Done
  PROVE  IInv'
<1>1. loop' = NoLoop /\ loop = NoLoop /\ toClose' = toClose
  BY DEF Idle, Done
<1>2. Loops'
  BY <1>1 DEF Loops, NoLoop
<1>3. l # clients /\ l # clientsToClose /\ clients \in Lists /\ clientsToClose \in Lists
  BY ListsAssumption DEF Others
<1>4. DOMAIN Contents(heap) = Lists
  BY SoundHeap, <1>3 DEF IInv
<1>5. /\ Contents(heap')[clients] = Contents(heap)[clients]
      /\ Contents(heap')[clientsToClose] = Contents(heap)[clientsToClose]
  BY <1>3, <1>4
<1> QED
  BY <1>1, <1>2, <1>5 DEF IInv

LEMMA Inserts ==
  ASSUME NEW l \in Lists, NEW i \in Nat, NEW v \in Values, NEW place, NEW op,
         \/ op = "listAddNodeHead" /\ place = 1
         \/ op = "listAddNodeTail" /\ place = Len(Contents(heap)[l]) + 1
         \/ op = "listInsertNode before" /\ i \in 1 .. Len(Contents(heap)[l]) /\ place = i
         \/ op = "listInsertNode after" /\ i \in 1 .. Len(Contents(heap)[l]) /\ place = i + 1,
         Contents(heap') = [Contents(heap) EXCEPT ![l] = S!InsertAt(Contents(heap)[l], place, v)],
         call' = Call(op, l, i, v, None)
  PROVE  S!Next
<1>1. call'.op = op /\ call'.at = i /\ call' = S!Call(call'.op, l, call'.at, v, None)
  BY DEF Call, S!Call
<1>2. S!Insert(l, place, v)
  BY DEF S!Insert
<1>3. v \in Values \cup {None} /\ None \in Lists \cup {None}
  OBVIOUS
<1> QED
  BY <1>1, <1>2, <1>3 DEF S!Next

LEMMA Deletes ==
  ASSUME NEW l \in Lists, NEW i \in 1 .. Len(Contents(heap)[l]),
         Contents(heap') = [Contents(heap) EXCEPT ![l] = S!RemoveAt(Contents(heap)[l], i)],
         call' = Call("listDelNode", l, i, None, None)
  PROVE  S!Next
<1>1. call'.op = "listDelNode" /\ call'.at = i /\ call' = S!Call(call'.op, l, call'.at, None, None)
  BY DEF Call, S!Call
<1>2. S!Delete(l, i)
  BY DEF S!Delete
<1> QED
  BY <1>1, <1>2 DEF S!Next

LEMMA Copies ==
  ASSUME NEW l \in Lists, NEW m \in Lists, l # m, NEW i \in 1 .. Len(Contents(heap)[l]),
         \/ i = 1
         \/ call.op = "listDup" /\ call.list = l /\ call.to = m /\ call.at = i - 1,
         NEW v \in Values, v = Contents(heap)[l][i],
         Contents(heap') = [Contents(heap) EXCEPT ![m] = Append(Contents(heap)[m], v)],
         call' = Call("listDup", l, i, v, m)
  PROVE  S!Next
<1>1. call'.op = "listDup" /\ call'.at = i /\ call' = S!Call(call'.op, l, call'.at, v, m)
  BY DEF Call, S!Call
<1>2. S!Copy(l, i, m)
  BY DEF S!Copy
<1> QED
  BY <1>1, <1>2 DEF S!Next

LEMMA Moves ==
  ASSUME NEW l \in Lists, NEW m \in Lists, l # m, NEW i \in 1 .. Len(Contents(heap)[l]),
         NEW v \in Values, v = Contents(heap)[l][i],
         Contents(heap') = [Contents(heap) EXCEPT ![l] = S!RemoveAt(Contents(heap)[l], i),
                                                  ![m] = Append(Contents(heap)[m], v)],
         call' = Call("closeClients", l, i, v, m)
  PROVE  S!Next
<1>1. call'.op = "closeClients" /\ call'.at = i /\ call' = S!Call(call'.op, l, call'.at, v, m)
  BY DEF Call, S!Call
<1>2. S!Move(l, i, m)
  BY DEF S!Move
<1> QED
  BY <1>1, <1>2 DEF S!Next

(***************************************************************************)
(* The library.                                                            *)
(***************************************************************************)
LEMMA AddNodeHeadHolds ==
  ASSUME IInv, NEW l \in Others, NEW node \in Free, NEW v \in Values, AddNodeHead(l, node, v)
  PROVE  IInv' /\ Steps
<1>1. l \in Lists /\ node \in Nodes \ heap.used /\ Sound(heap) /\ Idle /\ Done
  BY DEF Others, Free, IInv, AddNodeHead, Takes
<1>2. Inserted(heap, heap', l, 1, v)
  BY <1>1, HeadInserts DEF AddNodeHead
<1>3. Sound(heap')
  BY <1>2 DEF Inserted
<1>4. Contents(heap') = [Contents(heap) EXCEPT ![l] = S!InsertAt(Contents(heap)[l], 1, v)]
  BY <1>2 DEF Inserted
<1>5. IInv'
  BY <1>1, <1>3, <1>4, LibraryKeeps
<1>6. call' = Call("listAddNodeHead", l, 0, v, None)
  BY DEF AddNodeHead
<1>7. S!Next
  BY <1>1, <1>4, <1>6, Inserts
<1> QED
  BY <1>5, <1>7 DEF Steps

LEMMA AddNodeTailHolds ==
  ASSUME IInv, NEW l \in Others, NEW node \in Free, NEW v \in Values, AddNodeTail(l, node, v)
  PROVE  IInv' /\ Steps
<1>1. l \in Lists /\ node \in Nodes \ heap.used /\ Sound(heap) /\ Idle /\ Done
  BY DEF Others, Free, IInv, AddNodeTail, Takes
<1>2. Inserted(heap, heap', l, heap.len[l] + 1, v)
  BY <1>1, TailInserts DEF AddNodeTail
<1>3. Sound(heap')
  BY <1>2 DEF Inserted
<1>4. Contents(heap') =
        [Contents(heap) EXCEPT ![l] = S!InsertAt(Contents(heap)[l], heap.len[l] + 1, v)]
  BY <1>2 DEF Inserted
<1>5. IInv'
  BY <1>1, <1>3, <1>4, LibraryKeeps
<1>6. call' = Call("listAddNodeTail", l, 0, v, None)
  BY DEF AddNodeTail
<1>7. heap.len[l] + 1 = Len(Contents(heap)[l]) + 1
  BY <1>1, SoundHeap
<1>8. S!Next
  BY <1>1, <1>4, <1>6, <1>7, Inserts
<1> QED
  BY <1>5, <1>8 DEF Steps

LEMMA InsertNodeHolds ==
  ASSUME IInv, NEW l \in Others, NEW i \in 1 .. heap.len[l], NEW node \in Free, NEW v \in Values,
         NEW after \in BOOLEAN, InsertNode(l, i, node, v, after)
  PROVE  IInv' /\ Steps
<1>1. l \in Lists /\ node \in Nodes \ heap.used /\ Sound(heap) /\ Idle /\ Done
  BY DEF Others, Free, IInv, InsertNode, Takes
<1>2. PICK at : at = IF after THEN i + 1 ELSE i
  OBVIOUS
<1>3. Inserted(heap, heap', l, at, v)
  BY <1>1, <1>2, InsertInserts DEF InsertNode
<1>4. Sound(heap')
  BY <1>3 DEF Inserted
<1>5. Contents(heap') = [Contents(heap) EXCEPT ![l] = S!InsertAt(Contents(heap)[l], at, v)]
  BY <1>3 DEF Inserted
<1>6. IInv'
  BY <1>1, <1>4, <1>5, LibraryKeeps
<1>7. PICK op : op = IF after THEN "listInsertNode after" ELSE "listInsertNode before"
  OBVIOUS
<1>8. call' = Call(op, l, i, v, None)
  BY <1>7 DEF InsertNode
<1>9. i \in Nat /\ i \in 1 .. Len(Contents(heap)[l])
  BY <1>1, SoundHeap
<1>10. \/ op = "listInsertNode before" /\ i \in 1 .. Len(Contents(heap)[l]) /\ at = i
       \/ op = "listInsertNode after" /\ i \in 1 .. Len(Contents(heap)[l]) /\ at = i + 1
  BY <1>2, <1>7, <1>9
<1>11. S!Next
  BY <1>1, <1>5, <1>8, <1>9, <1>10, Inserts
<1> QED
  BY <1>6, <1>11 DEF Steps

LEMMA DelNodeHolds ==
  ASSUME IInv, NEW l \in Others, NEW i \in 1 .. heap.len[l], DelNode(l, i)
  PROVE  IInv' /\ Steps
<1>1. l \in Lists /\ Sound(heap) /\ Idle /\ Done
  BY DEF Others, IInv, DelNode
<1>2. Removed(heap, heap', l, i)
  BY <1>1, DelRemoves DEF DelNode
<1>3. Sound(heap')
  BY <1>2 DEF Removed
<1>4. Contents(heap') = [Contents(heap) EXCEPT ![l] = S!RemoveAt(Contents(heap)[l], i)]
  BY <1>2 DEF Removed
<1>5. IInv'
  BY <1>1, <1>3, <1>4, LibraryKeeps
<1>6. call' = Call("listDelNode", l, i, None, None)
  BY DEF DelNode
<1>7. i \in 1 .. Len(Contents(heap)[l])
  BY <1>1, SoundHeap
<1>8. S!Next
  BY <1>1, <1>4, <1>6, <1>7, Deletes
<1> QED
  BY <1>5, <1>8 DEF Steps

LEMMA RotateHolds ==
  ASSUME IInv, NEW l \in Others, Rotate(l)
  PROVE  IInv' /\ Steps
<1>1. l \in Lists /\ Sound(heap) /\ Idle /\ Done
  BY DEF Others, IInv, Rotate
<1>2. PICK s : s = Contents(heap)[l]
  OBVIOUS
<1>3. PICK q : q = IF s = <<>> THEN s ELSE <<S!Last(s)>> \o S!Front(s)
  OBVIOUS
<1>4. Sound(heap') /\ Contents(heap') = [Contents(heap) EXCEPT ![l] = q]
  BY <1>1, <1>2, <1>3, RotateRotates DEF Rotate
<1>5. IInv'
  BY <1>1, <1>4, LibraryKeeps
<1>6. call' = Call("listRotate", l, 0, None, None)
  BY DEF Rotate
<1>7. call'.op = "listRotate" /\ call'.at = 0 /\ call' = S!Call(call'.op, l, call'.at, None, None)
  BY <1>6 DEF Call, S!Call
<1>8. S!Rotate(l)
  BY <1>2, <1>3, <1>4 DEF S!Rotate
<1>9. S!Next
  BY <1>1, <1>7, <1>8 DEF S!Next
<1> QED
  BY <1>5, <1>9 DEF Steps

LEMMA ReleaseHolds ==
  ASSUME IInv, NEW l \in Others, Release(l)
  PROVE  IInv' /\ Steps
<1>1. l \in Lists /\ Sound(heap) /\ Idle /\ Done
  BY DEF Others, IInv, Release
<1>2. Sound(heap') /\ Contents(heap') = [Contents(heap) EXCEPT ![l] = <<>>]
  BY <1>1, ReleaseReleases DEF Release
<1>3. IInv'
  BY <1>1, <1>2, LibraryKeeps
<1>4. call' = Call("listRelease", l, 0, None, None)
  BY DEF Release
<1>5. call'.op = "listRelease" /\ call'.at = 0 /\ call' = S!Call(call'.op, l, call'.at, None, None)
  BY <1>4 DEF Call, S!Call
<1>6. S!Clear(l)
  BY <1>2 DEF S!Clear
<1>7. S!Next
  BY <1>1, <1>5, <1>6 DEF S!Next
<1> QED
  BY <1>3, <1>7 DEF Steps

(***************************************************************************)
(* The loops and the server.                                               *)
(***************************************************************************)
\* The place where a loop is that has a node.
LEMMA AtPlace ==
  ASSUME IInv, loop.op \in {"listDup", "mark"}, loop.node # NULL
  PROVE  /\ loop.from \in Lists /\ loop.to \in Lists /\ loop.from # loop.to
         /\ loop.at \in 1 .. heap.len[loop.from]
         /\ heap.len[loop.from] \in Nat
         /\ Len(Contents(heap)[loop.from]) = heap.len[loop.from]
         /\ loop.node = Chain(heap, loop.from)[loop.at]
         /\ heap.value[loop.node] = Contents(heap)[loop.from][loop.at]
         /\ heap.value[loop.node] \in Values
         /\ heap.next[loop.node] \in Nodes \cup {NULL}
         /\ heap.next[loop.node] = IF loop.at = heap.len[loop.from] THEN NULL
                                   ELSE Chain(heap, loop.from)[loop.at + 1]
<1>1. /\ loop.from \in Lists /\ loop.to \in Lists /\ loop.from # loop.to
      /\ loop.at \in 1 .. heap.len[loop.from] + 1
      /\ loop.node = IF loop.at = heap.len[loop.from] + 1 THEN NULL
                     ELSE Chain(heap, loop.from)[loop.at]
  BY DEF IInv, Loops
<1>2. PICK l \in Lists : l = loop.from
  BY <1>1
<1>3. PICK n \in Nat : n = heap.len[l]
  BY SoundHeap DEF IInv
<1>4. PICK i \in 1 .. n : i = loop.at
  BY <1>1, <1>2, <1>3
<1>5. loop.node = Chain(heap, l)[i]
  BY <1>1, <1>2, <1>3, <1>4
<1>6. PICK s \in Seq(Values) : s = Contents(heap)[l] /\ Len(s) = n
  BY <1>3, SoundHeap DEF IInv
<1>7. s[i] = heap.value[loop.node] /\ s[i] \in Values
  <2>1. Contents(heap)[l][i] = heap.value[Chain(heap, l)[i]]
    BY <1>3, <1>4, SoundHeap DEF IInv
  <2> QED
    BY <1>4, <1>5, <1>6, <2>1, ElementOfSeq
<1>8. Linked(heap, l, Chain(heap, l))
  BY SoundHeap DEF IInv
<1>9. heap.next[loop.node] = IF i = n THEN NULL ELSE Chain(heap, l)[i + 1]
  BY <1>3, <1>4, <1>5, <1>8 DEF Linked
<1>10. heap.next[loop.node] \in Nodes \cup {NULL}
  <2>1. Chain(heap, l) \in [1 .. n -> heap.used] /\ heap.used \subseteq Nodes
    BY <1>3, SoundHeap DEF IInv
  <2>2. CASE i = n
    BY <1>9, <2>2
  <2>3. CASE i # n
    <3>1. i + 1 \in 1 .. n
      BY <1>4, <2>3
    <3> QED
      BY <1>9, <2>1, <2>3, <3>1
  <2> QED
    BY <2>2, <2>3
<1> QED
  BY <1>1, <1>2, <1>3, <1>4, <1>5, <1>6, <1>7, <1>9, <1>10

LEMMA BeginsHolds ==
  ASSUME IInv, NEW op \in {"listDup", "mark"}, NEW l \in Lists, NEW m \in Lists, l # m,
         op = "listDup" => m \in Others,
         op = "mark" => l = clients /\ m = clientsToClose,
         Begins(op, l, m)
  PROVE  IInv' /\ Steps
<1>1. /\ Sound(heap) /\ heap' = heap /\ toClose' = toClose /\ call' = call
      /\ loop' = [op |-> op, from |-> l, to |-> m, node |-> heap.head[l], at |-> 1]
      /\ loop.op = "none"
  BY DEF IInv, Begins, Idle, NoLoop
<1>2. PICK n \in Nat : n = heap.len[l]
  BY <1>1, SoundHeap
<1>3. /\ heap.head[l] = (IF n = 0 THEN NULL ELSE Chain(heap, l)[1])
      /\ heap.head[l] \in Nodes \cup {NULL}
  <2>1. Linked(heap, l, Chain(heap, l)) /\ heap \in Heap
    BY <1>1, SoundHeap
  <2>2. heap.head[l] = (IF n = 0 THEN NULL ELSE Chain(heap, l)[1])
    BY <1>2, <2>1 DEF Linked
  <2>3. heap.head[l] \in Nodes \cup {NULL}
    BY <2>1 DEF Heap
  <2> QED
    BY <2>2, <2>3
<1>4. Loops'
  <2>1. /\ loop'.op = op /\ loop'.from = l /\ loop'.to = m /\ loop'.node = heap.head[l]
        /\ loop'.at = 1
        /\ loop' \in [op : {"none", "listDup", "mark", "close"}, from : Lists \cup {None},
                      to : Lists \cup {None}, node : Nodes \cup {NULL}, at : Nat]
    BY <1>1, <1>3
  <2>2. 1 \in 1 .. n + 1 /\ (1 = n + 1 <=> n = 0)
    OBVIOUS
  <2>3. heap'.len[l] = n /\ Chain(heap, l)' = Chain(heap', l) /\ heap' = heap
    BY <1>1, <1>2
  <2> QED
    BY <1>1, <1>2, <1>3, <2>1, <2>2, <2>3 DEF Loops
<1>5. Kept(Contents(heap)[clients], Contents(heap)[clientsToClose], toClose, "none", loop.at)
  BY <1>1 DEF IInv
<1>6. Kept(Contents(heap)[clients], Contents(heap)[clientsToClose], toClose, op, 1)
  BY <1>5, KeptBegins
<1>7. IInv'
  BY <1>1, <1>4, <1>6 DEF IInv
<1> QED
  BY <1>1, <1>7 DEF Steps

LEMMA DupTurnHolds ==
  ASSUME IInv, NEW node \in Free, DupTurn(node)
  PROVE  IInv' /\ Steps
<1>1. /\ loop.op = "listDup" /\ loop.node # NULL /\ toClose' = toClose
      /\ node \in Nodes \ heap.used /\ Sound(heap) /\ Loops
  BY DEF IInv, DupTurn, Free
<1>2. PICK l \in Lists, m \in Lists, n \in Nat : l = loop.from /\ m = loop.to /\ n = heap.len[l]
  BY <1>1, AtPlace
<1>3. PICK i \in 1 .. n : i = loop.at
  BY <1>1, <1>2, AtPlace
<1>4. PICK v \in Values : v = heap.value[loop.node] /\ v = Contents(heap)[l][i]
  BY <1>1, <1>2, <1>3, AtPlace
<1>5. PICK x \in Nodes \cup {NULL} : x = heap.next[loop.node] /\ x = IF i = n THEN NULL ELSE Chain(heap, l)[i + 1]
  BY <1>1, <1>2, <1>3, AtPlace
<1>6. l # m /\ Len(Contents(heap)[l]) = n
  BY <1>1, <1>2, AtPlace
<1>7. /\ m \in Others
      /\ i # 1 => call.op = "listDup" /\ call.list = l /\ call.to = m /\ call.at = i - 1
  BY <1>1, <1>2, <1>3 DEF Loops
<1>8. Inserted(heap, heap', m, heap.len[m] + 1, v)
  <2>1. heap' = listAddNodeTail(listCreateNode(heap, node, v), m, node)
    BY <1>2, <1>4 DEF DupTurn
  <2> QED
    BY <1>1, <2>1, TailInserts
<1>9. Sound(heap') /\ Chain(heap', l) = Chain(heap, l) /\ heap'.len = [heap.len EXCEPT ![m] = heap.len[m] + 1]
  BY <1>6, <1>8 DEF Inserted
<1>10. heap'.len[l] = n
  <2>1. heap \in Heap
    BY <1>1, SoundHeap
  <2>2. heap.len \in [Lists -> Nat]
    BY <2>1 DEF Heap
  <2> QED
    BY <1>2, <1>6, <1>9, <2>2
<1>11. PICK s \in Seq(Values) : s = Contents(heap)[m] /\ Len(s) = heap.len[m]
  BY <1>1, SoundHeap
<1>12. Contents(heap') = [Contents(heap) EXCEPT ![m] = Append(Contents(heap)[m], v)]
  <2>1. Contents(heap') = [Contents(heap) EXCEPT ![m] = S!InsertAt(Contents(heap)[m], heap.len[m] + 1, v)]
    BY <1>8 DEF Inserted
  <2>2. S!InsertAt(s, Len(s) + 1, v) = Append(s, v)
    BY InsertedLast
  <2> QED
    BY <1>11, <2>1, <2>2
<1>13. /\ loop'.op = "listDup" /\ loop'.from = l /\ loop'.to = m /\ loop'.node = x
       /\ loop'.at = i + 1
       /\ loop' \in [op : {"none", "listDup", "mark", "close"}, from : Lists \cup {None},
                     to : Lists \cup {None}, node : Nodes \cup {NULL}, at : Nat]
  <2>1. loop' = [loop EXCEPT !.node = x, !.at = i + 1]
    BY <1>3, <1>5 DEF DupTurn
  <2>2. loop \in [op : {"none", "listDup", "mark", "close"}, from : Lists \cup {None},
                  to : Lists \cup {None}, node : Nodes \cup {NULL}, at : Nat]
    BY <1>1 DEF Loops
  <2>3. i + 1 \in Nat
    BY <1>3
  <2> QED
    BY <1>1, <1>2, <1>3, <2>1, <2>2, <2>3
<1>14. call' = Call("listDup", l, i, v, m)
  BY <1>2, <1>3, <1>4 DEF DupTurn
<1>15. Loops'
  <2>1. i + 1 \in 1 .. n + 1 /\ (i + 1 = n + 1 <=> i = n) /\ i = (i + 1) - 1
    BY <1>3
  <2>2. call'.op = "listDup" /\ call'.list = l /\ call'.to = m /\ call'.at = i
    BY <1>14 DEF Call
  <2>3. loop'.node = IF loop'.at = heap'.len[loop'.from] + 1 THEN NULL
                     ELSE Chain(heap', loop'.from)[loop'.at]
    BY <1>5, <1>9, <1>10, <1>13, <2>1
  <2>4. loop'.at \in 1 .. heap'.len[loop'.from] + 1 /\ call'.at = loop'.at - 1
    BY <1>10, <1>13, <2>1, <2>2
  <2> QED
    BY <1>6, <1>7, <1>13, <2>2, <2>3, <2>4 DEF Loops
<1>16. Kept(Contents(heap')[clients], Contents(heap')[clientsToClose], toClose', loop'.op, loop'.at)
  <2>1. /\ Contents(heap')[clients] = Contents(heap)[clients]
        /\ Contents(heap')[clientsToClose] = Contents(heap)[clientsToClose]
    <3>1. m # clients /\ m # clientsToClose /\ clients \in Lists /\ clientsToClose \in Lists
      BY <1>7, ListsAssumption DEF Others
    <3>2. DOMAIN Contents(heap) = Lists
      BY <1>1, SoundHeap
    <3> QED
      BY <1>12, <3>1, <3>2
  <2>2. Kept(Contents(heap)[clients], Contents(heap)[clientsToClose], toClose, "listDup", loop.at)
    BY <1>1 DEF IInv
  <2> QED
    BY <1>1, <1>13, <2>1, <2>2 DEF Kept
<1>17. IInv'
  BY <1>9, <1>15, <1>16 DEF IInv
<1>18. S!Next
  BY <1>4, <1>6, <1>7, <1>12, <1>14, Copies
<1> QED
  BY <1>17, <1>18 DEF Steps

LEMMA LoopEnds ==
  ASSUME IInv, loop' = NoLoop \/ loop' = [NoLoop EXCEPT !.op = "close"],
         UNCHANGED <<heap, toClose, call>>,
         Kept(Contents(heap)[clients], Contents(heap)[clientsToClose], toClose, loop'.op, loop'.at)
  PROVE  IInv' /\ Steps
<1>1. Loops'
  BY DEF Loops, NoLoop
<1>2. IInv'
  BY <1>1 DEF IInv
<1> QED
  BY <1>2 DEF Steps

LEMMA DupEndsHolds ==
  ASSUME IInv, DupEnds
  PROVE  IInv' /\ Steps
<1>1. Kept(Contents(heap)[clients], Contents(heap)[clientsToClose], toClose, "listDup", loop.at)
  BY DEF IInv, DupEnds
<1>2. Kept(Contents(heap)[clients], Contents(heap)[clientsToClose], toClose, "none", 0)
  BY <1>1 DEF Kept
<1> QED
  BY <1>2, LoopEnds DEF DupEnds, NoLoop

LEMMA ValuesAre ==
  ASSUME Sound(heap), NEW l \in Lists
  PROVE  ValuesOf(l) = {Contents(heap)[l][i] : i \in 1 .. Len(Contents(heap)[l])}
<1>1. \A i \in 1 .. heap.len[l] : Contents(heap)[l][i] = heap.value[Chain(heap, l)[i]]
  BY SoundHeap
<1>2. Len(Contents(heap)[l]) = heap.len[l]
  BY SoundHeap
<1> QED
  BY <1>1, <1>2 DEF ValuesOf

LEMMA acceptTcpHandlerHolds ==
  ASSUME IInv, NEW node \in Free, NEW c \in Values, acceptTcpHandler(node, c)
  PROVE  IInv' /\ Steps
<1>1. /\ node \in Nodes \ heap.used /\ Sound(heap) /\ loop = NoLoop /\ loop.op = "none"
      /\ loop' = loop /\ toClose' = toClose /\ c \notin ValuesOf(clients)
      /\ heap' = listAddNodeTail(listCreateNode(heap, node, c), clients, node)
      /\ call' = Call("listAddNodeTail", clients, 0, c, None)
  BY DEF Free, IInv, acceptTcpHandler, AddNodeTail, Takes, Idle, NoLoop, Done
<1>2. clients \in Lists /\ clientsToClose \in Lists /\ clients # clientsToClose
  BY ListsAssumption
<1>3. PICK s \in Seq(Values) : s = Contents(heap)[clients] /\ Len(s) = heap.len[clients]
  BY <1>1, <1>2, SoundHeap
<1>4. PICK q \in Seq(Values) : q = Contents(heap)[clientsToClose]
  BY <1>1, <1>2, SoundHeap
<1>5. Inserted(heap, heap', clients, Len(s) + 1, c)
  BY <1>1, <1>2, <1>3, TailInserts
<1>6. /\ Sound(heap')
      /\ Contents(heap') =
           [Contents(heap) EXCEPT ![clients] = S!InsertAt(Contents(heap)[clients], Len(s) + 1, c)]
  BY <1>5 DEF Inserted
<1>7. S!InsertAt(s, Len(s) + 1, c) = Append(s, c)
  BY InsertedLast
<1>8. Contents(heap')[clients] = Append(s, c) /\ Contents(heap')[clientsToClose] = q
  <2>1. DOMAIN Contents(heap) = Lists
    BY <1>1, <1>2, SoundHeap
  <2> QED
    BY <1>2, <1>3, <1>4, <1>6, <1>7, <2>1
<1>9. \A i \in 1 .. Len(s) : s[i] # c
  BY <1>1, <1>2, <1>3, ValuesAre
<1>10. Kept(s, q, toClose, "none", loop.at)
  BY <1>1, <1>3, <1>4 DEF IInv
<1>11. Kept(Append(s, c), q, toClose, "none", loop.at)
  BY <1>9, <1>10, KeptArrives
<1>12. Loops'
  BY <1>1 DEF Loops, NoLoop
<1>13. IInv'
  BY <1>1, <1>6, <1>8, <1>11, <1>12 DEF IInv
<1>14. S!Next
  <2>1. Len(s) + 1 = Len(Contents(heap)[clients]) + 1
    BY <1>3
  <2> QED
    BY <1>1, <1>2, <1>6, <2>1, Inserts
<1> QED
  BY <1>13, <1>14 DEF Steps

LEMMA clientTocloseHolds ==
  ASSUME IInv, NEW c \in Values, clientToclose(c)
  PROVE  IInv' /\ Steps
<1>1. /\ loop = NoLoop /\ loop.op = "none" /\ toClose' = toClose \cup {c}
      /\ heap' = heap /\ loop' = loop /\ call' = call
  BY DEF clientToclose, Idle, NoLoop
<1>2. Loops'
  BY <1>1 DEF Loops, NoLoop
<1>3. Kept(Contents(heap)[clients], Contents(heap)[clientsToClose], toClose, "none", loop.at)
  BY <1>1 DEF IInv
<1>4. Kept(Contents(heap)[clients], Contents(heap)[clientsToClose], toClose \cup {c}, "none", loop.at)
  BY <1>3, KeptMarks
<1>5. IInv'
  BY <1>1, <1>2, <1>4 DEF IInv
<1> QED
  BY <1>1, <1>5 DEF Steps

LEMMA DropFlagsHolds ==
  ASSUME IInv, NEW c \in Values, DropFlags(c)
  PROVE  IInv' /\ Steps
<1>1. /\ loop = NoLoop /\ loop.op = "none" /\ toClose' = toClose \ {c}
      /\ heap' = heap /\ loop' = loop /\ call' = call
  BY DEF DropFlags, Idle, NoLoop
<1>2. Loops'
  BY <1>1 DEF Loops, NoLoop
<1>3. Kept(Contents(heap)[clients], Contents(heap)[clientsToClose], toClose, "none", loop.at)
  BY <1>1 DEF IInv
<1>4. Kept(Contents(heap)[clients], Contents(heap)[clientsToClose], toClose \ {c}, "none", loop.at)
  BY <1>3, KeptDrops
<1>5. IInv'
  BY <1>1, <1>2, <1>4 DEF IInv
<1> QED
  BY <1>1, <1>5 DEF Steps

LEMMA MarkTurnHolds ==
  ASSUME IInv, NEW node \in Free, MarkTurn(node)
  PROVE  IInv' /\ Steps
<1>1. /\ loop.op = "mark" /\ loop.node # NULL /\ toClose' = toClose
      /\ node \in Nodes \ heap.used /\ Sound(heap) /\ Loops
  BY DEF IInv, MarkTurn, Free
<1>2. PICK l \in Lists, m \in Lists, n \in Nat : l = loop.from /\ m = loop.to /\ n = heap.len[l]
  BY <1>1, AtPlace
<1>3. PICK i \in 1 .. n : i = loop.at
  BY <1>1, <1>2, AtPlace
<1>4. PICK v \in Values : v = heap.value[loop.node] /\ v = Contents(heap)[l][i]
  BY <1>1, <1>2, <1>3, AtPlace
<1>5. PICK x \in Nodes \cup {NULL} : x = heap.next[loop.node] /\ x = IF i = n THEN NULL ELSE Chain(heap, l)[i + 1]
  BY <1>1, <1>2, <1>3, AtPlace
<1>6. l # m /\ l = clients /\ m = clientsToClose
  BY <1>1, <1>2, AtPlace DEF Loops
<1>7. PICK c : c = Chain(heap, l)
  OBVIOUS
<1>8. c[i] = loop.node
  BY <1>1, <1>2, <1>3, <1>7, AtPlace
<1>9. PICK s \in Seq(Values) : s = Contents(heap)[l] /\ Len(s) = n
  BY <1>1, <1>2, SoundHeap
<1>10. PICK q \in Seq(Values) : q = Contents(heap)[m] /\ Len(q) = heap.len[m]
  BY <1>1, SoundHeap
<1>11. v = s[i] /\ v \in toClose
  BY <1>4, <1>9 DEF MarkTurn
<1>12. PICK g : g = listAddNodeTail(listCreateNode(heap, node, v), m, node)
  OBVIOUS
<1>13. heap' = listDelNode(g, l, c[i])
  BY <1>2, <1>4, <1>8, <1>12 DEF MarkTurn
<1>14. Inserted(heap, g, m, Len(q) + 1, v)
  BY <1>1, <1>10, <1>12, TailInserts
<1>15. /\ Sound(g) /\ Chain(g, l) = c /\ g.len = [heap.len EXCEPT ![m] = heap.len[m] + 1]
       /\ Contents(g) = [Contents(heap) EXCEPT ![m] = S!InsertAt(Contents(heap)[m], Len(q) + 1, v)]
  BY <1>6, <1>7, <1>14 DEF Inserted
<1>16. DOMAIN Contents(heap) = Lists
  BY <1>1, <1>2, SoundHeap
<1>17. Contents(g) = [Contents(heap) EXCEPT ![m] = Append(q, v)] /\ Contents(g)[l] = s
  <2>1. S!InsertAt(q, Len(q) + 1, v) = Append(q, v)
    BY InsertedLast
  <2> QED
    BY <1>6, <1>9, <1>10, <1>15, <1>16, <2>1
<1>18. g.len[l] = n
  <2>1. Sound(g)
    BY <1>15
  <2>2. Len(Contents(g)[l]) = g.len[l]
    BY <2>1, SoundHeap
  <2> QED
    BY <1>9, <1>17, <2>2
<1>19. Removed(g, heap', l, i)
  BY <1>13, <1>15, <1>18, DelRemoves
<1>20. /\ Sound(heap')
       /\ Contents(heap') = [Contents(g) EXCEPT ![l] = S!RemoveAt(s, i)]
       /\ Chain(heap', l) = Drop(c, n, i)
  BY <1>15, <1>17, <1>18, <1>19 DEF Removed
<1>21. PICK r : r = S!RemoveAt(s, i)
  OBVIOUS
<1>22. PICK w : w = Append(q, v)
  OBVIOUS
<1>23. Contents(heap') = [Contents(heap) EXCEPT ![l] = r, ![m] = w]
  <2>1. PICK k : k = Contents(heap)
    OBVIOUS
  <2>2. Contents(heap') = [[k EXCEPT ![m] = w] EXCEPT ![l] = r] /\ DOMAIN k = Lists
    BY <1>16, <1>17, <1>20, <1>21, <1>22, <2>1
  <2>3. [[k EXCEPT ![m] = w] EXCEPT ![l] = r] = [k EXCEPT ![l] = r, ![m] = w]
    BY <1>6, <2>2
  <2> QED
    BY <2>1, <2>2, <2>3
<1>24. Contents(heap')[clients] = r /\ Contents(heap')[clientsToClose] = w
  BY <1>6, <1>16, <1>23
<1>25. heap'.len[l] = n - 1
  <2>1. Len(r) = n - 1
    BY <1>9, <1>21, RemovedSeq
  <2> QED
    BY <1>6, <1>20, <1>24, <2>1, SoundHeap
<1>26. /\ loop'.op = "mark" /\ loop'.from = l /\ loop'.to = m /\ loop'.node = x /\ loop'.at = i
       /\ loop' \in [op : {"none", "listDup", "mark", "close"}, from : Lists \cup {None},
                     to : Lists \cup {None}, node : Nodes \cup {NULL}, at : Nat]
  <2>1. loop' = [loop EXCEPT !.node = x]
    BY <1>5 DEF MarkTurn
  <2>2. loop \in [op : {"none", "listDup", "mark", "close"}, from : Lists \cup {None},
                  to : Lists \cup {None}, node : Nodes \cup {NULL}, at : Nat]
    BY <1>1 DEF Loops
  <2> QED
    BY <1>1, <1>2, <1>3, <2>1, <2>2
<1>27. Loops'
  <2>1. loop'.at \in 1 .. heap'.len[loop'.from] + 1
    BY <1>25, <1>26
  <2>2. x = IF i = (n - 1) + 1 THEN NULL ELSE Drop(c, n, i)[i]
    <3>1. CASE i = n
      BY <1>5, <3>1
    <3>2. CASE i # n
      <4>1. i \in 1 .. n - 1 /\ ~(i < i)
        BY <3>2
      <4>2. Drop(c, n, i)[i] = c[i + 1]
        BY <4>1 DEF Drop
      <4> QED
        BY <1>5, <1>7, <3>2, <4>2
    <3> QED
      BY <3>1, <3>2
  <2>3. loop'.node = IF loop'.at = heap'.len[loop'.from] + 1 THEN NULL
                     ELSE Chain(heap', loop'.from)[loop'.at]
    BY <1>20, <1>25, <1>26, <2>2
  <2> QED
    BY <1>6, <1>26, <2>1, <2>3 DEF Loops
<1>28. Kept(r, w, toClose, "mark", i)
  <2>1. Kept(s, q, toClose, "mark", i)
    BY <1>1, <1>3, <1>6, <1>9, <1>10 DEF IInv
  <2>2. i \in 1 .. Len(s) /\ s[i] \in toClose
    BY <1>9, <1>11
  <2> QED
    BY <1>11, <1>21, <1>22, <2>1, <2>2, KeptMoves
<1>29. IInv'
  BY <1>1, <1>20, <1>24, <1>26, <1>27, <1>28 DEF IInv
<1>30. S!Next
  <2>1. call' = Call("closeClients", l, i, v, m)
    BY <1>2, <1>3, <1>4 DEF MarkTurn
  <2>2. Contents(heap') = [Contents(heap) EXCEPT ![l] = S!RemoveAt(Contents(heap)[l], i),
                                                 ![m] = Append(Contents(heap)[m], v)]
    BY <1>9, <1>10, <1>21, <1>22, <1>23
  <2>3. i \in 1 .. Len(Contents(heap)[l])
    BY <1>9
  <2> QED
    BY <1>4, <1>6, <2>1, <2>2, <2>3, Moves
<1> QED
  BY <1>29, <1>30 DEF Steps

LEMMA PassTurnHolds ==
  ASSUME IInv, PassTurn
  PROVE  IInv' /\ Steps
<1>1. /\ loop.op = "mark" /\ loop.node # NULL /\ Sound(heap) /\ Loops
      /\ heap' = heap /\ toClose' = toClose /\ call' = call
  BY DEF IInv, PassTurn
<1>2. PICK l \in Lists, m \in Lists, n \in Nat : l = loop.from /\ m = loop.to /\ n = heap.len[l]
  BY <1>1, AtPlace
<1>3. PICK i \in 1 .. n : i = loop.at
  BY <1>1, <1>2, AtPlace
<1>4. PICK x \in Nodes \cup {NULL} : x = heap.next[loop.node] /\ x = IF i = n THEN NULL ELSE Chain(heap, l)[i + 1]
  BY <1>1, <1>2, <1>3, AtPlace
<1>5. l # m /\ l = clients /\ m = clientsToClose
  BY <1>1, <1>2, AtPlace DEF Loops
<1>6. /\ loop'.op = "mark" /\ loop'.from = l /\ loop'.to = m /\ loop'.node = x /\ loop'.at = i + 1
      /\ loop' \in [op : {"none", "listDup", "mark", "close"}, from : Lists \cup {None},
                    to : Lists \cup {None}, node : Nodes \cup {NULL}, at : Nat]
  <2>1. loop' = [loop EXCEPT !.node = x, !.at = i + 1]
    BY <1>3, <1>4 DEF PassTurn
  <2>2. loop \in [op : {"none", "listDup", "mark", "close"}, from : Lists \cup {None},
                  to : Lists \cup {None}, node : Nodes \cup {NULL}, at : Nat]
    BY <1>1 DEF Loops
  <2>3. i + 1 \in Nat
    BY <1>3
  <2> QED
    BY <1>1, <1>2, <1>3, <2>1, <2>2, <2>3
<1>7. Loops'
  <2>1. i + 1 \in 1 .. n + 1 /\ (i + 1 = n + 1 <=> i = n)
    BY <1>3
  <2>2. heap'.len[l] = n
    BY <1>1, <1>2
  <2>3. loop'.at \in 1 .. heap'.len[loop'.from] + 1
    BY <1>6, <2>1, <2>2
  <2>4. loop'.node = IF loop'.at = heap'.len[loop'.from] + 1 THEN NULL
                     ELSE Chain(heap', loop'.from)[loop'.at]
    BY <1>1, <1>4, <1>6, <2>1, <2>2
  <2> QED
    BY <1>5, <1>6, <2>3, <2>4 DEF Loops
<1>8. Kept(Contents(heap)[clients], Contents(heap)[clientsToClose], toClose, "mark", i + 1)
  <2>1. PICK s : s = Contents(heap)[clients]
    OBVIOUS
  <2>2. Kept(s, Contents(heap)[clientsToClose], toClose, "mark", i)
    BY <1>1, <1>3, <2>1 DEF IInv
  <2>3. s[i] \notin toClose
    <3>1. heap.value[loop.node] = Contents(heap)[l][i]
      BY <1>1, <1>2, <1>3, AtPlace
    <3> QED
      BY <1>5, <2>1, <3>1 DEF PassTurn
  <2>4. i \in Nat /\ i > 0
    BY <1>3
  <2> QED
    BY <2>1, <2>2, <2>3, <2>4, KeptPasses
<1>9. IInv'
  BY <1>1, <1>6, <1>7, <1>8 DEF IInv
<1> QED
  BY <1>1, <1>9 DEF Steps

LEMMA MarkEndsHolds ==
  ASSUME IInv, MarkEnds
  PROVE  IInv' /\ Steps
<1>1. /\ loop.op = "mark" /\ loop.node = NULL /\ Sound(heap) /\ Loops
  BY DEF IInv, MarkEnds
<1>2. clients \in Lists
  BY ListsAssumption
<1>3. PICK s \in Seq(Values) : s = Contents(heap)[clients] /\ Len(s) = heap.len[clients]
  BY <1>1, <1>2, SoundHeap
<1>4. loop.at = Len(s) + 1
  <2>1. PICK n \in Nat : n = Len(s)
    BY LenProperties
  <2>2. /\ loop.at \in 1 .. n + 1
        /\ NULL = IF loop.at = n + 1 THEN NULL ELSE Chain(heap, clients)[loop.at]
    BY <1>1, <1>3, <2>1 DEF Loops
  <2>3. ASSUME loop.at # n + 1 PROVE FALSE
    <3>1. loop.at \in 1 .. n
      BY <2>2, <2>3
    <3>2. Chain(heap, clients) \in [1 .. n -> heap.used] /\ heap.used \subseteq Nodes
      BY <1>1, <1>2, <1>3, <2>1, SoundHeap
    <3>3. Chain(heap, clients)[loop.at] \in Nodes
      BY <3>1, <3>2
    <3> QED
      BY <2>2, <2>3, <3>3, NullAssumption
  <2> QED
    BY <2>1, <2>3
<1>5. Kept(s, Contents(heap)[clientsToClose], toClose, "mark", Len(s) + 1)
  BY <1>1, <1>3, <1>4 DEF IInv
<1>6. Kept(Contents(heap)[clients], Contents(heap)[clientsToClose], toClose, "close", 0)
  BY <1>3, <1>5, KeptEnds
<1>7. loop' = [NoLoop EXCEPT !.op = "close"] /\ loop'.op = "close" /\ loop'.at = 0
  BY DEF MarkEnds, NoLoop
<1> QED
  BY <1>6, <1>7, LoopEnds DEF MarkEnds

LEMMA CloseTurnHolds ==
  ASSUME IInv, CloseTurn
  PROVE  IInv' /\ Steps
<1>1. /\ loop.op = "close" /\ heap.head[clientsToClose] # NULL /\ loop' = loop
      /\ Sound(heap) /\ Loops
      /\ call' = Call("listDelNode", clientsToClose, 1, None, None)
  BY DEF IInv, CloseTurn
<1>2. clients \in Lists /\ clientsToClose \in Lists /\ clients # clientsToClose
  BY ListsAssumption
<1>3. PICK n \in Nat : n = heap.len[clientsToClose]
  BY <1>1, <1>2, SoundHeap
<1>4. 1 \in 1 .. n /\ heap.head[clientsToClose] = Chain(heap, clientsToClose)[1]
  <2>1. Linked(heap, clientsToClose, Chain(heap, clientsToClose))
    BY <1>1, <1>2, SoundHeap
  <2>2. heap.head[clientsToClose] = (IF n = 0 THEN NULL ELSE Chain(heap, clientsToClose)[1])
    BY <1>3, <2>1 DEF Linked
  <2> QED
    BY <1>1, <2>2
<1>5. PICK s \in Seq(Values) : s = Contents(heap)[clients]
  BY <1>1, <1>2, SoundHeap
<1>6. PICK q \in Seq(Values) : q = Contents(heap)[clientsToClose] /\ Len(q) = n
  BY <1>1, <1>2, <1>3, SoundHeap
<1>7. q[1] = heap.value[heap.head[clientsToClose]]
  BY <1>1, <1>2, <1>3, <1>4, <1>6, SoundHeap
<1>8. Removed(heap, heap', clientsToClose, 1)
  BY <1>1, <1>2, <1>3, <1>4, DelRemoves DEF CloseTurn
<1>9. /\ Sound(heap')
      /\ Contents(heap') =
           [Contents(heap) EXCEPT ![clientsToClose] = S!RemoveAt(Contents(heap)[clientsToClose], 1)]
  BY <1>8 DEF Removed
<1>10. toClose' = toClose \ {q[1]}
  BY <1>7 DEF CloseTurn
<1>11. Kept(s, q, toClose, "close", loop.at)
  BY <1>1, <1>5, <1>6 DEF IInv
<1>12. Kept(s, S!RemoveAt(q, 1), toClose \ {q[1]}, "close", loop.at)
  <2>1. Len(q) # 0
    BY <1>4, <1>6
  <2> QED
    BY <1>11, <2>1, KeptFrees
<1>13. Contents(heap')[clients] = s /\ Contents(heap')[clientsToClose] = S!RemoveAt(q, 1)
  <2>1. DOMAIN Contents(heap) = Lists
    BY <1>1, <1>2, SoundHeap
  <2> QED
    BY <1>2, <1>5, <1>6, <1>9, <2>1
<1>14. Loops'
  BY <1>1 DEF Loops
<1>15. IInv'
  BY <1>1, <1>9, <1>10, <1>12, <1>13, <1>14 DEF IInv
<1>16. S!Next
  BY <1>1, <1>2, <1>4, <1>6, <1>9, Deletes
<1> QED
  BY <1>15, <1>16 DEF Steps

LEMMA CloseEndsHolds ==
  ASSUME IInv, CloseEnds
  PROVE  IInv' /\ Steps
<1>1. /\ loop.op = "close" /\ heap.head[clientsToClose] = NULL /\ Sound(heap)
      /\ loop' = NoLoop /\ UNCHANGED <<heap, toClose, call>>
  BY DEF IInv, CloseEnds
<1>2. clientsToClose \in Lists
  BY ListsAssumption
<1>3. PICK n \in Nat : n = heap.len[clientsToClose]
  BY <1>1, <1>2, SoundHeap
<1>4. n = 0
  <2>1. /\ Linked(heap, clientsToClose, Chain(heap, clientsToClose))
        /\ Chain(heap, clientsToClose) \in [1 .. n -> heap.used] /\ heap.used \subseteq Nodes
    BY <1>1, <1>2, <1>3, SoundHeap
  <2>2. NULL = (IF n = 0 THEN NULL ELSE Chain(heap, clientsToClose)[1])
    BY <1>1, <1>3, <2>1 DEF Linked
  <2>3. ASSUME n # 0 PROVE FALSE
    <3>1. 1 \in 1 .. n
      BY <2>3
    <3>2. Chain(heap, clientsToClose)[1] \in Nodes
      BY <2>1, <3>1
    <3> QED
      BY <2>2, <2>3, <3>2, NullAssumption
  <2> QED
    BY <2>3
<1>5. PICK q \in Seq(Values) : q = Contents(heap)[clientsToClose] /\ Len(q) = n
  BY <1>1, <1>2, <1>3, SoundHeap
<1>6. q = <<>>
  BY <1>4, <1>5, EmptySeq
<1>7. Kept(Contents(heap)[clients], <<>>, toClose, "close", loop.at)
  BY <1>1, <1>5, <1>6 DEF IInv
<1>8. Kept(Contents(heap)[clients], <<>>, toClose, "none", 0)
  BY <1>7, KeptCloses
<1>9. loop'.op = "none" /\ loop'.at = 0
  BY <1>1 DEF NoLoop
<1> QED
  BY <1>1, <1>5, <1>6, <1>8, <1>9, LoopEnds

(***************************************************************************)
(* The theorems.                                                           *)
(***************************************************************************)
LEMMA StepsHold == IInv /\ [Next]_vars => IInv' /\ Steps
<1> SUFFICES ASSUME IInv, [Next]_vars PROVE IInv' /\ Steps
  OBVIOUS
<1>1. CASE UNCHANGED vars
  BY <1>1 DEF vars, IInv, Loops, Steps
<1>2. CASE Library
  <2>1. PICK l \in Others :
          \/ \E node \in Free, v \in Values :
               \/ AddNodeHead(l, node, v)
               \/ AddNodeTail(l, node, v)
               \/ \E i \in 1 .. heap.len[l], after \in BOOLEAN : InsertNode(l, i, node, v, after)
          \/ \E i \in 1 .. heap.len[l] : DelNode(l, i)
          \/ Rotate(l)
          \/ Release(l)
          \/ \E from \in Lists : listDup(from, l)
    BY <1>2 DEF Library
  <2>2. ASSUME NEW node \in Free, NEW v \in Values,
               \/ AddNodeHead(l, node, v)
               \/ AddNodeTail(l, node, v)
               \/ \E i \in 1 .. heap.len[l], after \in BOOLEAN : InsertNode(l, i, node, v, after)
        PROVE  IInv' /\ Steps
    BY <2>2, AddNodeHeadHolds, AddNodeTailHolds, InsertNodeHolds
  <2>3. ASSUME NEW from \in Lists, listDup(from, l) PROVE IInv' /\ Steps
    <3>1. l \in Lists /\ from # l /\ Begins("listDup", from, l)
      BY <2>3 DEF Others, listDup
    <3> QED
      BY <3>1, BeginsHolds
  <2> QED
    BY <2>1, <2>2, <2>3, DelNodeHolds, RotateHolds, ReleaseHolds
<1>3. CASE Server
  <2>1. ASSUME closeClients PROVE IInv' /\ Steps
    BY <2>1, BeginsHolds, ListsAssumption DEF closeClients
  <2> QED
    BY <1>3, <2>1, acceptTcpHandlerHolds, clientTocloseHolds, DropFlagsHolds DEF Server
<1>4. CASE Turn
  BY <1>4, DupTurnHolds, MarkTurnHolds, DupEndsHolds, PassTurnHolds, MarkEndsHolds,
     CloseTurnHolds, CloseEndsHolds DEF Turn
<1> QED
  BY <1>1, <1>2, <1>3, <1>4 DEF Next

\* What every list function leaves, in the midst of closeClients and listDup
\* too: the fields of each list describe one chain of nodes.
THEOREM Invariance == Spec => []IInv
<1>1. Init => IInv
  BY StartsSound
<1>2. IInv /\ [Next]_vars => IInv'
  BY StepsHold
<1> QED
  BY <1>1, <1>2, PTL DEF Spec

\* Whatever list.c is called for, in any order, each list is the same nodes from
\* both ends, len of them, and no node is in two places or lost.
THEOREM ListsAreWellFormed == Spec => []WellFormed
<1>1. IInv => WellFormed
  <2> SUFFICES ASSUME IInv PROVE WellFormed
    OBVIOUS
  <2>1. \A l \in Lists : Linked(heap, l, Chain(heap, l))
    BY SoundHeap DEF IInv
  <2>2. PICK c : c = Chains(heap)
    OBVIOUS
  <2>3. Lies(heap, c)
    BY <2>2 DEF IInv, Sound, Chained
  <2>4. \A l \in Lists : Chain(heap, l) = c[l]
    BY <2>2 DEF Chains
  <2>5. heap.used = UNION {ChainSet(heap, l) : l \in Lists}
    <3>1. ASSUME NEW l \in Lists, NEW i \in 1 .. heap.len[l] PROVE c[l][i] \in heap.used
      <4>1. c[l] \in [1 .. heap.len[l] -> heap.used]
        BY <2>3 DEF Lies
      <4> QED
        BY <4>1
    <3>2. ASSUME NEW node \in heap.used PROVE \E l \in Lists : \E i \in 1 .. heap.len[l] : c[l][i] = node
      BY <2>3 DEF Lies
    <3> QED
      BY <2>4, <3>1, <3>2 DEF ChainSet
  <2>6. ASSUME NEW l \in Lists, NEW m \in Lists, NEW i \in 1 .. heap.len[l], NEW j \in 1 .. heap.len[m],
               Chain(heap, l)[i] = Chain(heap, m)[j]
        PROVE  l = m /\ i = j
    BY <2>3, <2>4, <2>6 DEF Lies
  <2> QED
    BY <2>1, <2>5, <2>6 DEF WellFormed
<1> QED
  BY <1>1, Invariance, PTL

\* The loop of closeClients that takes nodes out of the list it walks meets every
\* client that clientToclose marked, and the second loop frees no other client.
THEOREM MarkedAreCollectedAlways == Spec => []MarkedAreCollected
<1>1. IInv => MarkedAreCollected
  <2> SUFFICES ASSUME IInv PROVE MarkedAreCollected
    OBVIOUS
  <2>1. Sound(heap) /\ clients \in Lists /\ clientsToClose \in Lists
    BY ListsAssumption DEF IInv
  <2>2. PICK s : s = Contents(heap)[clients]
    OBVIOUS
  <2>3. PICK q : q = Contents(heap)[clientsToClose]
    OBVIOUS
  <2>4. Kept(s, q, toClose, loop.op, loop.at)
    BY <2>2, <2>3 DEF IInv
  <2>5. /\ ValuesOf(clients) = {s[i] : i \in 1 .. Len(s)}
        /\ ValuesOf(clientsToClose) = {q[i] : i \in 1 .. Len(q)}
    BY <2>1, <2>2, <2>3, ValuesAre
  <2>6. loop.op = "close" => ValuesOf(clients) \cap toClose = {}
    BY <2>4, <2>5 DEF Kept
  <2>7. ValuesOf(clientsToClose) \subseteq toClose
    BY <2>4, <2>5 DEF Kept
  <2>8. Idle => ValuesOf(clientsToClose) = {}
    <3>1. ASSUME Idle PROVE q = <<>>
      BY <2>4, <3>1 DEF Kept, Idle, NoLoop
    <3>2. Len(<<>>) = 0
      OBVIOUS
    <3> QED
      BY <2>5, <3>1, <3>2
  <2> QED
    BY <2>6, <2>7, <2>8 DEF MarkedAreCollected
<1> QED
  BY <1>1, Invariance, PTL

\* The pointer functions of list.c implement sequences: an insertion, removal,
\* rotation, release, copy or closeClients does to the sequence what it says.
THEOREM ListsAreSequences == Spec => SequenceSpec
<1>1. Init => S!Init
  BY StartsSound
<1>2. IInv /\ [Next]_vars => [S!Next]_<<Contents(heap), call>>
  BY StepsHold DEF Steps
<1> QED
  BY <1>1, <1>2, Invariance, PTL DEF Spec, SequenceSpec, S!Spec

=============================================================================
