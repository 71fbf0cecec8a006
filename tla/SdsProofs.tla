----------------------------- MODULE SdsProofs -----------------------------
(***************************************************************************)
(* What the strings of sds.c keep for every length of request and of       *)
(* queue, although clearing and appending overstates the free space.       *)
(***************************************************************************)
EXTENDS Sds, SequenceTheorems, FiniteSetTheorems, WellFoundedInduction, TLAPS

\* A string has a byte at least, its length is inside it or the program is past
\* its defined behaviour, and as long as free is not overstated the last byte
\* is the NUL that sdsMakeRoomFor put there.
StrOK(s) ==
  /\ s \in Sds /\ Len(s.buf) >= 1
  /\ s.over \/ s.len <= Len(s.buf)
  /\ ~Overstated(s) => s.buf[Len(s.buf)] = NUL

\* Behind n bytes and behind its length there is nothing in s.
Blank(s, n) == \A i \in DOMAIN s.buf : i > n /\ i > s.len => s.buf[i] = NUL

Types ==
  /\ StrOK(readBuf) /\ StrOK(writeBuf)
  /\ multcmds \in [1 .. QueueCap -> Sds] /\ \A i \in 1 .. QueueCap : StrOK(multcmds[i])
  /\ multi \in BOOLEAN /\ multiCmdCount \in 0 .. QueueCap
  /\ exec \in 0 .. QueueCap + 1 /\ reads \in 0 .. MaxReads
  /\ longest \in Nat /\ last.cmd \in Seq(Nat) /\ last.bytes \in Seq(Nat)

\* While nothing ran over: the slots that are still to be executed hold their
\* requests, readBuf is empty between requests, and what is left in it of an
\* earlier request is no longer than the longest that was queued.
Holds ==
  ~Overrun =>
    /\ queue \in Seq(Requests) /\ Len(queue) = multiCmdCount
    /\ \A i \in 1 .. multiCmdCount : i >= exec => Content(multcmds[i]) = queue[i]
    /\ exec = 0 => readBuf.len = 0
    /\ Blank(readBuf, longest)
    /\ IsPrefix(last.cmd, last.bytes)
    /\ Len(last.cmd) >= longest => last.bytes = last.cmd

SdsInv == Types /\ Holds

-----------------------------------------------------------------------------
(***************************************************************************)
(* The functions of sds.c on one string.                                   *)
(***************************************************************************)
\* Copying into an array changes neither its length nor its type.
LEMMA CopiedType ==
  ASSUME NEW buf \in Seq(Nat), NEW n \in Nat, NEW data \in Seq(Nat)
  PROVE  /\ Copied(buf, n, data) \in Seq(Nat)
         /\ Len(Copied(buf, n, data)) = Len(buf)
         /\ DOMAIN Copied(buf, n, data) = 1 .. Len(buf)
         /\ \A i \in 1 .. Len(buf) :
              Copied(buf, n, data)[i]
                = IF i > n /\ i <= n + Len(data) THEN data[i - n] ELSE buf[i]
<1>1. PICK l, m : l = Len(buf) /\ m = Len(data)
  OBVIOUS
<1>2. /\ l \in Nat /\ DOMAIN buf = 1 .. l /\ (\A i \in 1 .. l : buf[i] \in Nat)
      /\ m \in Nat /\ (\A i \in 1 .. m : data[i] \in Nat)
  BY <1>1, LenProperties
<1>3. PICK t : t = Copied(buf, n, data)
  OBVIOUS
<1>4. t = [i \in 1 .. l |-> IF i > n /\ i <= n + m THEN data[i - n] ELSE buf[i]]
  BY <1>1, <1>2, <1>3 DEF Copied
<1>5. DOMAIN t = 1 .. l
  BY <1>4
<1>6. ASSUME NEW i \in 1 .. l
      PROVE  /\ t[i] = IF i > n /\ i <= n + m THEN data[i - n] ELSE buf[i]
             /\ t[i] \in Nat
  <2>1. t[i] = IF i > n /\ i <= n + m THEN data[i - n] ELSE buf[i]
    BY <1>4
  <2>2. i > n /\ i <= n + m => i - n \in 1 .. m
    BY <1>2
  <2>3. QED
    BY <1>2, <2>1, <2>2
<1>7. t = [i \in 1 .. l |-> t[i]]
  BY <1>4
<1>8. t \in [1 .. l -> Nat]
  BY <1>6, <1>7
<1>9. t \in Seq(Nat) /\ Len(t) = l
  BY <1>2, <1>8
<1>10. QED
  BY <1>1, <1>3, <1>5, <1>6, <1>9

\* An array of n zero bytes.
LEMMA ZerosType ==
  ASSUME NEW n \in Nat
  PROVE  /\ Zeros(n) \in Seq(Nat) /\ Len(Zeros(n)) = n
         /\ \A i \in 1 .. n : Zeros(n)[i] = NUL
BY DEF Zeros, NUL

\* The record of a string and the array in it.
LEMMA StringParts ==
  ASSUME NEW s \in Sds
  PROVE  /\ s.buf \in Seq(Nat) /\ s.len \in Nat /\ s.free \in Nat /\ s.over \in BOOLEAN
         /\ Len(s.buf) \in Nat /\ DOMAIN s.buf = 1 .. Len(s.buf)
         /\ \A i \in 1 .. Len(s.buf) : s.buf[i] \in Nat
<1>1. s.buf \in Seq(Nat) /\ s.len \in Nat /\ s.free \in Nat /\ s.over \in BOOLEAN
  BY DEF Sds
<1>2. QED
  BY <1>1, LenProperties

\* What a string holds: the bytes of buf up to its length.
LEMMA ContentIs ==
  ASSUME NEW s \in Sds
  PROVE  /\ Content(s) \in Seq(Nat)
         /\ s.len <= Len(s.buf) =>
              /\ Content(s) = SubSeq(s.buf, 1, s.len) /\ Len(Content(s)) = s.len
              /\ \A i \in 1 .. s.len : Content(s)[i] = s.buf[i]
<1>1. PICK b, l, n : b = s.buf /\ l = s.len /\ n = Len(s.buf)
  OBVIOUS
<1>2. /\ b \in Seq(Nat) /\ l \in Nat /\ n \in Nat
      /\ \A i \in 1 .. n : b[i] \in Nat
  BY <1>1, StringParts
<1>3. \E x \in {l, n} : \A y \in {l, n} : x <= y
  BY <1>2
<1>4. Min({l, n}) \in {l, n} /\ Min({l, n}) <= l /\ Min({l, n}) <= n
  BY <1>3 DEF Min
<1>5. PICK m : m = Min({l, n})
  OBVIOUS
<1>6. m \in 0 .. n /\ (l <= n => m = l)
  BY <1>2, <1>4, <1>5
<1>7. Content(s) = SubSeq(b, 1, m)
  BY <1>1, <1>5 DEF Content
<1>8. /\ SubSeq(b, 1, m) \in Seq(Nat)
      /\ Len(SubSeq(b, 1, m)) = IF 1 <= m THEN m - 1 + 1 ELSE 0
      /\ \A i \in 1 .. m - 1 + 1 : SubSeq(b, 1, m)[i] = b[1 + i - 1]
  BY <1>2, <1>6, SubSeqProperties
<1>9. Len(SubSeq(b, 1, m)) = m /\ \A i \in 1 .. m : SubSeq(b, 1, m)[i] = b[i]
  <2>1. \A i \in 1 .. m : i \in 1 .. m - 1 + 1 /\ 1 + i - 1 = i
    BY <1>6
  <2>2. QED
    BY <1>6, <1>8, <2>1
<1>10. QED
  BY <1>1, <1>6, <1>7, <1>8, <1>9

\* The four fields after an assignment to three of them.
WithFields(s, b, f, l) == [s EXCEPT !.buf = b, !.free = f, !.len = l]

\* A string with new fields is a string, overrun or not as before.
LEMMA FieldsSet ==
  ASSUME NEW s \in Sds, NEW b \in Seq(Nat), NEW f \in Nat, NEW l \in Nat
  PROVE  /\ WithFields(s, b, f, l) \in Sds
         /\ WithFields(s, b, f, l).buf = b /\ WithFields(s, b, f, l).free = f
         /\ WithFields(s, b, f, l).len = l /\ WithFields(s, b, f, l).over = s.over
BY DEF Sds, WithFields

\* Clearing keeps what is allocated and the sum of the counters.
LEMMA ClearKeeps ==
  ASSUME NEW s, StrOK(s)
  PROVE  /\ StrOK(sdsclear(s)) /\ sdsclear(s).len = 0 /\ sdsclear(s).over = s.over
         /\ Overstated(sdsclear(s)) <=> Overstated(s)
         /\ \A n \in Nat : Blank(s, n) => Blank(sdsclear(s), n)
<1>1. PICK t, b : t = sdsclear(s) /\ b = Copied(s.buf, 0, Zeros(s.len))
  OBVIOUS
<1>2. /\ s \in Sds /\ s.buf \in Seq(Nat) /\ s.len \in Nat /\ s.free \in Nat
      /\ s.over \in BOOLEAN /\ Len(s.buf) \in Nat /\ Len(s.buf) >= 1
      /\ DOMAIN s.buf = 1 .. Len(s.buf)
      /\ (~Overstated(s) => s.buf[Len(s.buf)] = NUL)
  BY StringParts DEF StrOK
<1>3. t = [s EXCEPT !.buf = b, !.free = s.free + s.len, !.len = 0]
  BY <1>1 DEF sdsclear
<1>4. /\ Zeros(s.len) \in Seq(Nat) /\ Len(Zeros(s.len)) = s.len
      /\ \A i \in 1 .. s.len : Zeros(s.len)[i] = NUL
  BY <1>2, ZerosType
<1>5. /\ b \in Seq(Nat) /\ Len(b) = Len(s.buf) /\ DOMAIN b = 1 .. Len(s.buf)
      /\ \A i \in 1 .. Len(s.buf) :
           b[i] = IF i > 0 /\ i <= 0 + Len(Zeros(s.len)) THEN Zeros(s.len)[i - 0] ELSE s.buf[i]
  BY <1>1, <1>2, <1>4, CopiedType
<1>6. \A i \in 1 .. Len(s.buf) : b[i] = IF i <= s.len THEN NUL ELSE s.buf[i]
  <2>1. \A i \in 1 .. Len(s.buf) :
          i > 0 /\ i - 0 = i /\ 0 + s.len = s.len /\ (i <= s.len => i \in 1 .. s.len)
    BY <1>2
  <2>2. QED
    BY <1>4, <1>5, <2>1
<1>7. /\ t \in Sds /\ t.buf = b /\ t.len = 0 /\ t.free = s.free + s.len /\ t.over = s.over
  <2>1. PICK f, l : f = s.free + s.len /\ l = 0
    OBVIOUS
  <2>2. s \in Sds /\ b \in Seq(Nat) /\ f \in Nat /\ l \in Nat
    BY <1>2, <1>5, <2>1
  <2>3. t = WithFields(s, b, f, l)
    BY <1>3, <2>1 DEF WithFields
  <2>4. /\ WithFields(s, b, f, l) \in Sds
        /\ WithFields(s, b, f, l).buf = b /\ WithFields(s, b, f, l).free = f
        /\ WithFields(s, b, f, l).len = l /\ WithFields(s, b, f, l).over = s.over
    BY <2>2, FieldsSet
  <2>5. QED
    BY <2>1, <2>3, <2>4
<1>8. Overstated(t) <=> Overstated(s)
  BY <1>2, <1>5, <1>7 DEF Overstated
<1>9. StrOK(t)
  <2>1. ~Overstated(t) => t.buf[Len(t.buf)] = NUL
    BY <1>2, <1>5, <1>6, <1>7, <1>8
  <2>2. QED
    BY <1>2, <1>5, <1>7, <2>1 DEF StrOK
<1>10. ASSUME NEW n \in Nat, Blank(s, n) PROVE Blank(t, n)
  BY <1>2, <1>5, <1>6, <1>7, <1>10 DEF Blank
<1>11. QED
  BY <1>1, <1>7, <1>8, <1>9, <1>10

\* Emptying counts a byte too many as free and leaves the others behind.
LEMMA EmptiedKeeps ==
  ASSUME NEW s, StrOK(s)
  PROVE  /\ StrOK(Emptied(s)) /\ Emptied(s).len = 0 /\ Emptied(s).over = s.over
         /\ \A n, m \in Nat : Blank(s, n) /\ n <= m /\ s.len <= m => Blank(Emptied(s), m)
<1>0. PICK z : z = <<NUL>>
  OBVIOUS
<1>1. PICK t, b : t = Emptied(s) /\ b = Copied(s.buf, 0, z)
  OBVIOUS
<1>2. /\ s \in Sds /\ s.buf \in Seq(Nat) /\ s.len \in Nat /\ s.free \in Nat
      /\ s.over \in BOOLEAN /\ Len(s.buf) \in Nat /\ Len(s.buf) >= 1
      /\ DOMAIN s.buf = 1 .. Len(s.buf)
      /\ (~Overstated(s) => s.buf[Len(s.buf)] = NUL)
  BY StringParts DEF StrOK
<1>3. t = [s EXCEPT !.buf = b, !.free = s.free + s.len + 1, !.len = 0]
  BY <1>0, <1>1 DEF Emptied
<1>4. z \in Seq(Nat) /\ Len(z) = 1 /\ z[1] = NUL
  BY <1>0 DEF NUL
<1>5. /\ b \in Seq(Nat) /\ Len(b) = Len(s.buf) /\ DOMAIN b = 1 .. Len(s.buf)
      /\ \A i \in 1 .. Len(s.buf) :
           b[i] = IF i > 0 /\ i <= 0 + Len(z) THEN z[i - 0] ELSE s.buf[i]
  <2>1. s.buf \in Seq(Nat) /\ z \in Seq(Nat) /\ 0 \in Nat /\ b = Copied(s.buf, 0, z)
    BY <1>1, <1>2, <1>4
  <2>2. QED
    BY <2>1, CopiedType
<1>6. \A i \in 1 .. Len(s.buf) : b[i] = IF i = 1 THEN NUL ELSE s.buf[i]
  <2>1. \A i \in 1 .. Len(s.buf) : i > 0 /\ i - 0 = i /\ (i <= 0 + 1 <=> i = 1)
    BY <1>2
  <2>2. QED
    BY <1>4, <1>5, <2>1
<1>7. /\ t \in Sds /\ t.buf = b /\ t.len = 0 /\ t.free = s.free + s.len + 1 /\ t.over = s.over
  <2>1. PICK f, l : f = s.free + s.len + 1 /\ l = 0
    OBVIOUS
  <2>2. s \in Sds /\ b \in Seq(Nat) /\ f \in Nat /\ l \in Nat
    BY <1>2, <1>5, <2>1
  <2>3. t = WithFields(s, b, f, l)
    BY <1>3, <2>1 DEF WithFields
  <2>4. /\ WithFields(s, b, f, l) \in Sds
        /\ WithFields(s, b, f, l).buf = b /\ WithFields(s, b, f, l).free = f
        /\ WithFields(s, b, f, l).len = l /\ WithFields(s, b, f, l).over = s.over
    BY <2>2, FieldsSet
  <2>5. QED
    BY <2>1, <2>3, <2>4
<1>8. Overstated(s) => Overstated(t)
  BY <1>2, <1>5, <1>7 DEF Overstated
<1>9. StrOK(t)
  <2>1. ~Overstated(t) => t.buf[Len(t.buf)] = NUL
    BY <1>2, <1>5, <1>6, <1>7, <1>8
  <2>2. QED
    BY <1>2, <1>5, <1>7, <2>1 DEF StrOK
<1>10. ASSUME NEW n \in Nat, NEW m \in Nat, Blank(s, n), n <= m, s.len <= m PROVE Blank(t, m)
  <2>1. \A i \in 1 .. Len(s.buf) : i > m => i > n /\ i > s.len
    BY <1>2, <1>10
  <2>2. QED
    BY <1>2, <1>5, <1>6, <1>7, <1>10, <2>1 DEF Blank
<1>11. QED
  BY <1>1, <1>7, <1>9, <1>10

\* What t has of s when data was appended to it, whichever of the two ways was
\* taken: an array that is not written past its end while free is not
\* overstated, and the old content with data behind it.
Appended(s, data, t) ==
  /\ t \in Sds /\ Len(t.buf) >= 1
  /\ t.len = s.len + Len(data) /\ (t.over \/ t.len <= Len(t.buf)) /\ (s.over => t.over)
  /\ ~Overstated(t) => t.buf[Len(t.buf)] = NUL
  /\ ~Overstated(s) => t.over = s.over /\ t.buf[Len(t.buf)] = NUL
  /\ \A i \in 1 .. Len(t.buf) : i <= s.len => t.buf[i] = s.buf[i]
  /\ \A i \in 1 .. Len(t.buf) : i > s.len /\ i <= t.len => t.buf[i] = data[i - s.len]
  /\ \A n \in Nat : Blank(s, n) => Blank(t, n)

\* sdsMakeRoomFor has to allocate.
LEMMA GrownAppends ==
  ASSUME NEW s, StrOK(s), s.len <= Len(s.buf), NEW data \in Seq(Nat)
  PROVE  Appended(s, data, Grown(s, data))
<1>1. PICK t, l, m, nl, size, z, g, b :
        /\ t = Grown(s, data) /\ l = s.len /\ m = Len(data) /\ nl = s.len + Len(data)
        /\ size = newbuflen(s.len + Len(data))
        /\ z = Zeros(newbuflen(s.len + Len(data)) - s.len)
        /\ g = SubSeq(s.buf, 1, s.len) \o Zeros(newbuflen(s.len + Len(data)) - s.len)
        /\ b = Copied(SubSeq(s.buf, 1, s.len)
                        \o Zeros(newbuflen(s.len + Len(data)) - s.len), s.len, data)
  OBVIOUS
<1>2. /\ s \in Sds /\ s.buf \in Seq(Nat) /\ s.len \in Nat /\ s.free \in Nat
      /\ s.over \in BOOLEAN /\ Len(s.buf) \in Nat /\ Len(s.buf) >= 1
      /\ DOMAIN s.buf = 1 .. Len(s.buf)
  BY StringParts DEF StrOK
<1>3. l \in Nat /\ m \in Nat /\ nl \in Nat /\ nl = l + m /\ l = s.len /\ m = Len(data)
  BY <1>1, <1>2, LenProperties
<1>4. size \in Nat /\ size > nl
  <2>1. size = newbuflen(nl)
    BY <1>1
  <2>2. QED
    BY <1>3, <2>1, BoundsAssumption DEF newbuflen
<1>5. /\ z \in Seq(Nat) /\ Len(z) = size - l /\ \A i \in 1 .. size - l : z[i] = NUL
  <2>1. z = Zeros(size - l) /\ size - l \in Nat
    BY <1>1, <1>3, <1>4
  <2>2. PICK k : k = size - l
    OBVIOUS
  <2>3. k \in Nat /\ z = Zeros(k)
    BY <2>1, <2>2
  <2>4. QED
    BY <2>2, <2>3, ZerosType
<1>6. PICK c : c = SubSeq(s.buf, 1, s.len)
  OBVIOUS
<1>7. c \in Seq(Nat) /\ Len(c) = l /\ \A i \in 1 .. l : c[i] = s.buf[i]
  <2>1. c = Content(s) \/ c = SubSeq(s.buf, 1, s.len)
    BY <1>6
  <2>2. /\ Content(s) \in Seq(Nat)
        /\ Content(s) = SubSeq(s.buf, 1, s.len) /\ Len(Content(s)) = s.len
        /\ \A i \in 1 .. s.len : Content(s)[i] = s.buf[i]
    BY <1>2, ContentIs
  <2>3. QED
    BY <1>3, <1>6, <2>2
<1>8. /\ g \in Seq(Nat) /\ Len(g) = size
      /\ \A i \in 1 .. size : g[i] = IF i <= l THEN s.buf[i] ELSE NUL
  <2>1. g = c \o z
    BY <1>1, <1>6
  <2>2. /\ c \o z \in Seq(Nat) /\ Len(c \o z) = Len(c) + Len(z)
        /\ \A i \in 1 .. Len(c) + Len(z) :
             (c \o z)[i] = IF i <= Len(c) THEN c[i] ELSE z[i - Len(c)]
    <3>1. c \in Seq(Nat) /\ z \in Seq(Nat)
      BY <1>5, <1>7
    <3>2. QED
      BY <3>1, ConcatProperties
  <2>3. l + (size - l) = size
    BY <1>3, <1>4
  <2>4. \A i \in 1 .. size : (i <= l => i \in 1 .. l) /\ (~(i <= l) => i - l \in 1 .. size - l)
    BY <1>3, <1>4
  <2>5. QED
    BY <1>5, <1>7, <2>1, <2>2, <2>3, <2>4
<1>9. /\ b \in Seq(Nat) /\ Len(b) = size /\ DOMAIN b = 1 .. size
      /\ \A i \in 1 .. size :
           b[i] = IF i > l /\ i <= l + m THEN data[i - l] ELSE g[i]
  <2>1. b = Copied(g, l, data)
    BY <1>1
  <2>2. g \in Seq(Nat) /\ l \in Nat /\ data \in Seq(Nat)
    BY <1>3, <1>8
  <2>3. /\ Copied(g, l, data) \in Seq(Nat) /\ Len(Copied(g, l, data)) = Len(g)
        /\ DOMAIN Copied(g, l, data) = 1 .. Len(g)
        /\ \A i \in 1 .. Len(g) :
             Copied(g, l, data)[i]
               = IF i > l /\ i <= l + Len(data) THEN data[i - l] ELSE g[i]
    BY <2>2, CopiedType
  <2>4. QED
    BY <1>3, <1>8, <2>1, <2>3
<1>10. PICK f : f = size - nl - 1
  OBVIOUS
<1>11. f \in Nat /\ l + m + f + 1 = size
  BY <1>3, <1>4, <1>10
<1>12. /\ t \in Sds /\ t.buf = b /\ t.len = nl /\ t.free = f /\ t.over = s.over
  <2>1. t = [s EXCEPT !.buf = b, !.len = nl, !.free = f]
    BY <1>1, <1>10 DEF Grown
  <2>2. t = WithFields(s, b, f, nl)
    BY <1>2, <2>1 DEF WithFields, Sds
  <2>3. s \in Sds /\ b \in Seq(Nat) /\ f \in Nat /\ nl \in Nat
    BY <1>2, <1>3, <1>9, <1>11
  <2>4. /\ WithFields(s, b, f, nl) \in Sds
        /\ WithFields(s, b, f, nl).buf = b /\ WithFields(s, b, f, nl).free = f
        /\ WithFields(s, b, f, nl).len = nl /\ WithFields(s, b, f, nl).over = s.over
    BY <2>3 DEF WithFields, Sds
  <2>5. QED
    BY <2>2, <2>4
<1>13. b[size] = NUL
  <2>1. size \in 1 .. size /\ ~(size <= l + m) /\ ~(size <= l)
    BY <1>3, <1>4
  <2>2. QED
    BY <1>8, <1>9, <2>1
<1>14. \A i \in 1 .. size : i <= l => b[i] = s.buf[i]
  BY <1>3, <1>8, <1>9
<1>15. \A i \in 1 .. size : i > l /\ i <= nl => b[i] = data[i - l]
  BY <1>3, <1>9
<1>16. ASSUME NEW n \in Nat PROVE Blank(t, n)
  <2>1. ASSUME NEW i \in 1 .. size, i > nl PROVE b[i] = NUL
    <3>1. ~(i <= l + m) /\ ~(i <= l)
      BY <1>3, <2>1
    <3>2. QED
      BY <1>8, <1>9, <3>1
  <2>2. QED
    BY <1>9, <1>12, <2>1 DEF Blank
<1>17. QED
  <2>1. /\ t \in Sds /\ Len(t.buf) >= 1 /\ t.len = s.len + Len(data) /\ t.len <= Len(t.buf)
        /\ (s.over => t.over)
        /\ t.buf[Len(t.buf)] = NUL /\ t.over = s.over
    BY <1>3, <1>4, <1>9, <1>12, <1>13
  <2>2. /\ \A i \in 1 .. Len(t.buf) : i <= s.len => t.buf[i] = s.buf[i]
        /\ \A i \in 1 .. Len(t.buf) : i > s.len /\ i <= t.len => t.buf[i] = data[i - s.len]
    BY <1>3, <1>9, <1>12, <1>14, <1>15
  <2>3. Appended(s, data, t)
    BY <1>16, <2>1, <2>2 DEF Appended
  <2>4. QED
    BY <1>1, <2>3

\* sdsMakeRoomFor finds room enough, or takes it for enough.
LEMMA FilledAppends ==
  ASSUME NEW s, StrOK(s), s.len <= Len(s.buf), NEW data \in Seq(Nat), Len(data) <= s.free
  PROVE  Appended(s, data, Filled(s, data))
<1>1. PICK t, b : t = Filled(s, data) /\ b = Copied(s.buf, s.len, data)
  OBVIOUS
<1>2. /\ s \in Sds /\ s.buf \in Seq(Nat) /\ s.len \in Nat /\ s.free \in Nat
      /\ s.over \in BOOLEAN /\ Len(s.buf) \in Nat /\ Len(s.buf) >= 1
      /\ DOMAIN s.buf = 1 .. Len(s.buf)
      /\ (~Overstated(s) => s.buf[Len(s.buf)] = NUL)
  BY StringParts DEF StrOK
<1>3. PICK l, m, n, f : l = s.len /\ m = Len(data) /\ n = Len(s.buf) /\ f = s.free
  OBVIOUS
<1>4. l \in Nat /\ m \in Nat /\ n \in Nat /\ n >= 1 /\ f \in Nat /\ m <= f
  BY <1>2, <1>3, LenProperties
<1>5. /\ b \in Seq(Nat) /\ Len(b) = n /\ DOMAIN b = 1 .. n
      /\ \A i \in 1 .. n : b[i] = IF i > l /\ i <= l + m THEN data[i - l] ELSE s.buf[i]
  <2>1. PICK a : a = s.buf
    OBVIOUS
  <2>2. a \in Seq(Nat) /\ l \in Nat /\ data \in Seq(Nat) /\ b = Copied(a, l, data)
    BY <1>1, <1>2, <1>3, <2>1
  <2>3. /\ Copied(a, l, data) \in Seq(Nat) /\ Len(Copied(a, l, data)) = Len(a)
        /\ DOMAIN Copied(a, l, data) = 1 .. Len(a)
        /\ \A i \in 1 .. Len(a) :
             Copied(a, l, data)[i]
               = IF i > l /\ i <= l + Len(data) THEN data[i - l] ELSE a[i]
    BY <2>2, CopiedType
  <2>4. QED
    BY <1>3, <2>1, <2>2, <2>3
<1>6. /\ t \in Sds /\ t.buf = b /\ t.len = l + m /\ t.free = f
      /\ t.over = (s.over \/ l + m > n)
  <2>1. t = [s EXCEPT !.buf = b, !.len = l + m, !.over = s.over \/ l + m > n]
    BY <1>1, <1>3 DEF Filled
  <2>2. t.buf = b /\ t.len = l + m /\ t.free = f /\ t.over = (s.over \/ l + m > n)
    BY <1>2, <1>3, <2>1 DEF Sds
  <2>3. l + m \in Nat /\ (s.over \/ l + m > n) \in BOOLEAN
    BY <1>4
  <2>4. t \in Sds
    BY <1>2, <1>5, <2>1, <2>3 DEF Sds
  <2>5. QED
    BY <2>2, <2>4
<1>7. ASSUME ~Overstated(s) PROVE t.over = s.over /\ b[n] = NUL
  <2>1. l + f + 1 <= n
    BY <1>2, <1>3, <1>4, <1>7 DEF Overstated
  <2>2. ~(l + m > n) /\ n \in 1 .. n /\ ~(n <= l + m)
    BY <1>4, <2>1
  <2>3. b[n] = s.buf[n]
    BY <1>5, <2>2
  <2>4. QED
    BY <1>2, <1>3, <1>6, <1>7, <2>2, <2>3
<1>8. ~Overstated(t) => ~Overstated(s)
  BY <1>2, <1>3, <1>4, <1>5, <1>6 DEF Overstated
<1>9. ASSUME NEW k \in Nat, Blank(s, k) PROVE Blank(t, k)
  <2>1. \A i \in 1 .. n : i > k /\ i > l + m => i > l /\ b[i] = s.buf[i]
    BY <1>4, <1>5
  <2>2. \A i \in 1 .. n : i > k /\ i > l => s.buf[i] = NUL
    BY <1>2, <1>3, <1>9 DEF Blank
  <2>3. QED
    BY <1>5, <1>6, <2>1, <2>2 DEF Blank
<1>10. QED
  <2>1. /\ t \in Sds /\ Len(t.buf) >= 1 /\ t.len = s.len + Len(data)
    BY <1>3, <1>4, <1>5, <1>6
  <2>0. (t.over \/ t.len <= Len(t.buf)) /\ (s.over => t.over)
    <3>1. l + m > n \/ l + m <= n
      BY <1>4
    <3>2. QED
      BY <1>3, <1>5, <1>6, <3>1
  <2>2. /\ ~Overstated(t) => t.buf[Len(t.buf)] = NUL
        /\ ~Overstated(s) => t.over = s.over /\ t.buf[Len(t.buf)] = NUL
    BY <1>5, <1>6, <1>7, <1>8
  <2>3. /\ \A i \in 1 .. Len(t.buf) : i <= s.len => t.buf[i] = s.buf[i]
        /\ \A i \in 1 .. Len(t.buf) : i > s.len /\ i <= t.len => t.buf[i] = data[i - s.len]
    BY <1>3, <1>4, <1>5, <1>6
  <2>4. Appended(s, data, t)
    BY <1>9, <2>0, <2>1, <2>2, <2>3 DEF Appended
  <2>5. QED
    BY <1>1, <2>4

\* sdscatlen, with room enough or without.
LEMMA CatAppends ==
  ASSUME NEW s, StrOK(s), s.len <= Len(s.buf), NEW data \in Seq(Nat)
  PROVE  Appended(s, data, sdscatlen(s, data))
<1>1. CASE Len(data) > s.free
  BY <1>1, GrownAppends DEF sdscatlen
<1>2. CASE ~(Len(data) > s.free)
  <2>1. s.free \in Nat /\ Len(data) \in Nat
    BY StringParts, LenProperties DEF StrOK
  <2>2. Len(data) <= s.free
    BY <1>2, <2>1
  <2>3. Appended(s, data, Filled(s, data))
    BY <2>2, FilledAppends
  <2>4. QED
    BY <1>2, <2>3 DEF sdscatlen
<1>3. QED
  BY <1>1, <1>2

\* A string that was appended to is one again, and holds what was in it and data.
LEMMA AppendedHolds ==
  ASSUME NEW s, StrOK(s), s.len <= Len(s.buf), NEW data \in Seq(Nat),
         NEW t, Appended(s, data, t)
  PROVE  /\ StrOK(t)
         /\ ~t.over => Content(t) = Content(s) \o data
         /\ ~t.over /\ s.len = 0 => Content(t) = data
<1>1. s \in Sds /\ t \in Sds
  BY DEF StrOK, Appended
<1>2. StrOK(t)
  BY DEF StrOK, Appended
<1>3. PICK l, m, k : l = s.len /\ m = Len(data) /\ k = Len(t.buf)
  OBVIOUS
<1>4. l \in Nat /\ m \in Nat /\ k \in Nat
  BY <1>1, <1>3, StringParts, LenProperties
<1>5. ASSUME ~t.over
      PROVE  /\ Content(t) \in Seq(Nat) /\ Len(Content(t)) = l + m
             /\ \A i \in 1 .. l + m : Content(t)[i] = IF i <= l THEN s.buf[i] ELSE data[i - l]
  <2>1. t.len = l + m /\ l + m <= k
    BY <1>3, <1>5 DEF Appended
  <2>2. /\ Content(t) \in Seq(Nat) /\ Len(Content(t)) = l + m
        /\ \A i \in 1 .. l + m : Content(t)[i] = t.buf[i]
    BY <1>1, <1>3, <2>1, ContentIs
  <2>3. \A i \in 1 .. l + m : i \in 1 .. k
    BY <1>4, <2>1
  <2>4. /\ \A i \in 1 .. k : i <= l => t.buf[i] = s.buf[i]
        /\ \A i \in 1 .. k : i > l /\ i <= l + m => t.buf[i] = data[i - l]
    BY <1>3, <2>1 DEF Appended
  <2>5. ASSUME NEW i \in 1 .. l + m
        PROVE  Content(t)[i] = IF i <= l THEN s.buf[i] ELSE data[i - l]
    <3>1. i \in 1 .. k /\ i <= l + m /\ (i <= l \/ i > l)
      BY <1>4, <2>3
    <3>2. QED
      BY <1>4, <2>2, <2>4, <3>1
  <2>6. QED
    BY <2>2, <2>5
<1>6. /\ Content(s) \in Seq(Nat) /\ Len(Content(s)) = l
      /\ \A i \in 1 .. l : Content(s)[i] = s.buf[i]
  BY <1>1, <1>3, ContentIs
<1>7. PICK c, d : c = Content(s) /\ d = Content(t)
  OBVIOUS
<1>8. ASSUME ~t.over PROVE d = c \o data
  <2>1. c \in Seq(Nat) /\ data \in Seq(Nat)
    BY <1>6, <1>7
  <2>2. /\ c \o data \in Seq(Nat) /\ Len(c \o data) = Len(c) + Len(data)
        /\ \A i \in 1 .. Len(c) + Len(data) :
             (c \o data)[i] = IF i <= Len(c) THEN c[i] ELSE data[i - Len(c)]
    BY <2>1, ConcatProperties
  <2>3. Len(c) = l /\ Len(data) = m /\ Len(d) = l + m
    BY <1>3, <1>5, <1>6, <1>7, <1>8
  <2>4. \A i \in 1 .. l + m : i <= l => i \in 1 .. l
    BY <1>4
  <2>5. \A i \in 1 .. l + m : (c \o data)[i] = d[i]
    BY <1>5, <1>6, <1>7, <1>8, <2>2, <2>3, <2>4
  <2>6. d \in Seq(Nat) /\ c \o data \in Seq(Nat) /\ Len(d) = Len(c \o data)
    BY <1>5, <1>7, <1>8, <2>2, <2>3
  <2>7. QED
    BY <2>3, <2>5, <2>6, SeqEqual
<1>9. ASSUME ~t.over, s.len = 0 PROVE d = data
  <2>1. l = 0
    BY <1>3, <1>9
  <2>2. Len(d) = m /\ \A i \in 1 .. m : d[i] = data[i]
    <3>1. \A i \in 1 .. m : i \in 1 .. l + m /\ ~(i <= l) /\ i - l = i
      BY <1>4, <2>1
    <3>2. QED
      BY <1>4, <1>5, <1>7, <1>9, <2>1, <3>1
  <2>3. d \in Seq(Nat) /\ data \in Seq(Nat) /\ Len(d) = Len(data)
    BY <1>3, <1>5, <1>7, <1>9, <2>2
  <2>4. QED
    BY <1>3, <2>2, <2>3, SeqEqual
<1>10. QED
  BY <1>2, <1>7, <1>8, <1>9

-----------------------------------------------------------------------------
(***************************************************************************)
(* What strlen and strcat make of a string.                                *)
(***************************************************************************)
\* The least of some numbers.
LEMMA LeastNumber ==
  ASSUME NEW n \in Nat, NEW T \in SUBSET (1 .. n), T # {}
  PROVE  Min(T) \in T /\ \A i \in T : Min(T) <= i
<1> DEFINE S == 1 .. n
           Upto == {1 .. k : k \in T}
<1>1. IsWellFoundedOn(StrictSubsetOrdering(S), SUBSET S)
  <2>1. IsFiniteSet(S)
    BY FS_Interval
  <2>2. FiniteSubsetsOf(S) = SUBSET S
    BY <2>1, FS_FiniteSubsetsOfFinite
  <2>3. IsWellFoundedOn(StrictSubsetOrdering(S), FiniteSubsetsOf(S))
    BY FS_StrictSubsetOrderingWellFounded
  <2> QED
    BY <2>2, <2>3
<1>2. Upto \subseteq SUBSET S /\ Upto # {}
  <2>1. PICK x \in T : TRUE
    OBVIOUS
  <2>2. 1 .. x \in Upto
    OBVIOUS
  <2>3. QED
    BY <2>2
<1> HIDE DEF Upto
<1>3. PICK s \in Upto : \A t \in Upto : <<t, s>> \notin StrictSubsetOrdering(S)
  BY <1>1, <1>2, WFMin
<1> USE DEF Upto
<1>4. PICK k \in T : s = 1 .. k
  OBVIOUS
<1>5. ASSUME NEW j \in T, j < k PROVE FALSE
  <2>1. 1 .. j \in Upto
    OBVIOUS
  <2>2. 1 .. j \subseteq s /\ 1 .. j # s /\ s \subseteq S
    <3>1. k \in 1 .. k /\ k \notin 1 .. j
      BY <1>5
    <3>2. QED
      BY <1>4, <1>5, <3>1
  <2>3. <<1 .. j, s>> \in StrictSubsetOrdering(S)
    BY <2>2 DEF StrictSubsetOrdering
  <2>4. QED
    BY <1>3, <2>1, <2>3
<1>6. \A j \in T : k <= j
  BY <1>5
<1>7. \E x \in T : \A y \in T : x <= y
  BY <1>6
<1>8. QED
  BY <1>7 DEF Min

\* The C string in a buffer that has a NUL: what is before the first.
LEMMA CStringIs ==
  ASSUME NEW s \in Sds
  PROVE  /\ CString(s) \in Seq(Nat)
         /\ NULs(s) # {} =>
              \E k \in 1 .. Len(s.buf) :
                /\ s.buf[k] = NUL /\ \A i \in 1 .. k - 1 : s.buf[i] # NUL
                /\ Len(CString(s)) = k - 1
                /\ \A i \in 1 .. k - 1 : CString(s)[i] = s.buf[i]
<1>1. PICK b, n : b = s.buf /\ n = Len(s.buf)
  OBVIOUS
<1>2. b \in Seq(Nat) /\ n \in Nat /\ DOMAIN b = 1 .. n /\ \A i \in 1 .. n : b[i] \in Nat
  BY <1>1, StringParts
<1>3. CASE NULs(s) = {}
  BY <1>1, <1>2, <1>3 DEF CString
<1>4. CASE NULs(s) # {}
  <2>1. PICK T : T = NULs(s)
    OBVIOUS
  <2>2. T = {i \in 1 .. n : b[i] = NUL} /\ T \in SUBSET (1 .. n) /\ T # {}
    BY <1>1, <1>2, <1>4, <2>1 DEF NULs
  <2>3. Min(T) \in T /\ \A i \in T : Min(T) <= i
    BY <1>2, <2>2, LeastNumber
  <2>4. PICK k : k = Min(T)
    OBVIOUS
  <2>5. k \in 1 .. n /\ b[k] = NUL
    BY <2>2, <2>3, <2>4
  <2>6. \A i \in 1 .. k - 1 : b[i] # NUL
    <3>1. \A i \in 1 .. k - 1 : i \in 1 .. n /\ ~(k <= i)
      BY <1>2, <2>5
    <3>2. QED
      BY <2>2, <2>3, <2>4, <3>1
  <2>7. CString(s) = SubSeq(b, 1, k - 1)
    BY <1>1, <1>4, <2>1, <2>4 DEF CString
  <2>8. PICK j : j = k - 1
    OBVIOUS
  <2>9. j \in 0 .. n
    BY <1>2, <2>5, <2>8
  <2>10. /\ SubSeq(b, 1, j) \in Seq(Nat)
         /\ Len(SubSeq(b, 1, j)) = IF 1 <= j THEN j - 1 + 1 ELSE 0
         /\ \A i \in 1 .. j - 1 + 1 : SubSeq(b, 1, j)[i] = b[1 + i - 1]
    BY <1>2, <2>9, SubSeqProperties
  <2>11. Len(SubSeq(b, 1, j)) = j /\ \A i \in 1 .. j : SubSeq(b, 1, j)[i] = b[i]
    <3>1. \A i \in 1 .. j : i \in 1 .. j - 1 + 1 /\ 1 + i - 1 = i
      BY <2>9
    <3>2. QED
      BY <2>9, <2>10, <3>1
  <2>12. QED
    BY <1>1, <2>5, <2>6, <2>7, <2>8, <2>10, <2>11
<1>5. QED
  BY <1>3, <1>4

\* A sequence whose elements another one begins with is a prefix of it.
LEMMA PrefixIf ==
  ASSUME NEW c \in Seq(Nat), NEW d \in Seq(Nat), Len(c) <= Len(d),
         \A i \in 1 .. Len(c) : c[i] = d[i]
  PROVE  IsPrefix(c, d)
<1>1. PICK n, m : n = Len(c) /\ m = Len(d)
  OBVIOUS
<1>2. /\ n \in Nat /\ m \in Nat /\ n <= m
      /\ \A i \in 1 .. n : c[i] \in Nat /\ c[i] = d[i]
      /\ \A i \in 1 .. m : d[i] \in Nat
  BY <1>1, LenProperties
<1>3. PICK p, q : p = SubSeq(c, 1, n) /\ q = SubSeq(d, 1, n)
  OBVIOUS
<1>4. /\ p \in Seq(Nat) /\ Len(p) = IF 1 <= n THEN n - 1 + 1 ELSE 0
      /\ \A i \in 1 .. n - 1 + 1 : p[i] = c[1 + i - 1]
  BY <1>2, <1>3, SubSeqProperties
<1>5. /\ q \in Seq(Nat) /\ Len(q) = IF 1 <= n THEN n - 1 + 1 ELSE 0
      /\ \A i \in 1 .. n - 1 + 1 : q[i] = d[1 + i - 1]
  BY <1>2, <1>3, SubSeqProperties
<1>6. Len(p) = n /\ Len(q) = n /\ \A i \in 1 .. n : p[i] = q[i]
  <2>1. \A i \in 1 .. n : i \in 1 .. n - 1 + 1 /\ 1 + i - 1 = i
    BY <1>2
  <2>2. QED
    BY <1>2, <1>4, <1>5, <2>1
<1>7. p = q
  BY <1>4, <1>5, <1>6, SeqEqual
<1>8. QED
  BY <1>1, <1>2, <1>3, <1>7 DEF IsPrefix

\* The C string has all of a content without NULs, and nothing behind it where
\* the buffer is blank.
LEMMA CStringHolds ==
  ASSUME NEW s \in Sds, s.len <= Len(s.buf), NULs(s) # {},
         \A i \in 1 .. s.len : Content(s)[i] # NUL
  PROVE  /\ IsPrefix(Content(s), CString(s))
         /\ \A n \in Nat : Blank(s, n) /\ n <= s.len => CString(s) = Content(s)
<1>1. PICK b, l, n, c, d :
        b = s.buf /\ l = s.len /\ n = Len(s.buf) /\ c = Content(s) /\ d = CString(s)
  OBVIOUS
<1>2. l \in Nat /\ n \in Nat /\ l <= n /\ DOMAIN b = 1 .. n
  BY <1>1, StringParts
<1>3. c \in Seq(Nat) /\ Len(c) = l /\ \A i \in 1 .. l : c[i] = b[i] /\ b[i] # NUL
  BY <1>1, ContentIs
<1>4. d \in Seq(Nat)
  BY <1>1, CStringIs
<1>5. PICK k \in 1 .. n :
        /\ b[k] = NUL /\ \A i \in 1 .. k - 1 : b[i] # NUL
        /\ Len(d) = k - 1 /\ \A i \in 1 .. k - 1 : d[i] = b[i]
  BY <1>1, CStringIs
<1>6. k > l
  BY <1>2, <1>3, <1>5
<1>7. \A i \in 1 .. l : c[i] = d[i]
  <2>1. \A i \in 1 .. l : i \in 1 .. k - 1
    BY <1>2, <1>6
  <2>2. QED
    BY <1>3, <1>5, <2>1
<1>8. IsPrefix(c, d)
  <2>1. Len(c) <= Len(d)
    BY <1>2, <1>3, <1>5, <1>6
  <2>2. QED
    BY <1>3, <1>4, <1>7, <2>1, PrefixIf
<1>9. ASSUME NEW m \in Nat, Blank(s, m), m <= s.len PROVE d = c
  <2>1. k = l + 1
    <3>1. SUFFICES ASSUME k > l + 1 PROVE FALSE
      BY <1>2, <1>6
    <3>2. l + 1 \in 1 .. n /\ l + 1 \in 1 .. k - 1 /\ l + 1 > m /\ l + 1 > l
      BY <1>1, <1>2, <1>9, <3>1
    <3>3. b[l + 1] = NUL
      BY <1>1, <1>2, <1>9, <3>2 DEF Blank
    <3>4. QED
      BY <1>5, <3>2, <3>3
  <2>2. Len(d) = l
    BY <1>2, <1>5, <2>1
  <2>3. QED
    BY <1>3, <1>4, <1>7, <2>2, SeqEqual
<1>10. QED
  BY <1>1, <1>8, <1>9

\* A request has no NUL in it.
LEMMA RequestType ==
  ASSUME NEW r \in Requests
  PROVE  r \in Seq(Nat) /\ \A i \in 1 .. Len(r) : r[i] # NUL
<1>1. CASE r = MULTI \/ r = EXEC
  <2>1. ASSUME NEW v \in {1, 2}, r = <<v>> PROVE r \in Seq(Nat) /\ Len(r) = 1 /\ r[1] # 0
    BY <2>1
  <2>2. r = <<1>> \/ r = <<2>>
    BY <1>1 DEF MULTI, EXEC
  <2>3. QED
    BY <2>1, <2>2 DEF NUL
<1>2. CASE r \in Writes
  <2>1. PICK n \in Lengths : r = [i \in 1 .. n |-> n + 1]
    BY <1>2 DEF Writes
  <2>2. n \in Nat /\ n + 1 \in Nat /\ n + 1 # 0
    BY LengthsAssumption
  <2>3. r \in [1 .. n -> Nat]
    BY <2>1, <2>2
  <2>4. r \in Seq(Nat) /\ Len(r) = n
    BY <2>2, <2>3
  <2>5. QED
    BY <2>1, <2>2, <2>4 DEF NUL
<1>3. QED
  BY <1>1, <1>2 DEF Requests

-----------------------------------------------------------------------------
(***************************************************************************)
(* The handlers.                                                           *)
(***************************************************************************)
\* Where a byte past an allocation was touched, before a step and after it.
LEMMA OverrunIs ==
  /\ Overrun <=> readBuf.over \/ writeBuf.over \/ \E i \in 1 .. QueueCap : multcmds[i].over
  /\ Overrun' <=> readBuf'.over \/ writeBuf'.over \/ \E i \in 1 .. QueueCap : multcmds'[i].over
BY DEF Overrun, Strings

\* What a round of processClientQueryBuf starts from: s is the request, slots
\* are those of the queue, of which the ones from e on are still to be executed.
Arrived(s, slots, e) ==
  /\ StrOK(s) /\ Blank(s, longest) /\ (~s.over => Content(s) \in Requests)
  /\ slots \in [1 .. QueueCap -> Sds]
  /\ \A i \in 1 .. QueueCap : StrOK(slots[i]) /\ ~slots[i].over
  /\ e \in 0 .. QueueCap + 1
  /\ \A i \in 1 .. multiCmdCount : i >= e => Content(slots[i]) = queue[i]

\* clientMultiAdd moves the request to the next slot.
LEMMA AddKeeps ==
  ASSUME SdsInv, ~Overrun, NEW s, NEW slots, NEW e, Arrived(s, slots, e),
         clientMultiAdd(s, slots), UNCHANGED <<writeBuf, multi, last>>,
         exec' = e, reads' \in 0 .. MaxReads
  PROVE  SdsInv'
<1>1. /\ writeBuf' = writeBuf /\ multi' = multi /\ last' = last
      /\ multiCmdCount' = multiCmdCount + 1 /\ multiCmdCount < QueueCap
      /\ multcmds' = [slots EXCEPT ![multiCmdCount + 1]
                                     = sdscatlen(sdsclear(slots[multiCmdCount + 1]), Content(s))]
      /\ readBuf' = sdsclear(Emptied(s))
      /\ queue' = Append(queue, Content(s))
      /\ longest' = IF s.len > longest THEN s.len ELSE longest
  BY DEF clientMultiAdd
<1>2. Types /\ Holds
  BY DEF SdsInv
<1>3. PICK n, c, o, p, t :
        /\ n = multiCmdCount + 1 /\ c = Content(s) /\ o = slots[multiCmdCount + 1]
        /\ p = sdsclear(slots[multiCmdCount + 1])
        /\ t = sdscatlen(sdsclear(slots[multiCmdCount + 1]), Content(s))
  OBVIOUS
<1>4. n \in 1 .. QueueCap /\ n = multiCmdCount + 1 /\ multiCmdCount \in Nat
  BY <1>1, <1>2, <1>3, BoundsAssumption DEF Types
<1>5. s \in Sds /\ c \in Seq(Nat) /\ s.len \in Nat /\ longest \in Nat
  BY <1>2, <1>3, ContentIs, StringParts DEF Arrived, StrOK, Types
<1>6. StrOK(p) /\ p.len = 0 /\ p.over = FALSE /\ p.len <= Len(p.buf)
  <2>1. StrOK(o) /\ ~o.over
    BY <1>3, <1>4 DEF Arrived
  <2>2. StrOK(p) /\ p.len = 0 /\ p.over = o.over
    BY <1>3, <2>1, ClearKeeps
  <2>3. o.over \in BOOLEAN /\ Len(p.buf) \in Nat
    BY <2>1, <2>2, StringParts DEF StrOK
  <2>4. QED
    BY <2>1, <2>2, <2>3
<1>7. StrOK(t) /\ t \in Sds /\ (~t.over => Content(t) = c)
  <2>1. t = sdscatlen(p, c)
    BY <1>3
  <2>2. Appended(p, c, t)
    BY <1>5, <1>6, <2>1, CatAppends
  <2>3. QED
    BY <1>5, <1>6, <2>2, AppendedHolds DEF StrOK
<1>8. multcmds' = [slots EXCEPT ![n] = t]
  BY <1>1, <1>3
<1>9. /\ multcmds' \in [1 .. QueueCap -> Sds]
      /\ multcmds'[n] = t /\ \A i \in 1 .. QueueCap : i # n => multcmds'[i] = slots[i]
  BY <1>4, <1>7, <1>8 DEF Arrived
<1>10. PICK u : u = Emptied(s)
  OBVIOUS
<1>11. /\ StrOK(u) /\ u.len = 0 /\ u.over = s.over
       /\ \A k, m \in Nat : Blank(s, k) /\ k <= m /\ s.len <= m => Blank(u, m)
  BY <1>10, EmptiedKeeps DEF Arrived
<1>12. PICK r : r = sdsclear(u)
  OBVIOUS
<1>13. /\ StrOK(r) /\ r.len = 0 /\ r.over = s.over
       /\ \A m \in Nat : Blank(u, m) => Blank(r, m)
  BY <1>11, <1>12, ClearKeeps
<1>14. readBuf' = r
  BY <1>1, <1>10, <1>12
<1>15. longest' \in Nat /\ longest <= longest' /\ s.len <= longest'
  BY <1>1, <1>5
<1>16. Types'
  <2>1. \A i \in 1 .. QueueCap : StrOK(multcmds'[i])
    BY <1>7, <1>9 DEF Arrived
  <2>2. multiCmdCount' \in 0 .. QueueCap
    BY <1>1, <1>4
  <2>3. exec' \in 0 .. QueueCap + 1
    BY DEF Arrived
  <2>4. StrOK(readBuf') /\ StrOK(writeBuf')
    BY <1>1, <1>2, <1>13, <1>14 DEF Types
  <2>5. multi' \in BOOLEAN /\ last'.cmd \in Seq(Nat) /\ last'.bytes \in Seq(Nat)
    BY <1>1, <1>2 DEF Types
  <2>6. QED
    BY <1>9, <1>15, <2>1, <2>2, <2>3, <2>4, <2>5 DEF Types
<1>17. ASSUME ~Overrun'
       PROVE  /\ queue' \in Seq(Requests) /\ Len(queue') = multiCmdCount'
              /\ \A i \in 1 .. multiCmdCount' : i >= exec' => Content(multcmds'[i]) = queue'[i]
              /\ exec' = 0 => readBuf'.len = 0
              /\ Blank(readBuf', longest')
              /\ IsPrefix(last'.cmd, last'.bytes)
              /\ Len(last'.cmd) >= longest' => last'.bytes = last'.cmd
  <2>1. ~s.over /\ ~t.over
    BY <1>4, <1>9, <1>13, <1>14, <1>17, OverrunIs
  <2>2. c \in Requests /\ Content(t) = c
    BY <1>3, <1>7, <2>1 DEF Arrived
  <2>3. /\ queue \in Seq(Requests) /\ Len(queue) = multiCmdCount
        /\ IsPrefix(last.cmd, last.bytes)
        /\ (Len(last.cmd) >= longest => last.bytes = last.cmd)
    BY <1>2 DEF Holds
  <2>4. PICK q : q = Append(queue, c)
    OBVIOUS
  <2>5. /\ q \in Seq(Requests) /\ Len(q) = Len(queue) + 1
        /\ \A i \in 1 .. Len(queue) : q[i] = queue[i]
        /\ q[Len(queue) + 1] = c
    BY <2>2, <2>3, <2>4, AppendProperties
  <2>6. queue' = q /\ q[n] = c /\ \A i \in 1 .. multiCmdCount : q[i] = queue[i]
    BY <1>1, <1>3, <2>3, <2>4, <2>5
  <2>7. ASSUME NEW i \in 1 .. n, i >= e PROVE Content(multcmds'[i]) = q[i]
    <3>1. CASE i = n
      BY <1>9, <2>2, <2>6, <3>1
    <3>2. CASE i # n
      <4>1. i \in 1 .. multiCmdCount /\ i \in 1 .. QueueCap
        BY <1>4, <3>2, BoundsAssumption
      <4>2. multcmds'[i] = slots[i] /\ Content(slots[i]) = queue[i] /\ q[i] = queue[i]
        BY <1>9, <2>6, <2>7, <3>2, <4>1 DEF Arrived
      <4>3. QED
        BY <4>2
    <3>3. QED
      BY <3>1, <3>2
  <2>8. Blank(readBuf', longest')
    <3>1. Blank(s, longest)
      BY DEF Arrived
    <3>2. Blank(u, longest')
      BY <1>5, <1>11, <1>15, <3>1
    <3>3. QED
      BY <1>13, <1>14, <1>15, <3>2
  <2>9. Len(last.cmd) >= longest' => Len(last.cmd) >= longest
    <3>1. Len(last.cmd) \in Nat
      BY <1>2, LenProperties DEF Types
    <3>2. QED
      BY <1>5, <1>15, <3>1
  <2>10. Len(queue') = multiCmdCount' /\ queue' \in Seq(Requests)
    BY <1>1, <2>3, <2>5, <2>6
  <2>11. \A i \in 1 .. multiCmdCount' : i >= exec' => Content(multcmds'[i]) = queue'[i]
    BY <1>1, <1>3, <2>6, <2>7
  <2>12. QED
    BY <1>1, <1>13, <1>14, <2>3, <2>8, <2>9, <2>10, <2>11
<1>18. Holds'
  BY <1>17 DEF Holds
<1>19. QED
  BY <1>16, <1>18 DEF SdsInv

\* The bytes that commandPropagate appends to the replica's writeBuf.
LEMMA PropagateKeeps ==
  ASSUME StrOK(writeBuf), ~writeBuf.over, NEW s \in Sds, commandPropagate(s)
  PROVE  /\ StrOK(writeBuf')
         /\ ~writeBuf'.over => NULs(s) # {}
         /\ NULs(s) # {} /\ ~Overstated(writeBuf) => ~writeBuf'.over
         /\ last'.cmd = Content(s) /\ last'.bytes = CString(s)
<1>1. PICK w, d, t :
        w = writeBuf /\ d = CString(s) /\ t = sdscatlen(writeBuf, CString(s))
  OBVIOUS
<1>2. d \in Seq(Nat)
  BY <1>1, CStringIs
<1>3. /\ StrOK(w) /\ w \in Sds /\ w.over \in BOOLEAN /\ ~w.over
      /\ w.len <= Len(w.buf)
  BY <1>1, StringParts DEF StrOK
<1>4. Appended(w, d, t)
  <2>1. t = sdscatlen(w, d)
    BY <1>1
  <2>2. QED
    BY <1>2, <1>3, <2>1, CatAppends
<1>5. StrOK(t) /\ t \in Sds /\ t.over \in BOOLEAN
  BY <1>2, <1>3, <1>4, AppendedHolds, StringParts DEF StrOK
<1>6. PICK v : v = [t EXCEPT !.over = t.over \/ NULs(s) = {}]
  OBVIOUS
<1>7. writeBuf' = v /\ last'.cmd = Content(s) /\ last'.bytes = CString(s)
  BY <1>1, <1>6 DEF commandPropagate
<1>8. /\ v \in Sds /\ v.buf = t.buf /\ v.len = t.len /\ v.free = t.free
      /\ v.over = (t.over \/ NULs(s) = {})
  BY <1>5, <1>6 DEF Sds
<1>9. StrOK(v)
  BY <1>5, <1>8 DEF StrOK, Overstated
<1>10. ~v.over => NULs(s) # {}
  BY <1>8
<1>11. NULs(s) # {} /\ ~Overstated(w) => ~v.over
  <2>1. ~Overstated(w) => t.over = w.over
    BY <1>4 DEF Appended
  <2>2. QED
    BY <1>3, <1>8, <2>1
<1>12. QED
  BY <1>1, <1>7, <1>9, <1>10, <1>11

\* Outside of MULTI a request starts one or is carried out and propagated.
LEMMA CommandKeeps ==
  ASSUME SdsInv, ~Overrun, NEW s, NEW slots, NEW e, Arrived(s, slots, e),
         multi' = (Content(s) = MULTI),
         IF Content(s) = MULTI THEN UNCHANGED <<writeBuf, last>> ELSE commandPropagate(s),
         readBuf' = sdsclear(s), multcmds' = slots,
         UNCHANGED <<multiCmdCount, queue, longest>>,
         exec' = e, reads' \in 0 .. MaxReads
  PROVE  SdsInv'
<1>1. Types /\ Holds
  BY DEF SdsInv
<1>2. PICK c, d, r : c = Content(s) /\ d = CString(s) /\ r = sdsclear(s)
  OBVIOUS
<1>3. /\ StrOK(s) /\ s \in Sds /\ s.over \in BOOLEAN /\ s.len \in Nat
      /\ c \in Seq(Nat) /\ d \in Seq(Nat) /\ longest \in Nat
  BY <1>1, <1>2, ContentIs, CStringIs, StringParts DEF Arrived, StrOK, Types
<1>4. /\ StrOK(r) /\ r.len = 0 /\ r.over = s.over
      /\ \A m \in Nat : Blank(s, m) => Blank(r, m)
  BY <1>2, <1>3, ClearKeeps
<1>5. StrOK(writeBuf) /\ ~writeBuf.over
  BY <1>1, OverrunIs DEF Types
<1>6. ASSUME Content(s) # MULTI
      PROVE  /\ StrOK(writeBuf') /\ (~writeBuf'.over => NULs(s) # {})
             /\ last'.cmd = c /\ last'.bytes = d
  <2>1. commandPropagate(s)
    BY <1>6
  <2>2. QED
    BY <1>2, <1>3, <1>5, <2>1, PropagateKeeps
<1>7. StrOK(writeBuf') /\ last'.cmd \in Seq(Nat) /\ last'.bytes \in Seq(Nat)
  <2>1. CASE Content(s) = MULTI
    BY <1>1, <2>1 DEF Types
  <2>2. CASE Content(s) # MULTI
    BY <1>3, <1>6, <2>2
  <2>3. QED
    BY <2>1, <2>2
<1>8. Types'
  <2>1. /\ multcmds' \in [1 .. QueueCap -> Sds]
        /\ (\A i \in 1 .. QueueCap : StrOK(multcmds'[i]))
        /\ exec' \in 0 .. QueueCap + 1
    BY DEF Arrived
  <2>2. /\ StrOK(readBuf') /\ multi' \in BOOLEAN
        /\ multiCmdCount' \in 0 .. QueueCap /\ longest' \in Nat
    BY <1>1, <1>2, <1>4 DEF Types
  <2>3. QED
    BY <1>7, <2>1, <2>2 DEF Types
<1>9. ASSUME ~Overrun'
      PROVE  /\ IsPrefix(last'.cmd, last'.bytes)
             /\ Len(last'.cmd) >= longest' => last'.bytes = last'.cmd
  <2>1. CASE Content(s) = MULTI
    BY <1>1, <2>1 DEF Holds
  <2>2. CASE Content(s) # MULTI
    <3>1. ~s.over /\ ~writeBuf'.over
      BY <1>2, <1>4, <1>9, OverrunIs
    <3>2. NULs(s) # {} /\ s.len <= Len(s.buf) /\ c \in Requests
      BY <1>2, <1>3, <1>6, <2>2, <3>1 DEF Arrived, StrOK
    <3>3. Len(c) = s.len /\ \A i \in 1 .. s.len : Content(s)[i] # NUL
      <4>1. Len(c) = s.len
        BY <1>2, <1>3, <3>2, ContentIs
      <4>2. \A i \in 1 .. Len(c) : c[i] # NUL
        BY <3>2, RequestType
      <4>3. QED
        BY <1>2, <4>1, <4>2
    <3>4. IsPrefix(c, d) /\ \A n \in Nat : Blank(s, n) /\ n <= s.len => d = c
      BY <1>2, <1>3, <3>2, <3>3, CStringHolds
    <3>5. Blank(s, longest)
      BY DEF Arrived
    <3>6. Len(c) >= longest => d = c
      BY <1>3, <3>3, <3>4, <3>5
    <3>7. QED
      BY <1>6, <2>2, <3>4, <3>6
  <2>3. QED
    BY <2>1, <2>2
<1>10. Holds'
  <2>1. ASSUME ~Overrun'
        PROVE  /\ queue' \in Seq(Requests) /\ Len(queue') = multiCmdCount'
               /\ \A i \in 1 .. multiCmdCount' : i >= exec' => Content(multcmds'[i]) = queue'[i]
               /\ exec' = 0 => readBuf'.len = 0
               /\ Blank(readBuf', longest')
    <3>1. queue' \in Seq(Requests) /\ Len(queue') = multiCmdCount'
      BY <1>1 DEF Holds
    <3>2. \A i \in 1 .. multiCmdCount' : i >= exec' => Content(multcmds'[i]) = queue'[i]
      BY DEF Arrived
    <3>3. readBuf'.len = 0 /\ Blank(readBuf', longest')
      <4>1. Blank(s, longest)
        BY DEF Arrived
      <4>2. Blank(r, longest)
        BY <1>3, <1>4, <4>1
      <4>3. readBuf' = r /\ longest' = longest
        BY <1>2
      <4>4. QED
        BY <1>4, <4>2, <4>3
    <3>4. QED
      BY <3>1, <3>2, <3>3
  <2>2. QED
    BY <1>9, <2>1 DEF Holds
<1>11. QED
  BY <1>8, <1>10 DEF SdsInv

\* A request that has arrived is queued or carried out.
LEMMA ProcessKeeps ==
  ASSUME SdsInv, ~Overrun, NEW s, NEW slots, NEW e, Arrived(s, slots, e),
         processClientQueryBuf(s, slots), exec' = e, reads' \in 0 .. MaxReads
  PROVE  SdsInv'
<1>1. CASE clientMultiAdd(s, slots) /\ UNCHANGED <<writeBuf, multi, last>>
  BY <1>1, AddKeeps
<1>2. CASE /\ multi' = (Content(s) = MULTI)
           /\ IF Content(s) = MULTI THEN UNCHANGED <<writeBuf, last>> ELSE commandPropagate(s)
           /\ readBuf' = sdsclear(s) /\ multcmds' = slots
           /\ UNCHANGED <<multiCmdCount, queue, longest>>
  BY <1>2, CommandKeeps
<1>3. QED
  BY <1>1, <1>2 DEF processClientQueryBuf

\* A request is put into readBuf, empty or emptied for it; all of its bytes
\* arrive unless they run over, and what is left behind it does not change.
LEMMA RequestArrives ==
  ASSUME NEW s, StrOK(s), ~s.over, s.len = 0, NEW r \in Requests,
         NEW n \in Nat, NEW t, t = sdscatlen(s, r)
  PROVE  /\ StrOK(t) /\ t.len = Len(r) /\ (~t.over => Content(t) = r)
         /\ Blank(s, n) => Blank(t, n)
         /\ ~Overstated(s) => ~t.over /\ NULs(t) # {}
<1>1. /\ s \in Sds /\ s.over \in BOOLEAN /\ r \in Seq(Nat) /\ Len(r) \in Nat
      /\ s.len <= Len(s.buf)
  BY RequestType, StringParts, LenProperties DEF StrOK
<1>2. Appended(s, r, t)
  BY <1>1, CatAppends
<1>3. StrOK(t) /\ (~t.over => Content(t) = r)
  BY <1>1, <1>2, AppendedHolds
<1>4. t.len = Len(r)
  BY <1>1, <1>2 DEF Appended
<1>5. Blank(s, n) => Blank(t, n)
  BY <1>2 DEF Appended
<1>6. ASSUME ~Overstated(s) PROVE ~t.over /\ NULs(t) # {}
  <2>1. t.over = s.over /\ t.buf[Len(t.buf)] = NUL /\ t \in Sds /\ Len(t.buf) >= 1
    BY <1>2, <1>6 DEF Appended
  <2>2. Len(t.buf) \in DOMAIN t.buf
    BY <2>1, StringParts
  <2>3. Len(t.buf) \in NULs(t)
    BY <2>1, <2>2 DEF NULs
  <2>4. QED
    BY <2>1, <2>3
<1>7. QED
  BY <1>3, <1>4, <1>5, <1>6

\* No string ran over yet: each has its length inside it.
LEMMA NoneOver ==
  ASSUME SdsInv, ~Overrun
  PROVE  /\ Types /\ Holds
         /\ StrOK(readBuf) /\ ~readBuf.over /\ readBuf.len <= Len(readBuf.buf)
         /\ \A i \in 1 .. QueueCap :
              StrOK(multcmds[i]) /\ ~multcmds[i].over /\ multcmds[i].len <= Len(multcmds[i].buf)
<1>1. Types /\ Holds /\ ~readBuf.over /\ \A i \in 1 .. QueueCap : ~multcmds[i].over
  BY OverrunIs DEF SdsInv
<1>2. QED
  BY <1>1 DEF Types, StrOK

\* A request other than EXEC is read.
LEMMA ReadKeeps ==
  ASSUME SdsInv, NEW request \in Requests \ {EXEC}, readFromClient(request)
  PROVE  SdsInv'
<1>1. /\ ~Overrun /\ exec = 0 /\ reads < MaxReads /\ reads' = reads + 1 /\ exec' = exec
      /\ processClientQueryBuf(sdscatlen(readBuf, request), multcmds)
  BY DEF readFromClient, Reads
<1>2. /\ Types /\ Holds /\ StrOK(readBuf) /\ ~readBuf.over
      /\ \A i \in 1 .. QueueCap : StrOK(multcmds[i]) /\ ~multcmds[i].over
  BY <1>1, NoneOver
<1>3. readBuf.len = 0 /\ Blank(readBuf, longest) /\ longest \in Nat
  BY <1>1, <1>2 DEF Holds, Types
<1>4. PICK s, e : s = sdscatlen(readBuf, request) /\ e = 0
  OBVIOUS
<1>5. StrOK(s) /\ (~s.over => Content(s) = request) /\ Blank(s, longest)
  BY <1>2, <1>3, <1>4, RequestArrives
<1>6. Arrived(s, multcmds, e)
  <2>1. multcmds \in [1 .. QueueCap -> Sds] /\ e \in 0 .. QueueCap + 1
    BY <1>2, <1>4, BoundsAssumption DEF Types
  <2>2. \A i \in 1 .. multiCmdCount : i >= e => Content(multcmds[i]) = queue[i]
    BY <1>1, <1>2, <1>4 DEF Holds
  <2>3. ~s.over => Content(s) \in Requests
    BY <1>5
  <2>4. QED
    BY <1>2, <1>5, <2>1, <2>2, <2>3 DEF Arrived
<1>7. reads' \in 0 .. MaxReads /\ exec' = e
  BY <1>1, <1>2, <1>4, BoundsAssumption DEF Types
<1>8. QED
  BY <1>1, <1>4, <1>6, <1>7, ProcessKeeps

\* EXEC after a write to a watched key.
LEMMA RejectedKeeps ==
  ASSUME SdsInv, ExecRejected
  PROVE  SdsInv'
<1>1. /\ ~Overrun /\ reads < MaxReads /\ reads' = reads + 1 /\ exec = 0
      /\ readBuf' = sdsclear(sdscatlen(readBuf, EXEC))
      /\ multi' = FALSE /\ multiCmdCount' = 0 /\ queue' = <<>>
      /\ UNCHANGED <<multcmds, writeBuf, exec, longest, last>>
  BY DEF ExecRejected, Reads
<1>2. Types /\ Holds /\ StrOK(readBuf) /\ ~readBuf.over /\ EXEC \in Requests
  BY <1>1, NoneOver DEF Requests
<1>3. readBuf.len = 0 /\ Blank(readBuf, longest) /\ longest \in Nat
  BY <1>1, <1>2 DEF Holds, Types
<1>4. PICK s, r : s = sdscatlen(readBuf, EXEC) /\ r = sdsclear(s)
  OBVIOUS
<1>5. StrOK(s) /\ Blank(s, longest)
  BY <1>2, <1>3, <1>4, RequestArrives
<1>6. StrOK(r) /\ r.len = 0 /\ Blank(r, longest)
  BY <1>3, <1>4, <1>5, ClearKeeps
<1>7. readBuf' = r
  BY <1>1, <1>4
<1>8. Types'
  <2>1. /\ reads' \in 0 .. MaxReads /\ exec' \in 0 .. QueueCap + 1
        /\ multiCmdCount' \in 0 .. QueueCap
    <3>1. reads \in 0 .. MaxReads /\ multiCmdCount \in 0 .. QueueCap
      BY <1>2 DEF Types
    <3>2. QED
      BY <1>1, <3>1, BoundsAssumption
  <2>2. multi' \in BOOLEAN /\ StrOK(readBuf') /\ StrOK(writeBuf')
    BY <1>1, <1>2, <1>6, <1>7 DEF Types
  <2>3. QED
    BY <1>1, <1>2, <2>1, <2>2 DEF Types
<1>9. Holds'
  <2>1. /\ queue' \in Seq(Requests) /\ Len(queue') = multiCmdCount'
        /\ 1 .. multiCmdCount' = {}
    BY <1>1
  <2>2. readBuf'.len = 0 /\ Blank(readBuf', longest')
    BY <1>1, <1>6, <1>7
  <2>3. /\ IsPrefix(last'.cmd, last'.bytes)
        /\ Len(last'.cmd) >= longest' => last'.bytes = last'.cmd
    BY <1>1, <1>2 DEF Holds
  <2>4. QED
    BY <2>1, <2>2, <2>3 DEF Holds
<1>10. QED
  BY <1>8, <1>9 DEF SdsInv

\* EXEC is read, and the loop over the slots begins.
LEMMA BeginsKeeps ==
  ASSUME SdsInv, ExecBegins
  PROVE  SdsInv'
<1>1. /\ ~Overrun /\ reads < MaxReads /\ reads' = reads + 1 /\ exec = 0
      /\ readBuf' = sdscatlen(readBuf, EXEC)
      /\ multi' = FALSE /\ exec' = 1
      /\ UNCHANGED <<multcmds, writeBuf, multiCmdCount, queue, longest, last>>
  BY DEF ExecBegins, Reads, ghosts
<1>2. Types /\ Holds /\ StrOK(readBuf) /\ ~readBuf.over /\ EXEC \in Requests
  BY <1>1, NoneOver DEF Requests
<1>3. readBuf.len = 0 /\ Blank(readBuf, longest) /\ longest \in Nat
  BY <1>1, <1>2 DEF Holds, Types
<1>4. PICK s : s = sdscatlen(readBuf, EXEC)
  OBVIOUS
<1>5. StrOK(s) /\ Blank(s, longest)
  BY <1>2, <1>3, <1>4, RequestArrives
<1>6. readBuf' = s
  BY <1>1, <1>4
<1>7. Types'
  <2>1. /\ reads' \in 0 .. MaxReads /\ exec' \in 0 .. QueueCap + 1
        /\ multiCmdCount' \in 0 .. QueueCap
    <3>1. reads \in 0 .. MaxReads /\ multiCmdCount \in 0 .. QueueCap
      BY <1>2 DEF Types
    <3>2. QED
      BY <1>1, <3>1, BoundsAssumption
  <2>2. multi' \in BOOLEAN /\ StrOK(readBuf') /\ StrOK(writeBuf')
    BY <1>1, <1>2, <1>5, <1>6 DEF Types
  <2>3. QED
    BY <1>1, <1>2, <2>1, <2>2 DEF Types
<1>8. Holds'
  <2>1. /\ queue' \in Seq(Requests) /\ Len(queue') = multiCmdCount'
        /\ \A i \in 1 .. multiCmdCount' : Content(multcmds'[i]) = queue'[i]
    BY <1>1, <1>2 DEF Holds
  <2>2. exec' # 0 /\ Blank(readBuf', longest')
    BY <1>1, <1>5, <1>6
  <2>3. /\ IsPrefix(last'.cmd, last'.bytes)
        /\ Len(last'.cmd) >= longest' => last'.bytes = last'.cmd
    BY <1>1, <1>2 DEF Holds
  <2>4. QED
    BY <2>1, <2>2, <2>3 DEF Holds
<1>9. QED
  BY <1>7, <1>8 DEF SdsInv

\* The string and the slots a round of commandExecProc starts from.
LEMMA NextArrives ==
  ASSUME SdsInv, ~Overrun, exec \in 1 .. multiCmdCount,
         NEW s, s = sdscatlen(sdsclear(readBuf), Content(multcmds[exec])),
         NEW slots, slots = [multcmds EXCEPT ![exec] = sdsclear(Emptied(multcmds[exec]))]
  PROVE  /\ Arrived(s, slots, exec + 1)
         /\ \A i \in 1 .. QueueCap : i # exec => slots[i] = multcmds[i]
         /\ ~Overstated(readBuf) => ~s.over /\ NULs(s) # {}
<1>1. /\ Types /\ Holds /\ StrOK(readBuf) /\ ~readBuf.over
      /\ \A i \in 1 .. QueueCap :
           StrOK(multcmds[i]) /\ ~multcmds[i].over /\ multcmds[i].len <= Len(multcmds[i].buf)
  BY NoneOver
<1>2. /\ exec \in 1 .. QueueCap /\ longest \in Nat /\ Blank(readBuf, longest)
      /\ exec + 1 \in 0 .. QueueCap + 1
  BY <1>1, BoundsAssumption DEF Types, Holds
<1>3. PICK q, r : q = Content(multcmds[exec]) /\ r = sdsclear(readBuf)
  OBVIOUS
<1>4. q \in Requests
  <2>1. q = queue[exec] /\ queue \in Seq(Requests) /\ Len(queue) = multiCmdCount
    BY <1>1, <1>3 DEF Holds
  <2>2. QED
    BY <2>1, LenProperties
<1>5. /\ StrOK(r) /\ r.len = 0 /\ r.over = readBuf.over /\ Blank(r, longest)
      /\ Overstated(r) <=> Overstated(readBuf)
  BY <1>1, <1>2, <1>3, ClearKeeps
<1>6. /\ StrOK(s) /\ (~s.over => Content(s) = q) /\ Blank(s, longest)
      /\ ~Overstated(readBuf) => ~s.over /\ NULs(s) # {}
  <2>1. s = sdscatlen(r, q) /\ ~r.over
    BY <1>1, <1>3, <1>5
  <2>2. QED
    BY <1>2, <1>4, <1>5, <2>1, RequestArrives
<1>7. PICK o, u, v : o = multcmds[exec] /\ u = Emptied(multcmds[exec])
                       /\ v = sdsclear(Emptied(multcmds[exec]))
  OBVIOUS
<1>8. StrOK(u) /\ u.over = o.over
  <2>1. StrOK(o) /\ u = Emptied(o)
    BY <1>1, <1>2, <1>7
  <2>2. QED
    BY <2>1, EmptiedKeeps
<1>9. StrOK(v) /\ v.over = u.over
  <2>1. v = sdsclear(u)
    BY <1>7
  <2>2. QED
    BY <1>8, <2>1, ClearKeeps
<1>10. v \in Sds /\ ~v.over
  BY <1>1, <1>2, <1>7, <1>8, <1>9 DEF StrOK
<1>11. /\ slots \in [1 .. QueueCap -> Sds] /\ slots[exec] = v
       /\ \A i \in 1 .. QueueCap : i # exec => slots[i] = multcmds[i]
  BY <1>1, <1>2, <1>7, <1>10 DEF Types
<1>12. \A i \in 1 .. QueueCap : StrOK(slots[i]) /\ ~slots[i].over
  BY <1>1, <1>9, <1>10, <1>11
<1>13. \A i \in 1 .. multiCmdCount : i >= exec + 1 => Content(slots[i]) = queue[i]
  <2>1. \A i \in 1 .. multiCmdCount : i >= exec + 1 =>
          i \in 1 .. QueueCap /\ i # exec /\ i >= exec
    BY <1>1, <1>2, BoundsAssumption DEF Types
  <2>2. QED
    BY <1>1, <1>11, <2>1 DEF Holds
<1>14. Arrived(s, slots, exec + 1)
  BY <1>2, <1>4, <1>6, <1>11, <1>12, <1>13 DEF Arrived
<1>15. QED
  BY <1>6, <1>11, <1>14

\* A slot is moved to readBuf and carried out.
LEMMA NextKeeps ==
  ASSUME SdsInv, ExecNext
  PROVE  SdsInv'
<1>1. PICK s, slots, e :
        /\ s = sdscatlen(sdsclear(readBuf), Content(multcmds[exec]))
        /\ slots = [multcmds EXCEPT ![exec] = sdsclear(Emptied(multcmds[exec]))]
        /\ e = exec + 1
  OBVIOUS
<1>2. /\ ~Overrun /\ exec \in 1 .. multiCmdCount /\ processClientQueryBuf(s, slots)
      /\ exec' = e /\ reads' = reads
  BY <1>1 DEF ExecNext
<1>3. Arrived(s, slots, e)
  BY <1>1, <1>2, NextArrives
<1>4. reads' \in 0 .. MaxReads
  BY <1>2 DEF SdsInv, Types
<1>5. QED
  BY <1>2, <1>3, <1>4, ProcessKeeps

\* EXEC is over.
LEMMA EndsKeeps ==
  ASSUME SdsInv, ExecEnds
  PROVE  SdsInv'
<1>1. /\ ~Overrun /\ exec' = 0 /\ multiCmdCount' = 0 /\ queue' = <<>>
      /\ readBuf' = sdsclear(readBuf)
      /\ UNCHANGED <<multcmds, writeBuf, multi, reads, longest, last>>
  BY DEF ExecEnds
<1>2. Types /\ Holds /\ StrOK(readBuf)
  BY <1>1, NoneOver
<1>3. longest \in Nat /\ Blank(readBuf, longest)
  BY <1>1, <1>2 DEF Types, Holds
<1>4. PICK r : r = sdsclear(readBuf)
  OBVIOUS
<1>5. StrOK(r) /\ r.len = 0 /\ Blank(r, longest)
  BY <1>2, <1>3, <1>4, ClearKeeps
<1>6. readBuf' = r
  BY <1>1, <1>4
<1>7. Types'
  BY <1>1, <1>2, <1>5, <1>6, BoundsAssumption DEF Types
<1>8. Holds'
  <2>1. /\ queue' \in Seq(Requests) /\ Len(queue') = multiCmdCount'
        /\ 1 .. multiCmdCount' = {}
    BY <1>1
  <2>2. readBuf'.len = 0 /\ Blank(readBuf', longest')
    BY <1>1, <1>5, <1>6
  <2>3. /\ IsPrefix(last'.cmd, last'.bytes)
        /\ Len(last'.cmd) >= longest' => last'.bytes = last'.cmd
    BY <1>1, <1>2 DEF Holds
  <2>4. QED
    BY <2>1, <2>2, <2>3 DEF Holds
<1>9. QED
  BY <1>7, <1>8 DEF SdsInv

\* The replica takes its writeBuf.
LEMMA SendKeeps ==
  ASSUME SdsInv, sendToClient
  PROVE  SdsInv'
<1>1. /\ ~Overrun /\ writeBuf' = sdsclear(writeBuf)
      /\ UNCHANGED <<readBuf, multcmds, multi, multiCmdCount, exec, reads, queue, longest, last>>
  BY DEF sendToClient, ghosts
<1>2. Types /\ Holds
  BY DEF SdsInv
<1>3. PICK r : r = sdsclear(writeBuf)
  OBVIOUS
<1>4. StrOK(r)
  BY <1>2, <1>3, ClearKeeps DEF Types
<1>5. Types'
  BY <1>1, <1>2, <1>3, <1>4 DEF Types
<1>6. Holds'
  BY <1>1, <1>2 DEF Holds
<1>7. QED
  BY <1>5, <1>6 DEF SdsInv

\* The strings of a server that starts.
LEMMA InitHolds == Init => SdsInv
<1>1. SUFFICES ASSUME Init PROVE SdsInv
  OBVIOUS
<1>2. PICK s : s = sdsempty
  OBVIOUS
<1>3. /\ s.buf = <<NUL>> /\ s.len = 0 /\ s.free = 0 /\ s.over = FALSE
      /\ s \in Sds /\ Len(s.buf) = 1 /\ s.buf[1] = NUL /\ DOMAIN s.buf = 1 .. 1
  <2>1. s = [buf |-> <<0>>, len |-> 0, free |-> 0, over |-> FALSE]
    BY <1>2 DEF sdsempty, NUL
  <2>2. <<0>> \in Seq(Nat) /\ Len(<<0>>) = 1
    OBVIOUS
  <2>3. QED
    BY <2>1, <2>2 DEF Sds, NUL
<1>4. StrOK(s)
  BY <1>3 DEF StrOK, Overstated
<1>5. Blank(s, longest)
  BY <1>3 DEF Blank
<1>6. /\ readBuf = s /\ writeBuf = s /\ multcmds = [i \in 1 .. QueueCap |-> s]
      /\ multi = FALSE /\ multiCmdCount = 0 /\ exec = 0 /\ reads = 0
      /\ queue = <<>> /\ longest = 0 /\ last.cmd = <<>> /\ last.bytes = <<>>
  BY <1>1, <1>2 DEF Init
<1>7. Types
  <2>1. multcmds \in [1 .. QueueCap -> Sds] /\ \A i \in 1 .. QueueCap : StrOK(multcmds[i])
    BY <1>3, <1>4, <1>6
  <2>2. <<>> \in Seq(Nat)
    OBVIOUS
  <2>3. QED
    <3>1. multiCmdCount \in 0 .. QueueCap /\ exec \in 0 .. QueueCap + 1 /\ reads \in 0 .. MaxReads
      BY <1>6, BoundsAssumption
    <3>2. multi \in BOOLEAN /\ longest \in Nat /\ last.cmd \in Seq(Nat) /\ last.bytes \in Seq(Nat)
      BY <1>6, <2>2
    <3>3. QED
      BY <1>4, <1>6, <2>1, <3>1, <3>2 DEF Types
<1>8. Holds
  <2>1. queue \in Seq(Requests) /\ Len(queue) = multiCmdCount /\ 1 .. multiCmdCount = {}
    BY <1>6
  <2>2. IsPrefix(last.cmd, last.bytes)
    <3>1. <<>> \in Seq(Nat) /\ Len(<<>>) = 0 /\ 1 .. 0 = {}
      OBVIOUS
    <3>2. PICK c : c = <<>>
      OBVIOUS
    <3>3. c \in Seq(Nat) /\ Len(c) <= Len(c) /\ \A i \in 1 .. Len(c) : c[i] = c[i]
      BY <3>1, <3>2
    <3>4. IsPrefix(c, c)
      BY <3>3, PrefixIf
    <3>5. QED
      BY <1>6, <3>2, <3>4
  <2>3. readBuf.len = 0 /\ Blank(readBuf, longest) /\ last.bytes = last.cmd
    BY <1>3, <1>5, <1>6
  <2>4. QED
    BY <2>1, <2>2, <2>3 DEF Holds
<1>9. QED
  BY <1>7, <1>8 DEF SdsInv

\* Every step keeps the invariant.
LEMMA NextHolds == SdsInv /\ [Next]_vars => SdsInv'
<1>1. SUFFICES ASSUME SdsInv, [Next]_vars PROVE SdsInv'
  OBVIOUS
<1>2. ASSUME NEW request \in Requests \ {EXEC}, readFromClient(request) PROVE SdsInv'
  BY <1>1, <1>2, ReadKeeps
<1>3. CASE ExecRejected
  BY <1>1, <1>3, RejectedKeeps
<1>4. CASE ExecBegins
  BY <1>1, <1>4, BeginsKeeps
<1>5. CASE ExecNext
  BY <1>1, <1>5, NextKeeps
<1>6. CASE ExecEnds
  BY <1>1, <1>6, EndsKeeps
<1>7. CASE sendToClient
  BY <1>1, <1>7, SendKeeps
<1>8. CASE UNCHANGED vars
  <2>1. Types'
    BY <1>1, <1>8 DEF SdsInv, Types, vars, strings, ghosts
  <2>2. Overrun' = Overrun
    BY <1>8 DEF Overrun, Strings, vars, strings
  <2>3. Holds'
    BY <1>1, <1>8, <2>2 DEF SdsInv, Holds, vars, strings, ghosts
  <2>4. QED
    BY <2>1, <2>3 DEF SdsInv
<1>9. QED
  BY <1>1, <1>2, <1>3, <1>4, <1>5, <1>6, <1>7, <1>8 DEF Next, commandExecProc

-----------------------------------------------------------------------------
(***************************************************************************)
(* What runs over: nothing, as long as free is not overstated.             *)
(***************************************************************************)
\* No string claims more free space than it has.
Right ==
  /\ ~Overstated(readBuf) /\ ~Overstated(writeBuf)
  /\ \A i \in 1 .. QueueCap : ~Overstated(multcmds[i])

\* The request is inside its string, and so are the slot and the writeBuf that
\* it is appended to.
LEMMA ProcessStays ==
  ASSUME SdsInv, ~Overrun, Right, NEW s, NEW slots, NEW e, Arrived(s, slots, e),
         ~s.over, NULs(s) # {},
         \A i \in multiCmdCount + 1 .. QueueCap : slots[i] = multcmds[i],
         processClientQueryBuf(s, slots)
  PROVE  ~Overrun'
<1>1. Types /\ StrOK(s) /\ s \in Sds /\ Content(s) \in Seq(Nat)
  BY NoneOver, ContentIs DEF Arrived, StrOK
<1>2. StrOK(writeBuf) /\ ~writeBuf.over
  BY <1>1, OverrunIs DEF Types
<1>3. CASE clientMultiAdd(s, slots) /\ UNCHANGED <<writeBuf, multi, last>>
  <2>1. PICK n, c, o, p, t :
          /\ n = multiCmdCount + 1 /\ c = Content(s) /\ o = slots[multiCmdCount + 1]
          /\ p = sdsclear(slots[multiCmdCount + 1])
          /\ t = sdscatlen(sdsclear(slots[multiCmdCount + 1]), Content(s))
    OBVIOUS
  <2>2. n \in 1 .. QueueCap /\ n \in multiCmdCount + 1 .. QueueCap
    BY <1>1, <1>3, <2>1, BoundsAssumption DEF clientMultiAdd, Types
  <2>3. StrOK(o) /\ ~o.over /\ ~Overstated(o)
    BY <2>1, <2>2 DEF Arrived, Right
  <2>4. StrOK(p) /\ p.len = 0 /\ p.over = o.over /\ ~Overstated(p)
    BY <2>1, <2>3, ClearKeeps
  <2>5. p.len <= Len(p.buf)
    BY <2>3, <2>4 DEF StrOK
  <2>6. Appended(p, c, t)
    <3>1. t = sdscatlen(p, c) /\ c \in Seq(Nat)
      BY <1>1, <2>1
    <3>2. QED
      BY <2>4, <2>5, <3>1, CatAppends
  <2>7. ~t.over /\ t \in Sds
    BY <2>3, <2>4, <2>6 DEF Appended
  <2>8. multcmds' = [slots EXCEPT ![n] = t]
    BY <1>3, <2>1 DEF clientMultiAdd
  <2>9. \A i \in 1 .. QueueCap : ~multcmds'[i].over
    BY <2>2, <2>7, <2>8 DEF Arrived
  <2>10. ~readBuf'.over
    <3>1. PICK u : u = Emptied(s)
      OBVIOUS
    <3>2. StrOK(u) /\ u.over = s.over
      BY <1>1, <3>1, EmptiedKeeps
    <3>3. readBuf' = sdsclear(u)
      BY <1>3, <3>1 DEF clientMultiAdd
    <3>4. QED
      BY <3>2, <3>3, ClearKeeps
  <2>11. ~writeBuf'.over
    BY <1>2, <1>3
  <2>12. QED
    BY <2>9, <2>10, <2>11, OverrunIs
<1>4. CASE /\ IF Content(s) = MULTI THEN UNCHANGED <<writeBuf, last>> ELSE commandPropagate(s)
           /\ readBuf' = sdsclear(s) /\ multcmds' = slots
  <2>1. ~readBuf'.over
    BY <1>1, <1>4, ClearKeeps
  <2>2. ~writeBuf'.over
    <3>1. CASE Content(s) = MULTI
      BY <1>2, <1>4, <3>1
    <3>2. CASE Content(s) # MULTI
      <4>1. commandPropagate(s) /\ ~Overstated(writeBuf)
        BY <1>4, <3>2 DEF Right
      <4>2. QED
        BY <1>1, <1>2, <4>1, PropagateKeeps
    <3>3. QED
      BY <3>1, <3>2
  <2>3. \A i \in 1 .. QueueCap : ~multcmds'[i].over
    BY <1>4 DEF Arrived
  <2>4. QED
    BY <2>1, <2>2, <2>3, OverrunIs
<1>5. QED
  BY <1>3, <1>4 DEF processClientQueryBuf

\* The next step does not run over either.
LEMMA NextStays ==
  ASSUME SdsInv, ~Overrun, Right, Next
  PROVE  ~Overrun'
<1>1. /\ Types /\ Holds /\ StrOK(readBuf) /\ ~readBuf.over
      /\ \A i \in 1 .. QueueCap : StrOK(multcmds[i]) /\ ~multcmds[i].over
  BY NoneOver
<1>2. StrOK(writeBuf) /\ ~writeBuf.over
  BY <1>1, OverrunIs DEF Types
<1>3. exec = 0 => readBuf.len = 0 /\ Blank(readBuf, longest)
  BY <1>1 DEF Holds
<1>4. longest \in Nat /\ EXEC \in Requests /\ multiCmdCount \in 0 .. QueueCap
  BY <1>1 DEF Types, Requests
<1>5. ASSUME NEW r \in Requests, NEW s, s = sdscatlen(readBuf, r), exec = 0
      PROVE  /\ StrOK(s) /\ Blank(s, longest) /\ (~s.over => Content(s) = r)
             /\ ~s.over /\ NULs(s) # {}
  BY <1>1, <1>3, <1>4, <1>5, RequestArrives DEF Right
<1>6. ASSUME NEW request \in Requests \ {EXEC}, readFromClient(request) PROVE ~Overrun'
  <2>1. exec = 0 /\ processClientQueryBuf(sdscatlen(readBuf, request), multcmds)
    BY <1>6 DEF readFromClient, Reads
  <2>2. PICK s, e : s = sdscatlen(readBuf, request) /\ e = 0
    OBVIOUS
  <2>3. /\ StrOK(s) /\ Blank(s, longest) /\ (~s.over => Content(s) = request)
        /\ ~s.over /\ NULs(s) # {}
    BY <1>5, <2>1, <2>2
  <2>4. Arrived(s, multcmds, e)
    <3>1. multcmds \in [1 .. QueueCap -> Sds] /\ e \in 0 .. QueueCap + 1
      BY <1>1, <2>2, BoundsAssumption DEF Types
    <3>2. \A i \in 1 .. multiCmdCount : i >= e => Content(multcmds[i]) = queue[i]
      BY <1>1, <2>1, <2>2 DEF Holds
    <3>3. QED
      BY <1>1, <2>3, <3>1, <3>2 DEF Arrived
  <2>5. QED
    BY <2>1, <2>2, <2>3, <2>4, ProcessStays
<1>7. CASE ExecRejected
  <2>1. PICK s : s = sdscatlen(readBuf, EXEC)
    OBVIOUS
  <2>2. StrOK(s) /\ ~s.over
    BY <1>4, <1>5, <1>7, <2>1 DEF ExecRejected, Reads
  <2>3. readBuf' = sdsclear(s) /\ UNCHANGED <<multcmds, writeBuf>>
    BY <1>7, <2>1 DEF ExecRejected
  <2>4. ~readBuf'.over
    BY <2>2, <2>3, ClearKeeps
  <2>5. QED
    BY <1>1, <1>2, <2>3, <2>4, OverrunIs
<1>8. CASE ExecBegins
  <2>1. PICK s : s = sdscatlen(readBuf, EXEC)
    OBVIOUS
  <2>2. ~s.over
    BY <1>4, <1>5, <1>8, <2>1 DEF ExecBegins, Reads
  <2>3. readBuf' = s /\ UNCHANGED <<multcmds, writeBuf>>
    BY <1>8, <2>1 DEF ExecBegins
  <2>4. QED
    BY <1>1, <1>2, <2>2, <2>3, OverrunIs
<1>9. CASE ExecNext
  <2>1. PICK s, slots, e :
          /\ s = sdscatlen(sdsclear(readBuf), Content(multcmds[exec]))
          /\ slots = [multcmds EXCEPT ![exec] = sdsclear(Emptied(multcmds[exec]))]
          /\ e = exec + 1
    OBVIOUS
  <2>2. exec \in 1 .. multiCmdCount /\ processClientQueryBuf(s, slots)
    BY <1>9, <2>1 DEF ExecNext
  <2>3. /\ Arrived(s, slots, e) /\ ~s.over /\ NULs(s) # {}
        /\ \A i \in 1 .. QueueCap : i # exec => slots[i] = multcmds[i]
    BY <2>1, <2>2, NextArrives DEF Right
  <2>4. \A i \in multiCmdCount + 1 .. QueueCap : i \in 1 .. QueueCap /\ i # exec
    BY <1>4, <2>2, BoundsAssumption
  <2>5. QED
    BY <2>2, <2>3, <2>4, ProcessStays
<1>10. CASE ExecEnds
  <2>1. readBuf' = sdsclear(readBuf) /\ UNCHANGED <<multcmds, writeBuf>>
    BY <1>10 DEF ExecEnds
  <2>2. ~readBuf'.over
    BY <1>1, <2>1, ClearKeeps
  <2>3. QED
    BY <1>1, <1>2, <2>1, <2>2, OverrunIs
<1>11. CASE sendToClient
  <2>1. writeBuf' = sdsclear(writeBuf) /\ UNCHANGED <<readBuf, multcmds>>
    BY <1>11 DEF sendToClient
  <2>2. ~writeBuf'.over
    BY <1>2, <2>1, ClearKeeps
  <2>3. QED
    BY <1>1, <2>1, <2>2, OverrunIs
<1>12. QED
  BY <1>6, <1>7, <1>8, <1>9, <1>10, <1>11 DEF Next, commandExecProc

-----------------------------------------------------------------------------
(***************************************************************************)
(* The results.                                                            *)
(***************************************************************************)
\* The inductive invariant of the connection's strings.
THEOREM Invariant == Spec => []SdsInv
<1>1. Init => SdsInv
  BY InitHolds
<1>2. SdsInv /\ [Next]_vars => SdsInv'
  BY NextHolds
<1>3. QED
  BY <1>1, <1>2, PTL DEF Spec

\* Every string has its parts and, while nothing ran over, its length inside
\* its allocation (sdscatlen, sdsclear, sdscatsds).
THEOREM SdsTypeCorrect == Spec => []TypeOK
<1>1. SdsInv => TypeOK
  <2>1. SUFFICES ASSUME SdsInv PROVE TypeOK
    OBVIOUS
  <2>2. Types /\ Holds
    BY <2>1 DEF SdsInv
  <2>3. readBuf \in Sds /\ writeBuf \in Sds
    BY <2>2 DEF Types, StrOK
  <2>4. \A s \in Strings : s.over \/ s.len <= Len(s.buf)
    BY <2>2 DEF Types, StrOK, Strings
  <2>5. Overrun \/ queue \in Seq(Requests)
    BY <2>2 DEF Holds
  <2>6. QED
    BY <2>2, <2>3, <2>4, <2>5 DEF TypeOK, Types
<1>2. QED
  BY <1>1, Invariant, PTL

\* A transaction's slots hold, until they are executed, the requests that were
\* queued, and readBuf is empty when the next request is read, although both
\* are cleared and filled over and over (clientMultiAdd, commandExecProc).
THEOREM QueueIsKept == Spec => []QueueHoldsRequests
<1>1. SdsInv => QueueHoldsRequests
  <2>1. SUFFICES ASSUME SdsInv, ~Overrun
                 PROVE  /\ \A i \in 1 .. multiCmdCount : i >= exec => Content(multcmds[i]) = queue[i]
                        /\ exec = 0 => Content(readBuf) = <<>>
    BY DEF QueueHoldsRequests
  <2>2. Holds /\ readBuf \in Sds /\ readBuf.len <= Len(readBuf.buf)
    BY <2>1, NoneOver DEF StrOK
  <2>3. ASSUME exec = 0 PROVE Content(readBuf) = <<>>
    <3>1. readBuf.len = 0
      BY <2>1, <2>2, <2>3 DEF Holds
    <3>2. Content(readBuf) \in Seq(Nat) /\ Len(Content(readBuf)) = 0
      BY <2>2, <3>1, ContentIs
    <3>3. QED
      BY <3>2, EmptySeq
  <2>4. QED
    BY <2>1, <2>2, <2>3 DEF Holds
<1>2. QED
  BY <1>1, Invariant, PTL

\* commandPropagate, which takes readBuf for a C string, gives a replica every
\* command from its first byte to its last, and nothing behind it unless the
\* command is shorter than a request that was queued before.
THEOREM ReplicaIsServed == Spec => []ReplicaGetsCommand
<1>1. SdsInv => ReplicaGetsCommand
  BY DEF SdsInv, Holds, ReplicaGetsCommand
<1>2. QED
  BY <1>1, Invariant, PTL

\* No step writes or searches past the end of a string while every string's
\* free is right: the byte sdscatsds counts twice is what runs over.
THEOREM OverrunsNeedOverstated == Spec => OverrunsOverstated
<1>1. SdsInv /\ [Next]_vars => [Overrun' => \E s \in Strings : Overstated(s)]_vars
  <2>1. SUFFICES ASSUME SdsInv, Next, Overrun', ~(\E s \in Strings : Overstated(s))
                 PROVE  FALSE
    OBVIOUS
  <2>2. Right
    BY <2>1 DEF Right, Strings
  <2>3. ~Overrun
    BY <2>1 DEF Next, readFromClient, Reads, commandExecProc, ExecRejected, ExecBegins,
                ExecNext, ExecEnds, sendToClient
  <2>4. QED
    BY <2>1, <2>2, <2>3, NextStays
<1>2. QED
  BY <1>1, Invariant, PTL DEF Spec, OverrunsOverstated
=============================================================================
