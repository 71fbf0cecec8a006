----------------------------- MODULE RdbProofs -----------------------------
(***************************************************************************)
(* Which values and lengths rdb.c reads back as it wrote them: every       *)
(* integer and every length, not only those next to a limit, for the bytes *)
(* of the program and for those of the runs.  And the invariants of Rdb:   *)
(* one child at a time writes the file, a database without counted changes *)
(* is the one in it, and no other values come back from it, for all sets   *)
(* of keys, values and process numbers.                                    *)
(***************************************************************************)
EXTENDS Rdb, FiniteSetTheorems, TLAPS

IntObject(n) == [kind |-> "int", n |-> n]
RawObject(len) == [kind |-> "raw", n |-> len]

\* Remainders of numbers near 0, and what division by m leaves.
LEMMA Remainders ==
  ASSUME NEW m \in Nat, m > 0, NEW n \in Int
  PROVE  /\ n % m \in 0 .. m - 1
         /\ 0 <= n /\ n < m => n % m = n
         /\ -m <= n /\ n < 0 => n % m = n + m
         /\ n \div m \in Int /\ n = m * (n \div m) + (n % m)
         /\ 0 <= n => n \div m \in Nat
<1>1. n % m \in 0 .. m - 1
  OBVIOUS
<1>2. n \div m \in Int /\ n = m * (n \div m) + (n % m)
  OBVIOUS
<1>3. ASSUME NEW q \in Int, NEW r \in 0 .. m - 1, NEW p \in Int, NEW s \in 0 .. m - 1, m * q + r = m * p + s PROVE r = s
  <2>1. q < p => m * q + m <= m * p
    <3>1. ASSUME q < p PROVE m * q + m <= m * p
      <4>1. q + 1 <= p
        BY <3>1
      <4>2. m * (q + 1) <= m * p
        BY <4>1
      <4>3. m * (q + 1) = m * q + m
        OBVIOUS
      <4> QED
        BY <4>2, <4>3
    <3> QED
      BY <3>1
  <2>2. p < q => m * p + m <= m * q
    <3>1. ASSUME p < q PROVE m * p + m <= m * q
      <4>1. p + 1 <= q
        BY <3>1
      <4>2. m * (p + 1) <= m * q
        BY <4>1
      <4>3. m * (p + 1) = m * p + m
        OBVIOUS
      <4> QED
        BY <4>2, <4>3
    <3> QED
      BY <3>1
  <2>3. m * q \in Int /\ m * p \in Int
    OBVIOUS
  <2>4. CASE q = p
    BY <1>3, <2>3, <2>4
  <2>5. CASE q < p
    BY <1>3, <2>3, <2>1, <2>5
  <2>6. CASE p < q
    BY <1>3, <2>3, <2>2, <2>6
  <2> QED
    BY <2>4, <2>5, <2>6
<1>4. ASSUME 0 <= n, n < m PROVE n % m = n
  <2>1. n \in 0 .. m - 1 /\ m * (n \div m) + (n % m) = m * 0 + n
    BY <1>2, <1>4
  <2> QED
    BY <1>1, <1>2, <1>3, <2>1
<1>5. ASSUME -m <= n, n < 0 PROVE n % m = n + m
  <2>1. n + m \in 0 .. m - 1 /\ m * (n \div m) + (n % m) = m * (-1) + (n + m)
    BY <1>2, <1>5
  <2>2. -1 \in Int
    OBVIOUS
  <2> QED
    BY <1>1, <1>2, <1>3, <2>1, <2>2
<1>6. 0 <= n => n \div m \in Nat
  OBVIOUS
<1> QED
  BY <1>1, <1>2, <1>4, <1>5, <1>6

\* The limits of the code in terms of the quarter of a byte, of half a word and
\* of half a double word, in their order.
LEMMA FormLimits ==
  \E q \in Nat :
    /\ q >= 4 /\ Byte = 4 * q /\ Byte \div 4 = q /\ Byte \div 2 = 2 * q
    /\ RDB_ENC_INT8 = 4 * q - 4 /\ RDB_ENC_INT16 = 4 * q - 3 /\ RDB_ENC_INT32 = 4 * q - 2
    /\ \E w \in Nat, d \in Nat :
         /\ Word = 2 * w /\ Word \div 2 = w /\ w >= 4 * q
         /\ DWord = 2 * d /\ DWord \div 2 = d /\ d > 2 * w
         /\ q * Byte <= 2 * w
<1>1. PICK q \in Nat : q >= 4 /\ Byte = 4 * q /\ Byte \div 4 = q /\ Byte \div 2 = 2 * q
  <2>1. Byte \div 4 \in Nat /\ Byte \div 4 >= 4 /\ Byte = 4 * (Byte \div 4)
        /\ Byte \div 2 = 2 * (Byte \div 4)
    BY ByteAssumption
  <2> QED
    BY <2>1
<1>2. RDB_ENC_INT8 = 4 * q - 4 /\ RDB_ENC_INT16 = 4 * q - 3 /\ RDB_ENC_INT32 = 4 * q - 2
  BY <1>1 DEF RDB_ENC_INT8, RDB_ENC_INT16, RDB_ENC_INT32
<1>3. PICK r \in Nat : r = q * q
  OBVIOUS
<1>4. r >= 4 * q
  <2>1. q * 4 <= q * q
    BY <1>1
  <2> QED
    BY <1>3, <2>1
<1>5. Word = 16 * r
  <2>1. Word = (4 * q) * (4 * q)
    BY <1>1 DEF Word
  <2>2. (4 * q) * (4 * q) = 16 * (q * q)
    OBVIOUS
  <2> QED
    BY <1>3, <2>1, <2>2
<1>6. PICK w \in Nat : w = 8 * r
  BY <1>3
<1>7. PICK s \in Nat : s = r * r
  OBVIOUS
<1>8. s >= 16 * r
  <2>1. r >= 16
    BY <1>1, <1>4
  <2>2. r * 16 <= r * r
    BY <2>1
  <2> QED
    BY <1>7, <2>2
<1>9. DWord = 256 * s
  <2>1. DWord = (16 * r) * (16 * r)
    BY <1>5 DEF DWord
  <2>2. (16 * r) * (16 * r) = 256 * (r * r)
    OBVIOUS
  <2> QED
    BY <1>7, <2>1, <2>2
<1>10. PICK d \in Nat : d = 128 * s
  BY <1>7
<1>11. Word = 2 * w /\ Word \div 2 = w /\ w >= 4 * q
  BY <1>1, <1>4, <1>5, <1>6
<1>12. DWord = 2 * d /\ DWord \div 2 = d /\ d > 2 * w
  BY <1>1, <1>4, <1>6, <1>8, <1>9, <1>10
<1>13. q * Byte <= 2 * w
  <2>1. q * (4 * q) = 4 * (q * q)
    OBVIOUS
  <2> QED
    BY <1>1, <1>3, <1>6, <2>1
<1> QED
  BY <1>1, <1>2, <1>11, <1>12, <1>13

\* A number that an int can hold is what the cast to int makes of it.
LEMMA CastExact ==
  ASSUME NEW h \in Nat, h > 0, NEW n \in Int
  PROVE  /\ Signed(n, 2 * h) \in Int
         /\ -h <= Signed(n, 2 * h) /\ Signed(n, 2 * h) < h
         /\ -h <= n /\ n < h => Signed(n, 2 * h) = n
         /\ Signed(n % (2 * h), 2 * h) = Signed(n, 2 * h)
<1>1. PICK m \in Nat : m = 2 * h
  OBVIOUS
<1>2. m > 0 /\ m \div 2 = h /\ n % m \in 0 .. m - 1
  BY <1>1, Remainders
<1>3. (n % m) % m = n % m
  BY <1>2, Remainders
<1>4. Signed(n, m) = IF n % m >= h THEN (n % m) - m ELSE n % m
  BY <1>2 DEF Signed
<1>5. Signed(n % m, m) = Signed(n, m)
  BY <1>2, <1>3 DEF Signed
<1>6. ASSUME -h <= n, n < h PROVE Signed(n, m) = n
  <2>1. CASE n >= 0
    <3>1. n % m = n
      BY <1>1, <1>6, <2>1, Remainders
    <3> QED
      BY <1>4, <1>6, <3>1
  <2>2. CASE n < 0
    <3>1. n % m = n + m
      BY <1>1, <1>6, <2>2, Remainders
    <3> QED
      BY <1>1, <1>4, <1>6, <2>2, <3>1
  <2> QED
    BY <2>1, <2>2
<1> QED
  BY <1>1, <1>2, <1>4, <1>5, <1>6

\* _rdbLoadStringObject makes an integer again of what _rdbSaveStringObject
\* wrote for one, and it is the same from 0 to 2^31 - 1 but for 2^15: one byte
\* loses the sign, two bytes take 2^15 for a negative number.
LEMMA IntegersReread ==
  ASSUME NEW n \in Int
  PROVE  Reread(IntObject(n)) = IntObject(n) <=> Survives(IntObject(n))
<1>1. PICK q \in Nat :
        /\ q >= 4 /\ Byte = 4 * q /\ Byte \div 4 = q /\ Byte \div 2 = 2 * q
        /\ RDB_ENC_INT8 = 4 * q - 4 /\ RDB_ENC_INT16 = 4 * q - 3 /\ RDB_ENC_INT32 = 4 * q - 2
        /\ \E w \in Nat, d \in Nat :
             /\ Word = 2 * w /\ Word \div 2 = w /\ w >= 4 * q
             /\ DWord = 2 * d /\ DWord \div 2 = d /\ d > 2 * w
             /\ q * Byte <= 2 * w
  BY FormLimits
<1>2. PICK w \in Nat, d \in Nat :
        /\ Word = 2 * w /\ Word \div 2 = w /\ w >= 4 * q
        /\ DWord = 2 * d /\ DWord \div 2 = d /\ d > 2 * w
  BY <1>1
<1>3. PICK val : val = Signed(n, DWord)
  OBVIOUS
<1>4. d > 0 /\ w > 0
  BY <1>1, <1>2
<1>5. val \in Int /\ -d <= val /\ val < d /\ (-d <= n /\ n < d => val = n)
  BY <1>2, <1>3, <1>4, CastExact
<1>6. Survives(IntObject(n)) <=> 0 <= n /\ n < d /\ n # w
  BY <1>2 DEF Survives, IntObject
<1>7. \A m : IntObject(m) = IntObject(n) <=> m = n
  BY DEF IntObject
<1>8. _rdbSaveStringObject(IntObject(n)) =
        IF val <= 2 * q THEN [mark |-> RDB_ENC_INT8, body |-> val % Byte]
        ELSE IF val <= w THEN [mark |-> RDB_ENC_INT16, body |-> val % Word]
        ELSE [mark |-> RDB_ENC_INT32, body |-> val % DWord]
  BY <1>1, <1>2, <1>3 DEF _rdbSaveStringObject, IntObject
<1>9. CASE val <= 2 * q
  <2>1. Reread(IntObject(n)) = IntObject(val % Byte)
    BY <1>8, <1>9 DEF Reread, _rdbLoadStringObject, IntObject
  <2>2. val % Byte \in 0 .. Byte - 1 /\ (0 <= val => val % Byte = val)
    BY <1>1, <1>5, <1>9, Remainders
  <2>3. val % Byte = n <=> 0 <= n /\ n < d /\ n # w
    BY <1>1, <1>2, <1>5, <1>9, <2>2
  <2> QED
    BY <1>6, <1>7, <2>1, <2>3
<1>10. CASE val > 2 * q /\ val <= w
  <2>1. ~(val <= 2 * q) /\ RDB_ENC_INT16 # RDB_ENC_INT8
    BY <1>1, <1>5, <1>10
  <2>2. Reread(IntObject(n)) = IntObject(Signed(val % Word, Word))
    BY <1>8, <1>10, <2>1 DEF Reread, _rdbLoadStringObject, IntObject
  <2>3. Signed(val % Word, Word) = Signed(val, Word)
    BY <1>2, <1>4, <1>5, CastExact
  <2>4. val < w => Signed(val, Word) = val
    <3>1. -w <= val /\ val < w => Signed(val, 2 * w) = val
      BY <1>4, <1>5, CastExact
    <3>2. -w <= val
      BY <1>1, <1>4, <1>5, <1>10
    <3> QED
      BY <1>2, <3>1, <3>2
  <2>5. -w <= Signed(val, Word) /\ Signed(val, Word) < w /\ Signed(val, Word) \in Int
    BY <1>2, <1>4, <1>5, CastExact
  <2>6. val = w => Signed(val, Word) = -w
    <3>1. ASSUME val = w PROVE Signed(val, Word) = -w
      <4>1. val % Word = val
        BY <1>2, <1>4, <3>1, Remainders
      <4> QED
        BY <1>2, <1>4, <3>1, <4>1 DEF Signed
    <3> QED
      BY <3>1
  <2>7. Signed(val, Word) = n <=> 0 <= n /\ n < d /\ n # w
    <3>1. CASE val = w
      BY <1>1, <1>2, <1>5, <2>6, <3>1
    <3>2. CASE val < w
      BY <1>1, <1>2, <1>5, <1>10, <2>4, <3>2
    <3> QED
      BY <1>5, <1>10, <3>1, <3>2
  <2> QED
    BY <1>6, <1>7, <2>2, <2>3, <2>7
<1>11. CASE val > w
  <2>1. ~(val <= 2 * q) /\ ~(val <= w) /\ RDB_ENC_INT32 # RDB_ENC_INT8 /\ RDB_ENC_INT32 # RDB_ENC_INT16
    BY <1>1, <1>2, <1>5, <1>11
  <2>2. Reread(IntObject(n)) = IntObject(Signed(val % DWord, DWord))
    BY <1>8, <1>11, <2>1 DEF Reread, _rdbLoadStringObject, IntObject
  <2>3. Signed(val % DWord, DWord) = val
    BY <1>2, <1>4, <1>5, CastExact
  <2>4. val = n <=> 0 <= n /\ n < d /\ n # w
    BY <1>1, <1>2, <1>5, <1>11
  <2> QED
    BY <1>6, <1>7, <2>2, <2>3, <2>4
<1>12. QED
  BY <1>5, <1>9, <1>10, <1>11

\* Every length is read back as it was written, in one, two or five bytes: no
\* mark of one form is taken for another's.
THEOREM LengthsReread == LengthsSurvive(0 .. DWord - 1)
<1>1. PICK q \in Nat :
        /\ q >= 4 /\ Byte = 4 * q /\ Byte \div 4 = q /\ Byte \div 2 = 2 * q
        /\ RDB_ENC_INT32 = 4 * q - 2
        /\ DWord \in Nat
  BY FormLimits
<1>2. SUFFICES ASSUME NEW len \in Nat PROVE _rdbLoadLen(_rdbSaveLen(len)) = len
  BY <1>1 DEF LengthsSurvive
<1>3. CASE len < q
  BY <1>1, <1>3 DEF _rdbSaveLen, _rdbLoadLen
<1>4. CASE q <= len /\ len < q * Byte
  <2>1. PICK a, b : a = len \div Byte /\ b = len % Byte
    OBVIOUS
  <2>2. a \in Nat /\ b \in Nat /\ len = Byte * a + b
    <3>1. Byte \in Nat /\ Byte > 0 /\ len \in Int /\ 0 <= len
      BY <1>1
    <3>2. len \div Byte \in Nat /\ len = Byte * (len \div Byte) + (len % Byte)
          /\ len % Byte \in 0 .. Byte - 1
      BY <3>1, Remainders
    <3> QED
      BY <2>1, <3>1, <3>2
  <2>3. a < q
    <3>1. SUFFICES ASSUME a >= q PROVE FALSE
      BY <1>1, <2>2
    <3>2. Byte * a >= Byte * q
      BY <1>1, <2>2, <3>1
    <3>3. Byte * q = q * Byte /\ Byte * a \in Nat /\ Byte * q \in Nat
      BY <1>1, <2>2
    <3> QED
      BY <1>4, <2>2, <3>2, <3>3
  <2>4. PICK f : f = _rdbSaveLen(len)
    OBVIOUS
  <2>5. f.mark = 2 * q + a /\ f.body = b
    BY <1>1, <1>4, <2>1, <2>4 DEF _rdbSaveLen
  <2>6. _rdbLoadLen(f) = (f.mark - 2 * q) * Byte + f.body
    <3>1. ~(2 * q + a < q) /\ 2 * q + a >= 2 * q /\ 2 * q + a < q * 3
      BY <1>1, <2>2, <2>3
    <3> QED
      BY <1>1, <2>2, <2>5, <3>1 DEF _rdbLoadLen
  <2>7. (2 * q + a - 2 * q) * Byte = Byte * a
    BY <1>1, <2>2
  <2> QED
    BY <2>2, <2>4, <2>5, <2>6, <2>7
<1>5. CASE q * Byte <= len /\ q <= len
  <2>1. q * Byte \in Nat
    BY <1>1
  <2>2. _rdbSaveLen(len) = [mark |-> RDB_ENC_INT32, body |-> len]
    BY <1>1, <1>5, <2>1 DEF _rdbSaveLen
  <2>3. ~(RDB_ENC_INT32 < q) /\ ~(RDB_ENC_INT32 < q * 3)
    BY <1>1
  <2> QED
    BY <1>1, <2>2, <2>3 DEF _rdbLoadLen
<1>6. q * Byte \in Nat /\ q * Byte >= q
  <2>1. q * 16 <= q * Byte
    BY <1>1
  <2> QED
    BY <1>1, <2>1
<1>7. QED
  BY <1>1, <1>3, <1>4, <1>5, <1>6

\* A string is read back as a string as long as its length takes one byte or
\* two; in five bytes the length starts like an integer and is read as one.
LEMMA StringsReread ==
  ASSUME NEW len \in 0 .. DWord - 1
  PROVE  Reread(RawObject(len)) = RawObject(len) <=> Survives(RawObject(len))
<1>1. PICK q \in Nat :
        /\ q >= 4 /\ Byte = 4 * q /\ Byte \div 4 = q /\ Byte \div 2 = 2 * q
        /\ RDB_ENC_INT8 = 4 * q - 4 /\ RDB_ENC_INT16 = 4 * q - 3 /\ RDB_ENC_INT32 = 4 * q - 2
        /\ DWord \in Nat
  BY FormLimits
<1>2. len \in Nat /\ _rdbLoadLen(_rdbSaveLen(len)) = len
  BY <1>1, LengthsReread DEF LengthsSurvive
<1>3. Reread(RawObject(len)) = _rdbLoadStringObject(_rdbSaveLen(len))
  BY DEF Reread, _rdbSaveStringObject, RawObject
<1>4. Survives(RawObject(len)) <=> len < q * Byte
  BY <1>1 DEF Survives, RawObject
<1>5. q * Byte \in Nat /\ q * Byte >= q
  <2>1. q * 16 <= q * Byte
    BY <1>1
  <2> QED
    BY <1>1, <2>1
<1>6. CASE len < q * Byte
  <2>1. PICK f : f = _rdbSaveLen(len)
    OBVIOUS
  <2>2. f.mark \in Int /\ f.mark < q * 3
    <3>1. CASE len < q
      BY <1>1, <1>2, <2>1, <3>1 DEF _rdbSaveLen
    <3>2. CASE ~(len < q)
      <4>1. PICK a, b : a = len \div Byte /\ b = len % Byte
        OBVIOUS
      <4>2. a \in Nat /\ b \in Nat /\ len = Byte * a + b
        <5>1. Byte \in Nat /\ Byte > 0 /\ len \in Int /\ 0 <= len
          BY <1>1, <1>2
        <5>2. len \div Byte \in Nat /\ len = Byte * (len \div Byte) + (len % Byte)
              /\ len % Byte \in 0 .. Byte - 1
          BY <5>1, Remainders
        <5> QED
          BY <4>1, <5>1, <5>2
      <4>3. a < q
        <5>1. SUFFICES ASSUME a >= q PROVE FALSE
          BY <1>1, <4>2
        <5>2. Byte * a >= Byte * q
          BY <1>1, <4>2, <5>1
        <5>3. Byte * q = q * Byte /\ Byte * a \in Nat /\ Byte * q \in Nat
          BY <1>1, <4>2
        <5> QED
          BY <1>6, <4>2, <5>2, <5>3
      <4>4. f.mark = 2 * q + a
        BY <1>1, <1>6, <2>1, <3>2, <4>1 DEF _rdbSaveLen
      <4> QED
        BY <1>1, <4>2, <4>3, <4>4
    <3> QED
      BY <3>1, <3>2
  <2>3. f.mark # RDB_ENC_INT8 /\ f.mark # RDB_ENC_INT16 /\ f.mark # RDB_ENC_INT32
    BY <1>1, <2>2
  <2>4. _rdbLoadStringObject(f) = RawObject(_rdbLoadLen(f))
    BY <2>3 DEF _rdbLoadStringObject, RawObject
  <2> QED
    BY <1>2, <1>3, <1>4, <1>6, <2>1, <2>4
<1>7. CASE len >= q * Byte
  <2>1. _rdbSaveLen(len).mark = RDB_ENC_INT32
    BY <1>1, <1>2, <1>5, <1>7 DEF _rdbSaveLen
  <2>2. RDB_ENC_INT32 # RDB_ENC_INT8 /\ RDB_ENC_INT32 # RDB_ENC_INT16
    BY <1>1
  <2>3. _rdbLoadStringObject(_rdbSaveLen(len)).kind = "int"
    BY <2>1, <2>2 DEF _rdbLoadStringObject
  <2>4. RawObject(len).kind = "raw"
    BY DEF RawObject
  <2> QED
    BY <1>2, <1>3, <1>4, <1>5, <1>7, <2>3, <2>4
<1>8. QED
  BY <1>2, <1>5, <1>6, <1>7

\* The values that a restart brings back unchanged are exactly those that
\* Survives names.
THEOREM ValuesReread == \A obj \in Objects : Reread(obj) = obj <=> Survives(obj)
<1>1. ASSUME NEW obj \in [kind : {"int"}, n : Int]
      PROVE  Reread(obj) = obj <=> Survives(obj)
  <2>1. obj.n \in Int /\ obj = IntObject(obj.n)
    BY DEF IntObject
  <2>2. Reread(IntObject(obj.n)) = IntObject(obj.n) <=> Survives(IntObject(obj.n))
    BY <2>1, IntegersReread
  <2> QED
    BY <2>1, <2>2
<1>2. ASSUME NEW obj \in [kind : {"raw"}, n : 0 .. DWord - 1]
      PROVE  Reread(obj) = obj <=> Survives(obj)
  <2>1. obj.n \in 0 .. DWord - 1 /\ obj = RawObject(obj.n)
    BY DEF RawObject
  <2>2. Reread(RawObject(obj.n)) = RawObject(obj.n) <=> Survives(RawObject(obj.n))
    BY <2>1, StringsReread
  <2> QED
    BY <2>1, <2>2
<1> QED
  BY <1>1, <1>2 DEF Objects

(***************************************************************************)
(* The inductive invariant of Rdb.                                         *)
(***************************************************************************)
Storing == {"fork", "lastfork", "pid", "lastpid", "saving", "lastsaving"}

\* What the steps of the server leave in tmp.
TmpHolds ==
  /\ pc = "dirty" => tmp \in 0 .. MaxDirty - 1
  /\ pc \in {"pid", "lastpid"} => tmp \in Pids \cup {-1}

\* A server that is down has no child, and starts without one.
DownIsQuiet == ~up => pc = "loop" /\ ~isBgSaving

OneChild == \A c, d \in children : c = d

\* bgsave is on its way to store the child's pid, or to set isBgSaving, or has
\* done both.
ChildIsKnown ==
  \A c \in children : ~c.orphan =>
    /\ up
    /\ \/ pc \in {"pid", "lastpid"} /\ tmp = c.pid
       \/ pc \in {"saving", "lastsaving"} /\ rdbChildPid = c.pid
       \/ isBgSaving /\ rdbChildPid = c.pid

\* And the other way round, unless the child was lost.
HasChild(pid) == \E c \in children : c.pid = pid /\ ~c.orphan
SavingHasChild ==
  up /\ ~lost =>
    /\ pc \in {"pid", "lastpid"} => HasChild(tmp)
    /\ pc \in {"saving", "lastsaving"} => HasChild(rdbChildPid)
    /\ isBgSaving => HasChild(rdbChildPid)

NoSaveWhileStoring == pc \in Storing => ~isBgSaving

\* Nobody waits for an orphan, and what it writes is not what the server has.
OrphansRun == \A c \in children : c.orphan => c.stage # "zombie" /\ (up => excused)

\* The file between the steps of its writer.
FileFollows ==
  \A c \in children :
    /\ c.stage = "hash" => file = [part |-> "body", image |-> c.image]
    /\ c.stage = "zombie" /\ ~excused => file = [part |-> "complete", image |-> c.image]

\* The image is the database as it is, but for what deadlines have taken away.
Imaged(image, d) ==
  \A k \in Keys :
    \/ d.kv[k] = None /\ k \in d.expires
    \/ image.kv[k] = d.kv[k] /\ (k \in image.expires <=> k \in d.expires)
ImageIsCurrent == up /\ ~excused => \A c \in children : Imaged(c.image, db)

\* CleanIsSaved at every step of the server but the one inside dirty++.
CleanMatches ==
  up /\ pc # "dirty" /\ children = {} /\ dirty = 0 /\ ~excused /\ ~lost /\ ~Big(file.image) =>
    Loadable(file) /\ Agrees(rdbLoad(file), db)

RdbInv ==
  /\ TypeOK
  /\ TmpHolds /\ DownIsQuiet
  /\ OneChild /\ ChildIsKnown /\ SavingHasChild /\ NoSaveWhileStoring /\ OrphansRun
  /\ FileFollows /\ ImageIsCurrent /\ CleanMatches

(***************************************************************************)
(* Lemmas.                                                                 *)
(***************************************************************************)
\* What is read back is a value.
LEMMA RereadType ==
  ASSUME NEW obj \in Objects
  PROVE  Reread(obj) \in Objects
<1> DEFINE B == Byte
<1>1. B \in Nat /\ B >= 16 /\ B % 4 = 0 /\ Word \in Nat /\ Word >= B /\ DWord \in Nat /\ DWord >= Word
  <2>1. B \in Nat /\ B >= 16 /\ B % 4 = 0
    BY ByteAssumption
  <2>2. Word \in Nat /\ Word >= B
    BY <2>1 DEF Word
  <2> HIDE DEF B
  <2>3. DWord \in Nat /\ DWord >= Word
    BY <2>1, <2>2 DEF DWord
  <2> QED
    BY <2>1, <2>2, <2>3
<1>2. \A n \in Int, m \in {Word, DWord} : Signed(n, m) \in Int
  <2> SUFFICES ASSUME NEW n \in Int, NEW m \in Nat, m > 0 PROVE Signed(n, m) \in Int
    BY <1>1
  <2>1. n % m \in Int
    OBVIOUS
  <2> QED
    BY <2>1 DEF Signed
<1>3. CASE obj.kind = "int"
  <2>1. \A n \in Int : n % Byte \in Int /\ n % Word \in Int /\ n % DWord \in Int
    BY <1>1
  <2> QED
    BY <1>1, <1>2, <1>3, <2>1 DEF Objects, Reread, _rdbLoadStringObject, _rdbSaveStringObject,
       RDB_ENC_INT8, RDB_ENC_INT16, RDB_ENC_INT32
<1>4. CASE obj.kind = "raw"
  <2>1. obj.n \in 0 .. DWord - 1 /\ Reread(obj) = _rdbLoadStringObject(_rdbSaveLen(obj.n))
    BY <1>4 DEF Objects, Reread, _rdbSaveStringObject
  <2>2. CASE obj.n < Byte \div 4
    BY <1>1, <2>1, <2>2 DEF Objects, _rdbLoadStringObject, _rdbSaveLen, _rdbLoadLen,
         RDB_ENC_INT8, RDB_ENC_INT16, RDB_ENC_INT32
  <2>3. CASE obj.n >= Byte \div 4 /\ obj.n < (Byte \div 4) * Byte
    <3> DEFINE q == obj.n \div Byte  r == obj.n % Byte  k == Byte \div 4
    <3>1. q < k /\ q \in Nat /\ r \in 0 .. B - 1 /\ k \in Nat /\ k <= B
      BY <1>1, <2>1, <2>3
    <3>2. q * B + r \in Nat /\ q * B + r < DWord
      <4> HIDE DEF q, r, k, B
      <4>1. q + 1 <= k
        BY <3>1
      <4>2. (q + 1) * B <= B * B
        BY <1>1, <3>1, <4>1
      <4>3. q * B + r < (q + 1) * B /\ q * B + r \in Nat
        BY <1>1, <3>1
      <4> QED
        BY <1>1, <3>1, <4>2, <4>3 DEF Word, B
    <3>3. Reread(obj) = [kind |-> "raw", n |-> q * B + r]
      BY <1>1, <2>1, <2>3, <3>1, ByteAssumption DEF _rdbLoadStringObject, _rdbSaveLen, _rdbLoadLen,
           RDB_ENC_INT8, RDB_ENC_INT16, RDB_ENC_INT32
    <3> QED
      BY <1>1, <3>2, <3>3 DEF Objects
  <2>4. CASE obj.n >= (Byte \div 4) * Byte /\ obj.n >= Byte \div 4
    BY <1>1, <1>2, <2>1, <2>4 DEF Objects, _rdbLoadStringObject, _rdbSaveLen,
         RDB_ENC_INT8, RDB_ENC_INT16, RDB_ENC_INT32
  <2> QED
    BY <1>1, <2>1, <2>2, <2>3, <2>4
<1> QED
  BY <1>3, <1>4 DEF Objects

\* So a database is loaded from the image of one.
LEMMA ReloadedType ==
  ASSUME NEW d \in Database
  PROVE  Reloaded(d) \in Database
BY RereadType DEF Database, Reloaded, Present

\* A database loaded from an image agrees with every database that the image
\* is current for.
LEMMA ImagedAgrees ==
  ASSUME NEW image \in Database, NEW d \in Database, Imaged(image, d)
  PROVE  Agrees(Reloaded(image), d)
BY DEF Imaged, Agrees, Reloaded, Present, Database

\* A database agrees with itself.
LEMMA AgreesWithItself ==
  ASSUME NEW d \in Database
  PROVE  Agrees(d, d)
BY DEF Agrees, Database

\* The empty database is a database.
LEMMA EmptyDatabaseType == EmptyDatabase \in Database
BY DEF EmptyDatabase, Database

(***************************************************************************)
(* The invariant is inductive.                                             *)
(***************************************************************************)
LEMMA RdbInit == Init => RdbInv
<1> SUFFICES ASSUME Init PROVE RdbInv
  OBVIOUS
<1> USE EmptyDatabaseType, BoundsAssumption DEF Init
<1>1. TypeOK
  <2>1. 0 \in 0 .. MaxDirty /\ children \subseteq Child
    OBVIOUS
  <2>2. file \in [part : {"empty", "torn", "body", "complete"}, image : Database]
    BY DEF EmptyFile
  <2>3. rdbChildPid \in Pids \cup {-1} /\ tmp \in Int /\ dirty \in 0 .. MaxDirty
    BY <2>1
  <2>4. db \in Database
    OBVIOUS
  <2> QED
    BY <2>1, <2>2, <2>3, <2>4 DEF TypeOK
<1>2. CleanMatches
  BY DEF CleanMatches, Loadable, EmptyFile, Agrees, rdbLoad, Reloaded, Present, EmptyDatabase
<1> QED
  BY <1>1, <1>2 DEF RdbInv, TmpHolds, DownIsQuiet, OneChild, ChildIsKnown, SavingHasChild,
       NoSaveWhileStoring, Storing, OrphansRun, FileFollows, ImageIsCurrent

\* The three commands change the database to another one.
LEMMA CommandChanges ==
  ASSUME TypeOK, Command
  PROVE  \/ \E d \in Database : Changes(d)
         \/ \E k \in Keys : expireIfNeed(k)
BY ValuesAssumption DEF Command, commandSetProc, commandDelProc, commandExpireProc, Database, TypeOK

\* A child stays one when it goes to another stage, and when the server ends.
LEMMA ChildGoesOn ==
  ASSUME NEW c \in Child
  PROVE  /\ \A stage \in {"open", "body", "hash", "zombie"} : [c EXCEPT !.stage = stage] \in Child
         /\ \A ok \in BOOLEAN : [c EXCEPT !.stage = "zombie", !.ok = ok] \in Child
         /\ [c EXCEPT !.orphan = TRUE] \in Child
BY DEF Child

\* tmp holds a number of changes, or a pid, where the next step needs one.
LEMMA RdbTypes ==
  ASSUME TypeOK, TmpHolds, [Next]_vars
  PROVE  TypeOK' /\ TmpHolds'
<1> USE BoundsAssumption, PidsAssumption
<1>1. ASSUME NEW d \in Database, Changes(d) PROVE TypeOK' /\ TmpHolds'
  BY <1>1 DEF Changes, TypeOK, TmpHolds, memory
<1>2. ASSUME NEW k \in Keys, expireIfNeed(k) PROVE TypeOK' /\ TmpHolds'
  <2>1. db' \in Database
    BY <1>2 DEF expireIfNeed, TypeOK, Database
  <2> QED
    BY <1>2, <2>1 DEF expireIfNeed, TypeOK, TmpHolds, memory
<1>3. ASSUME StoreDirty PROVE TypeOK' /\ TmpHolds'
  BY <1>3 DEF StoreDirty, TypeOK, TmpHolds, memory
<1>4. ASSUME serverCron PROVE TypeOK' /\ TmpHolds'
  BY <1>4 DEF serverCron, Step, TypeOK, TmpHolds, memory
<1>5. ASSUME EndOfCron PROVE TypeOK' /\ TmpHolds'
  BY <1>5 DEF EndOfCron, Step, TypeOK, TmpHolds, memory
<1>6. ASSUME NEW pid \in Pids, Fork(pid) PROVE TypeOK' /\ TmpHolds'
  <2>1. [pid |-> pid, image |-> db, stage |-> "open", ok |-> FALSE, orphan |-> FALSE] \in Child
    BY DEF TypeOK, Child
  <2>2. children' \subseteq Child
    BY <1>6, <2>1 DEF Fork, TypeOK
  <2>3. tmp' \in Int /\ tmp' \in Pids /\ pc' \in {"pid", "lastpid"}
    BY <1>6 DEF Fork
  <2>4. excused' \in BOOLEAN
    BY <1>6 DEF Fork
  <2> QED
    BY <1>6, <2>2, <2>3, <2>4 DEF Fork, TypeOK, TmpHolds, memory
<1>7. ASSUME ForkFails PROVE TypeOK' /\ TmpHolds'
  BY <1>7 DEF ForkFails, Forking, TypeOK, TmpHolds, memory
<1>8. ASSUME StorePid PROVE TypeOK' /\ TmpHolds'
  BY <1>8 DEF StorePid, TypeOK, TmpHolds, memory
<1>9. ASSUME StoreSaving PROVE TypeOK' /\ TmpHolds'
  BY <1>9 DEF StoreSaving, TypeOK, TmpHolds, memory
<1>10. ASSUME NEW c \in children, sigChildHandler(c) PROVE TypeOK' /\ TmpHolds'
  <2>1. c \in Child /\ children' \subseteq Child
    BY <1>10 DEF sigChildHandler, TypeOK
  <2>2. due' \in BOOLEAN
    BY <1>10, <2>1 DEF sigChildHandler, Reap, TypeOK, Child
  <2>4. dirty' \in 0 .. MaxDirty
    BY <1>10 DEF sigChildHandler, Reap, TypeOK
  <2>5. rdbChildPid' \in Pids \cup {-1} /\ isBgSaving' \in BOOLEAN
    BY <1>10 DEF sigChildHandler, Reap, TypeOK
  <2>3. lost' \in BOOLEAN
    BY <1>10 DEF sigChildHandler, TypeOK
  <2> QED
    BY <1>10, <2>1, <2>2, <2>3, <2>4, <2>5 DEF sigChildHandler, TypeOK, TmpHolds
<1>11. ASSUME sigIntHandler PROVE TypeOK' /\ TmpHolds'
  BY <1>11 DEF sigIntHandler, TypeOK, TmpHolds, memory
<1>12. ASSUME TimePasses PROVE TypeOK' /\ TmpHolds'
  BY <1>12 DEF TimePasses, TypeOK, TmpHolds, memory
<1>13. ASSUME Crash \/ prepareShutdown PROVE TypeOK' /\ TmpHolds'
  <2>1. Down
    BY <1>13 DEF Crash, prepareShutdown
  <2>2. children' \subseteq Child
    BY <2>1, ChildGoesOn DEF Down, TypeOK, Zombies
  <2>3. rdbChildPid' \in Pids \cup {-1} /\ tmp' \in Int /\ dirty' \in 0 .. MaxDirty
    BY <2>1 DEF Down
  <2>4. db' \in Database /\ file' = file
    BY <2>1, EmptyDatabaseType DEF Down
  <2> QED
    BY <2>1, <2>2, <2>3, <2>4 DEF Down, TypeOK, TmpHolds
<1>14. ASSUME initServer PROVE TypeOK' /\ TmpHolds'
  <2>1. db' \in Database
    BY <1>14, ReloadedType DEF initServer, rdbLoad, TypeOK
  <2> QED
    BY <1>14, <2>1 DEF initServer, TypeOK, TmpHolds, memory
<1>15. ASSUME NEW c \in children, rdbSave(c) PROVE TypeOK' /\ TmpHolds'
  <2>1. c \in Child
    BY DEF TypeOK
  <2>2. children' \subseteq Child
    <3>1. \A stage \in {"body", "hash"} : Goes(c, stage) => children' \subseteq Child
      BY <2>1, ChildGoesOn DEF Goes, TypeOK
    <3>2. \A ok \in BOOLEAN : Ends(c, ok) => children' \subseteq Child
      BY <2>1, ChildGoesOn DEF Ends, TypeOK
    <3> QED
      BY <1>15, <3>1, <3>2 DEF rdbSave, OpenFails, Open, WritePart, WriteBody, WriteBodyFails,
           WriteHash, WriteHashFails, TypeOK
  <2>3. file' \in [part : {"empty", "torn", "body", "complete"}, image : Database]
    <3> DEFINE Files == [part : {"empty", "torn", "body", "complete"}, image : Database]
    <3>1. \A part \in {"empty", "torn", "body", "complete"} :
            /\ [part |-> part, image |-> c.image] \in Files
            /\ [part |-> part, image |-> EmptyDatabase] \in Files
      BY <2>1, EmptyDatabaseType DEF Child
    <3>2. EmptyFile \in Files
      BY <3>1 DEF EmptyFile
    <3>3. file \in Files
      BY DEF TypeOK
    <3>4. \/ file' = file \/ file' = EmptyFile
          \/ file' = [part |-> "torn", image |-> EmptyDatabase]
          \/ file' = [part |-> "body", image |-> c.image]
          \/ file' = [part |-> "complete", image |-> c.image]
      BY <1>15 DEF rdbSave, OpenFails, Open, WritePart, WriteBody, WriteBodyFails, WriteHash, WriteHashFails
    <3> HIDE DEF Files
    <3>5. file' \in Files
      BY <3>1, <3>2, <3>3, <3>4
    <3> QED
      BY <3>5 DEF Files
  <2>4. UNCHANGED Server /\ excused' \in BOOLEAN
    BY <1>15 DEF rdbSave, OpenFails, Open, WritePart, WriteBody, WriteBodyFails,
         WriteHash, WriteHashFails, Server, TypeOK
  <2> QED
    BY <2>2, <2>3, <2>4 DEF Server, TypeOK, TmpHolds, memory
<1>16. ASSUME NEW c \in children, ChildDies(c) PROVE TypeOK' /\ TmpHolds'
  <2>1. children' \subseteq Child
    BY <1>16, ChildGoesOn DEF ChildDies, Ends, TypeOK
  <2> QED
    BY <1>16, <2>1 DEF ChildDies, Server, TypeOK, TmpHolds, memory
<1>20. CASE UNCHANGED vars
  BY <1>20 DEF vars, TypeOK, TmpHolds, memory
<1> QED
  BY <1>1, <1>2, <1>3, <1>4, <1>5, <1>6, <1>7, <1>8, <1>9, <1>10, <1>11, <1>12, <1>13, <1>14, <1>15, <1>16, <1>20, CommandChanges DEF Next, Command, Continues

\* With one child at most, a step of a child leaves the same child at another
\* stage, or none when the child was an orphan.
LEMMA ChildSteps ==
  ASSUME TypeOK, OneChild, NEW c \in children, rdbSave(c) \/ ChildDies(c)
  PROVE  /\ UNCHANGED Server
         /\ \/ children' = {} /\ c.orphan
            \/ \E d \in Child :
                 /\ children' = {d}
                 /\ d.pid = c.pid /\ d.image = c.image /\ d.orphan = c.orphan
                 /\ d.orphan => d.stage # "zombie" \/ d.stage = c.stage
         /\ excused => excused'
<1>1. c \in Child /\ children = {c}
  BY DEF TypeOK, OneChild
<1>2. ASSUME NEW stage \in {"body", "hash"}, Goes(c, stage)
      PROVE  \E d \in Child : children' = {d} /\ d.pid = c.pid /\ d.image = c.image
               /\ d.orphan = c.orphan /\ d.stage = stage
  <2>1. [c EXCEPT !.stage = stage] \in Child
    BY <1>1, ChildGoesOn
  <2>2. children' = {[c EXCEPT !.stage = stage]}
    BY <1>1, <1>2 DEF Goes
  <2>3. WITNESS [c EXCEPT !.stage = stage] \in Child
  <2> QED
    BY <1>1, <2>2 DEF Child
<1>3. ASSUME NEW ok \in BOOLEAN, Ends(c, ok)
      PROVE  \/ children' = {} /\ c.orphan
             \/ ~c.orphan /\ \E d \in Child : children' = {d} /\ d.pid = c.pid /\ d.image = c.image
                  /\ d.orphan = c.orphan
  <2>1. CASE c.orphan
    BY <1>1, <1>3, <2>1 DEF Ends
  <2>2. CASE ~c.orphan
    <3>1. [c EXCEPT !.stage = "zombie", !.ok = ok] \in Child
      BY <1>1, ChildGoesOn
    <3>2. children' = {[c EXCEPT !.stage = "zombie", !.ok = ok]}
      BY <1>1, <1>3, <2>2 DEF Ends
    <3>3. \E d \in Child : children' = {d} /\ d.pid = c.pid /\ d.image = c.image
                  /\ d.orphan = c.orphan
      <4> WITNESS [c EXCEPT !.stage = "zombie", !.ok = ok] \in Child
      <4> QED
        BY <1>1, <3>2 DEF Child
    <3> QED
      BY <2>2, <3>3
  <2> QED
    BY <2>1, <2>2
<1>4. \/ \E stage \in {"body", "hash"} : Goes(c, stage)
      \/ \E ok \in BOOLEAN : Ends(c, ok)
      \/ children' = children
  BY DEF rdbSave, OpenFails, Open, WritePart, WriteBody, WriteBodyFails, WriteHash, WriteHashFails, ChildDies
<1>5. UNCHANGED Server
  BY DEF rdbSave, OpenFails, Open, WritePart, WriteBody, WriteBodyFails, WriteHash, WriteHashFails, ChildDies
<1>6. excused => excused'
  <2>1. excused' = excused \/ excused' = TRUE
    BY DEF rdbSave, OpenFails, Open, WritePart, WriteBody, WriteBodyFails, WriteHash, WriteHashFails, ChildDies
  <2> QED
    BY <2>1
<1> QED
  BY <1>1, <1>2, <1>3, <1>4, <1>5, <1>6

\* Before a fork there is no child that the server would have to reap.
LEMMA NoChildBeforeFork ==
  ASSUME NoSaveWhileStoring, ChildIsKnown, Forking
  PROVE  \A c \in children : c.orphan
BY DEF NoSaveWhileStoring, ChildIsKnown, Forking, Storing

\* The part of the invariant that relates the server to its child.
ChildInv ==
  /\ DownIsQuiet /\ OneChild /\ ChildIsKnown /\ SavingHasChild /\ NoSaveWhileStoring /\ OrphansRun

\* Every step keeps what ties the forked child to rdb_child_pid and its image.
LEMMA RdbChildren ==
  ASSUME TypeOK, ChildInv, [Next]_vars
  PROVE  ChildInv'
<1> USE DEF ChildInv, DownIsQuiet, ChildIsKnown, SavingHasChild, NoSaveWhileStoring, OrphansRun, HasChild, Storing
<1>1. ASSUME NEW d \in Database, Changes(d) PROVE ChildInv'
  BY <1>1 DEF Changes, OneChild
<1>2. ASSUME NEW k \in Keys, expireIfNeed(k) PROVE ChildInv'
  BY <1>2 DEF expireIfNeed, OneChild
<1>3. ASSUME StoreDirty PROVE ChildInv'
  BY <1>3 DEF StoreDirty, OneChild
<1>4. ASSUME serverCron PROVE ChildInv'
  BY <1>4 DEF serverCron, Step, bgSaveIfNeeded, memory, OneChild
<1>5. ASSUME EndOfCron PROVE ChildInv'
  BY <1>5 DEF EndOfCron, Step, bgSaveIfNeeded, memory, OneChild
<1>6. ASSUME NEW pid \in Pids, Fork(pid) PROVE ChildInv'
  <2>1. children = {}
    BY <1>6, NoChildBeforeFork DEF Fork, OrphansFinishFirst
  <2>2. PICK c : c.pid = pid /\ c.stage = "open" /\ ~c.orphan /\ children' = {c}
    BY <1>6, <2>1 DEF Fork
  <2>3. OneChild'
    BY <2>2 DEF OneChild
  <2>4. ~isBgSaving' /\ up' /\ tmp' = pid /\ pc' \in {"pid", "lastpid"}
    BY <1>6 DEF Fork, Forking, memory
  <2> QED
    BY <2>2, <2>3, <2>4
<1>7. ASSUME ForkFails PROVE ChildInv'
  BY <1>7 DEF ForkFails, Forking, memory, OneChild
<1>8. ASSUME StorePid PROVE ChildInv'
  BY <1>8 DEF StorePid, OneChild
<1>9. ASSUME StoreSaving PROVE ChildInv'
  BY <1>9 DEF StoreSaving, OneChild
<1>10. ASSUME NEW c \in children, sigChildHandler(c) PROVE ChildInv'
  <2>1. children = {c} /\ children' = {} /\ ~c.orphan
    BY <1>10 DEF sigChildHandler, Zombies, OneChild
  <2>2. \/ lost'
        \/ ~isBgSaving' /\ pc \notin {"pid", "lastpid", "saving", "lastsaving"}
    BY <1>10, <2>1 DEF sigChildHandler, Reap
  <2>3. isBgSaving' => isBgSaving
    BY <1>10 DEF sigChildHandler, Reap
  <2> QED
    BY <1>10, <2>1, <2>2, <2>3 DEF sigChildHandler, OneChild
<1>11. ASSUME sigIntHandler PROVE ChildInv'
  BY <1>11 DEF sigIntHandler, OneChild
<1>12. ASSUME TimePasses PROVE ChildInv'
  BY <1>12 DEF TimePasses, OneChild
<1>13. ASSUME Down PROVE ChildInv'
  <2>1. OneChild'
    BY <1>13 DEF Down, OneChild
  <2>2. \A c \in children' : c.orphan /\ c.stage # "zombie"
    BY <1>13 DEF Down, Zombies, TypeOK, Child
  <2> QED
    BY <1>13, <2>1, <2>2 DEF Down
<1>14. ASSUME initServer PROVE ChildInv'
  BY <1>14 DEF initServer, OneChild
<1>15. ASSUME NEW c \in children, rdbSave(c) \/ ChildDies(c) PROVE ChildInv'
  <2>1. UNCHANGED <<up, pc, tmp, isBgSaving, rdbChildPid, lost>> /\ (excused => excused')
    BY <1>15, ChildSteps DEF Server, memory
  <2>2. CASE children' = {} /\ c.orphan
    <3>1. children = {c}
      BY DEF OneChild
    <3> QED
      BY <2>1, <2>2, <3>1 DEF OneChild
  <2>3. CASE ~(children' = {} /\ c.orphan)
    <3>1. PICK d : children' = {d} /\ d.pid = c.pid /\ d.orphan = c.orphan
            /\ (d.orphan => d.stage # "zombie" \/ d.stage = c.stage)
      BY <1>15, <2>3, ChildSteps
    <3>2. children = {c}
      BY DEF OneChild
    <3> QED
      BY <2>1, <3>1, <3>2 DEF OneChild
  <2> QED
    BY <2>2, <2>3
<1>20. CASE UNCHANGED vars
  BY <1>20 DEF vars, memory, OneChild
<1> QED
  BY <1>1, <1>2, <1>3, <1>4, <1>5, <1>6, <1>7, <1>8, <1>9, <1>10, <1>11, <1>12, <1>13, <1>14, <1>15, <1>20,
     CommandChanges DEF Next, Continues, Crash, prepareShutdown

\* A database is current for itself, and an image stays current when a
\* deadline takes a value away.
LEMMA ImagedItself ==
  ASSUME NEW d \in Database
  PROVE  Imaged(d, d)
BY DEF Imaged

\* Dropping a key that has a deadline keeps the image of a database.
LEMMA ImagedExpires ==
  ASSUME NEW d \in Database, NEW e, NEW k \in d.expires,
         e = [d EXCEPT !.kv[k] = None], NEW image, Imaged(image, d), d.expires \subseteq Keys
  PROVE  Imaged(image, e)
BY DEF Imaged, Database

\* Dropping a key that has a deadline keeps what was loaded in agreement.
LEMMA AgreesExpires ==
  ASSUME NEW d \in Database, NEW e, NEW k \in d.expires,
         e = [d EXCEPT !.kv[k] = None], NEW loaded, Agrees(loaded, d), d.expires \subseteq Keys
  PROVE  Agrees(loaded, e)
BY DEF Agrees, Database

\* The part of the invariant that relates the file to the database.
FileInv == FileFollows /\ ImageIsCurrent /\ CleanMatches

\* Every step keeps what ties the file to the database and the dirty counter.
LEMMA RdbFiles ==
  ASSUME RdbInv, [Next]_vars
  PROVE  FileInv'
<1> USE DEF FileInv, RdbInv
<1>1. ASSUME NEW d \in Database, Changes(d) PROVE FileInv'
  BY <1>1 DEF Changes, FileFollows, ImageIsCurrent, CleanMatches
<1>2. ASSUME NEW k \in Keys, expireIfNeed(k) PROVE FileInv'
  <2>1. k \in db.expires /\ db' = [db EXCEPT !.kv[k] = None] /\ db \in Database /\ db.expires \subseteq Keys
    BY <1>2 DEF expireIfNeed, TypeOK, Database
  <2>2. ImageIsCurrent'
    BY <1>2, <2>1, ImagedExpires DEF expireIfNeed, ImageIsCurrent
  <2>3. CleanMatches'
    BY <1>2, <2>1, AgreesExpires DEF expireIfNeed, CleanMatches
  <2> QED
    BY <1>2, <2>2, <2>3 DEF expireIfNeed, FileFollows
<1>3. ASSUME StoreDirty PROVE FileInv'
  <2>1. dirty' # 0
    BY <1>3, BoundsAssumption DEF StoreDirty, TmpHolds
  <2> QED
    BY <1>3, <2>1 DEF StoreDirty, FileFollows, ImageIsCurrent, CleanMatches
<1>4. ASSUME serverCron PROVE FileInv'
  BY <1>4 DEF serverCron, Step, memory, FileFollows, ImageIsCurrent, CleanMatches
<1>5. ASSUME EndOfCron PROVE FileInv'
  BY <1>5 DEF EndOfCron, Step, memory, FileFollows, ImageIsCurrent, CleanMatches
<1>6. ASSUME NEW pid \in Pids, Fork(pid) PROVE FileInv'
  <2>1. children = {}
    BY <1>6, NoChildBeforeFork DEF Fork, OrphansFinishFirst
  <2>2. PICK c : c.image = db /\ c.stage = "open" /\ children' = {c}
    BY <1>6, <2>1 DEF Fork
  <2>3. Imaged(db, db)
    BY ImagedItself DEF TypeOK
  <2> QED
    BY <1>6, <2>2, <2>3 DEF Fork, memory, FileFollows, ImageIsCurrent, CleanMatches
<1>7. ASSUME ForkFails PROVE FileInv'
  BY <1>7 DEF ForkFails, memory, FileFollows, ImageIsCurrent, CleanMatches
<1>8. ASSUME StorePid PROVE FileInv'
  BY <1>8 DEF StorePid, FileFollows, ImageIsCurrent, CleanMatches
<1>9. ASSUME StoreSaving PROVE FileInv'
  BY <1>9 DEF StoreSaving, FileFollows, ImageIsCurrent, CleanMatches
<1>10. ASSUME NEW c \in children, sigChildHandler(c) PROVE FileInv'
  <2>1. children = {c} /\ children' = {} /\ c.stage = "zombie"
    BY <1>10 DEF sigChildHandler, Zombies, OneChild
  <2>2. CleanMatches'
    <3> SUFFICES ASSUME up', ~excused', ~Big(file'.image)
                 PROVE  Loadable(file') /\ Agrees(rdbLoad(file'), db')
      BY DEF CleanMatches
    <3>1. UNCHANGED <<up, db, file, excused>>
      BY <1>10 DEF sigChildHandler
    <3>2. file = [part |-> "complete", image |-> c.image]
      BY <2>1, <3>1 DEF FileFollows
    <3>3. Imaged(c.image, db)
      BY <2>1, <3>1 DEF ImageIsCurrent
    <3>4. c.image \in Database /\ db \in Database
      BY DEF TypeOK, Child
    <3>5. Agrees(Reloaded(c.image), db)
      BY <3>3, <3>4, ImagedAgrees
    <3> QED
      BY <3>1, <3>2, <3>5 DEF Loadable, rdbLoad
  <2> QED
    BY <2>1, <2>2 DEF FileFollows, ImageIsCurrent
<1>11. ASSUME sigIntHandler PROVE FileInv'
  BY <1>11 DEF sigIntHandler, FileFollows, ImageIsCurrent, CleanMatches
<1>12. ASSUME TimePasses PROVE FileInv'
  BY <1>12 DEF TimePasses, FileFollows, ImageIsCurrent, CleanMatches
<1>13. ASSUME Down PROVE FileInv'
  <2>1. ~up' /\ file' = file
    BY <1>13 DEF Down
  <2>2. FileFollows'
    BY <1>13 DEF Down, FileFollows, Zombies, TypeOK, Child
  <2> QED
    BY <2>1, <2>2 DEF ImageIsCurrent, CleanMatches
<1>14. ASSUME initServer PROVE FileInv'
  <2>1. FileFollows'
    BY <1>14 DEF initServer, FileFollows, OrphansRun, ChildIsKnown
  <2>2. Agrees(rdbLoad(file), db')
    BY <1>14, ReloadedType, AgreesWithItself DEF initServer, rdbLoad, TypeOK
  <2> QED
    BY <1>14, <2>1, <2>2 DEF initServer, ImageIsCurrent, CleanMatches
<1>15. ASSUME NEW c \in children, rdbSave(c) \/ ChildDies(c) PROVE FileInv'
  <2>1. c \in Child /\ children = {c}
    BY DEF TypeOK, OneChild
  <2>2. UNCHANGED Server /\ (excused => excused')
    BY <1>15, ChildSteps
  <2>3. ImageIsCurrent'
    BY <1>15, <2>1, <2>2, ChildSteps DEF ImageIsCurrent, Server, memory
  <2>4. CleanMatches'
    BY <1>15, <2>1, <2>2, ChildSteps DEF CleanMatches, OrphansRun, Server, memory
  <2>5. FileFollows'
    <3>1. CASE OpenFails(c) \/ WriteBodyFails(c) \/ WriteHashFails(c) \/ ChildDies(c)
      <4>1. excused' /\ \E ok \in BOOLEAN : Ends(c, ok)
        BY <3>1 DEF OpenFails, WriteBodyFails, WriteHashFails, ChildDies
      <4>2. \A d \in children' : d.stage = "zombie"
        BY <2>1, <4>1 DEF Ends, Child
      <4> QED
        BY <4>1, <4>2 DEF FileFollows
    <3>2. CASE Open(c)
      <4>1. \A d \in children' : d.stage = "body"
        BY <2>1, <3>2 DEF Open, Goes, Child
      <4> QED
        BY <4>1 DEF FileFollows
    <3>3. CASE WritePart(c)
      BY <2>1, <3>3 DEF WritePart, At, FileFollows
    <3>4. CASE WriteBody(c)
      <4>1. \A d \in children' : d.stage = "hash" /\ d.image = c.image
        BY <2>1, <3>4 DEF WriteBody, Goes, Child
      <4> QED
        BY <3>4, <4>1 DEF WriteBody, FileFollows
    <3>5. CASE WriteHash(c)
      <4>1. \A d \in children' : d.stage = "zombie" /\ d.image = c.image
        BY <2>1, <3>5 DEF WriteHash, Ends, Child
      <4> QED
        BY <3>5, <4>1 DEF WriteHash, FileFollows
    <3> QED
      BY <1>15, <3>1, <3>2, <3>3, <3>4, <3>5 DEF rdbSave
  <2> QED
    BY <2>3, <2>4, <2>5
<1>20. CASE UNCHANGED vars
  BY <1>20 DEF vars, memory, FileFollows, ImageIsCurrent, CleanMatches
<1> QED
  BY <1>1, <1>2, <1>3, <1>4, <1>5, <1>6, <1>7, <1>8, <1>9, <1>10, <1>11, <1>12, <1>13, <1>14, <1>15, <1>20,
     CommandChanges DEF Next, Continues, Crash, prepareShutdown

\* Every step keeps the invariant.
LEMMA RdbInductive == RdbInv /\ [Next]_vars => RdbInv'
<1> SUFFICES ASSUME RdbInv, [Next]_vars PROVE RdbInv'
  OBVIOUS
<1>1. TypeOK' /\ TmpHolds'
  BY RdbTypes DEF RdbInv
<1>2. ChildInv'
  BY RdbChildren DEF RdbInv, ChildInv
<1>3. FileInv'
  BY RdbFiles
<1> QED
  BY <1>1, <1>2, <1>3 DEF RdbInv, ChildInv, FileInv

\* The inductive invariant of snapshots.
LEMMA RdbInvariant == Spec => []RdbInv
BY RdbInit, RdbInductive, PTL DEF Spec

(***************************************************************************)
(* The theorems.                                                           *)
(***************************************************************************)
\* Every variable of the server, of its children and of the file stays within
\* its type: what bgsave finds in tmp to store as rdbChildPid is a pid or -1,
\* and rdbLoad builds a database of values.
THEOREM RdbTypeCorrect == Spec => []TypeOK
<1>1. RdbInv => TypeOK
  BY DEF RdbInv
<1> QED
  BY <1>1, RdbInvariant, PTL

\* isBgSaving always stands for a child of this server that runs or waits to be
\* reaped, unless fork failed or the child was reaped before bgsave had stored
\* its pid, and no two processes write the file at the same time: for every
\* interleaving of SIGCHLD, SIGINT, crashes and restarts.
THEOREM OneSaveAtATime == Spec => []OneSave
<1>1. RdbInv => OneSave
  <2> SUFFICES ASSUME RdbInv PROVE OneSave
    OBVIOUS
  <2>1. up /\ isBgSaving /\ ~lost => \E c \in children : c.pid = rdbChildPid /\ ~c.orphan
    BY DEF RdbInv, SavingHasChild, HasChild
  <2> DEFINE Writers == {c \in children : c.stage \in {"body", "hash"}}
  <2>2. Writers = {} \/ \E c : Writers = {c}
    BY DEF RdbInv, OneChild
  <2>3. Cardinality(Writers) <= 1
    <3> HIDE DEF Writers
    <3>1. Cardinality(Writers) = 0 \/ Cardinality(Writers) = 1
      BY <2>2, FS_EmptySet, FS_Singleton, Zenon
    <3> QED
      BY <3>1
  <2> QED
    BY <2>1, <2>3 DEF OneSave
<1> QED
  BY <1>1, RdbInvariant, PTL

\* When dirty is 0 between two commands and no save is under way, a restart
\* brings the database back from the file, up to deadlines that have passed and
\* what the formats do to values: whatever commands, snapshots, failures,
\* crashes and restarts came before, but for the three exceptions that
\* CleanIsSaved names.
THEOREM CleanServerIsSaved == Spec => []CleanIsSaved
<1>1. RdbInv => CleanIsSaved
  BY DEF RdbInv, CleanMatches, CleanIsSaved
<1> QED
  BY <1>1, RdbInvariant, PTL

\* Whatever value a save has written comes back as it was exactly when it is
\* one that Survives names, and so does every value that is tested; lengths
\* come back in all three forms.
THEOREM RereadIsExact == Spec => []RereadExact
<1>1. RdbInv => RereadExact
  <2> SUFFICES ASSUME RdbInv PROVE RereadExact
    OBVIOUS
  <2>1. ASSUME NEW k \in Present(file.image) PROVE file.image.kv[k] \in Objects
    <3>1. file.image \in Database
      BY DEF RdbInv, TypeOK
    <3>2. file.image.kv \in [Keys -> Objects \cup {None}] /\ k \in Keys /\ file.image.kv[k] # None
      BY <3>1 DEF Database, Present
    <3> QED
      BY <3>2
  <2>2. \A obj \in Tested \cup InFile : obj \in Objects
    BY <2>1, TestedAssumption DEF InFile
  <2>3. ASSUME NEW obj \in Tested, obj.kind = "raw" PROVE obj.n \in 0 .. DWord - 1
    <3>1. obj \in [kind : {"raw"}, n : 0 .. DWord - 1]
      BY <2>3, TestedAssumption DEF Objects
    <3> QED
      BY <3>1
  <2>4. LengthsSurvive({obj.n : obj \in {x \in Tested : x.kind = "raw"}})
    BY <2>3, LengthsReread DEF LengthsSurvive
  <2> QED
    BY <2>2, <2>4, ValuesReread DEF RereadExact
<1> QED
  BY <1>1, RdbInvariant, PTL
=============================================================================
