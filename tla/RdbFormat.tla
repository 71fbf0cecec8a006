----------------------------- MODULE RdbFormat -----------------------------
(***************************************************************************)
(* How rdb.c writes and reads the value of a key.  A value is an integer   *)
(* (REDIS_ENCODING_INT) or a string, of which only the length is kept.  In *)
(* the file it is its first byte, the mark, the number in the bytes that   *)
(* follow the mark and, for a string, its contents.                        *)
(*                                                                         *)
(* Byte, the number of values of a byte, is 256 in the program; every      *)
(* limit of the code is a power of it or a fraction of one.                *)
(***************************************************************************)
EXTENDS Integers

CONSTANT Byte

ASSUME ByteAssumption == Byte \in Nat /\ Byte >= 16 /\ Byte % 4 = 0

Word == Byte * Byte             \* values of two bytes
DWord == Word * Word            \* values of four

\* rdb.h: 0xFC, 0xFD and 0xFE.
RDB_ENC_INT8  == Byte - 4
RDB_ENC_INT16 == Byte - 3
RDB_ENC_INT32 == Byte - 2

Objects == [kind : {"int"}, n : Int] \cup [kind : {"raw"}, n : 0 .. DWord - 1]

\* What the bytes that hold n, one of m values, mean to a signed type.
Signed(n, m) == IF n % m >= m \div 2 THEN (n % m) - m ELSE n % m

\* One byte below 64, two with the mark 10xxxxxx below 64 * 256, else five.
_rdbSaveLen(len) ==
  IF len < Byte \div 4 THEN [mark |-> len, body |-> 0]
  ELSE IF len < (Byte \div 4) * Byte
    THEN [mark |-> (Byte \div 2) + (len \div Byte), body |-> len % Byte]
  ELSE [mark |-> RDB_ENC_INT32, body |-> len]

_rdbLoadLen(f) ==
  IF f.mark < Byte \div 4 THEN f.mark
  ELSE IF f.mark >= Byte \div 2 /\ f.mark < (Byte \div 4) * 3
    THEN (f.mark - Byte \div 2) * Byte + f.body
  ELSE IF f.mark = RDB_ENC_INT32 THEN f.body
  ELSE 0

\* Mutant: one bound for both sizes, as if a byte were read back signed.
SaveSmall(obj) ==
  LET val == Signed(obj.n, DWord) IN
  IF obj.kind = "raw" THEN _rdbSaveLen(obj.n)
  ELSE IF val <= Word \div 2 THEN [mark |-> RDB_ENC_INT8, body |-> val % Byte]
  ELSE [mark |-> RDB_ENC_INT32, body |-> val % DWord]

\* A long is cast to int first; the tests have no lower bound, so that a
\* negative number is cut to one byte.
_rdbSaveStringObject(obj) ==
  LET val == Signed(obj.n, DWord) IN
  IF obj.kind = "raw" THEN _rdbSaveLen(obj.n)
  ELSE IF val <= Byte \div 2 THEN [mark |-> RDB_ENC_INT8, body |-> val % Byte]
  ELSE IF val <= Word \div 2 THEN [mark |-> RDB_ENC_INT16, body |-> val % Word]
  ELSE [mark |-> RDB_ENC_INT32, body |-> val % DWord]

\* One byte is read back unsigned, two and four signed.  A length of five
\* bytes has the mark of an integer of four.
_rdbLoadStringObject(f) ==
  IF f.mark = RDB_ENC_INT8 THEN [kind |-> "int", n |-> f.body]
  ELSE IF f.mark = RDB_ENC_INT16 THEN [kind |-> "int", n |-> Signed(f.body, Word)]
  ELSE IF f.mark = RDB_ENC_INT32 THEN [kind |-> "int", n |-> Signed(f.body, DWord)]
  ELSE [kind |-> "raw", n |-> _rdbLoadLen(f)]

Reread(obj) == _rdbLoadStringObject(_rdbSaveStringObject(obj))

(***************************************************************************)
(* Properties.                                                             *)
(***************************************************************************)

\* The values that are after a restart what they were before it: the numbers
\* from 0 to 2^31 - 1 except 2^15, and the strings shorter than 2^14.
Survives(obj) ==
  IF obj.kind = "int"
    THEN 0 <= obj.n /\ obj.n < DWord \div 2 /\ obj.n # Word \div 2
    ELSE obj.n < (Byte \div 4) * Byte

\* A length, of a key or of a string, is read back as it was written.
LengthsSurvive(lengths) == \A len \in lengths : _rdbLoadLen(_rdbSaveLen(len)) = len
=============================================================================
