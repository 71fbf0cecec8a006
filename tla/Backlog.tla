------------------------------ MODULE Backlog ------------------------------
(***************************************************************************)
(* The replication backlog of a master (redis.h, redis.c): a ring of Size  *)
(* bytes with two offsets that only grow.  The bytes a master propagates   *)
(* are numbered 1, 2, ... in the order it executed their commands; a slot  *)
(* of the ring holds the number of a byte, 0 before anything was written.  *)
(***************************************************************************)
EXTENDS Integers, Sequences

CONSTANT Size   \* MASTER_REPLI_RINGBUFFER_SIZE

ASSUME SizeAssumption == Size \in Nat \ {0}

Slots == 0 .. Size - 1

\* repli_buffer, begin_offset, last_offset.
BacklogState == [ring : [Slots -> Nat], begin : Nat, last : Nat]

EmptyBacklog == [ring |-> [i \in Slots |-> 0], begin |-> 0, last |-> 0]

\* Mutant: the bytes that go round start one slot late.
AddRepliBufLate(b, size) ==
  LET last == b.last % Size
      n    == Size - last - 1
  IN  [ring  |-> [i \in Slots |->
                    IF i > last /\ i <= last + size THEN b.last + i - last
                    ELSE IF i > 0 /\ i < size - n THEN b.last + n + i + 1
                    ELSE b.ring[i]],
       begin |-> b.begin,
       last  |-> b.last + size]

\* Mutant: begin_offset is moved the wrong way.
AddRepliBufBack(b, size) ==
  LET last == b.last % Size
      n    == Size - last - 1
  IN  [ring  |-> [i \in Slots |->
                    IF i > last /\ i <= last + size THEN b.last + i - last
                    ELSE IF i < size - n THEN b.last + n + i + 1
                    ELSE b.ring[i]],
       begin |-> IF b.begin % Size < size - n THEN b.begin + (b.begin % Size) - (size - n)
                 ELSE b.begin,
       last  |-> b.last + size]

\* addRepliBuf: the new bytes follow the slot of last_offset; n of them fit
\* before the end of the array and the others go to its front.  Only a call
\* that goes round the end looks at begin_offset.
addRepliBuf(b, size) ==
  LET last     == b.last % Size
      begin    == b.begin % Size
      n        == Size - last - 1
      round    == last + size >= Size
      inFront  == IF round THEN size - n ELSE 0
  IN  [ring  |-> [i \in Slots |->
                    IF i > last /\ i <= last + size THEN b.last + i - last
                    ELSE IF i < inFront THEN b.last + n + i + 1
                    ELSE b.ring[i]],
       begin |-> IF round /\ begin < inFront
                   THEN b.begin + inFront - begin ELSE b.begin,
       last  |-> b.last + size]

\* May SYNC answer offset from the backlog?
Covers(b, offset) == offset >= 0 /\ offset >= b.begin /\ offset < b.last

\* The bytes that follow +APPENDSYNC: read in one piece from the slot after
\* offset.  Past the array lie the two offsets, which are no bytes of the
\* history: 0 stands for each.
Missing(b, offset) ==
  [j \in 1 .. b.last - offset |->
     IF offset + j < Size THEN b.ring[offset + j] ELSE 0]

\* The last Size bytes of the history are in the slots their numbers say.
HoldsTail(b) ==
  \A k \in 1 .. b.last : k > b.last - Size => b.ring[k % Size] = k

=============================================================================
