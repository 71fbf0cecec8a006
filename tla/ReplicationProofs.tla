------------------------- MODULE ReplicationProofs -------------------------
(***************************************************************************)
(* What holds of the two processes of Replication, for every size of the   *)
(* ring that holds a command and every bound of the runs: the backlog      *)
(* keeps the tail of the history, the types, and the invariant of the      *)
(* slave's connection, from which follow the order of what it executes,    *)
(* the one pending thing of a handshake and what its read loop spins over; *)
(* and that the stream of a connection has no gap.                         *)
(***************************************************************************)
EXTENDS Replication, SequenceTheorems, FiniteSetTheorems, WellFoundedInduction, TLAPS

(***************************************************************************)
(* What addRepliBuf preserves and what SYNC may read, for every size of    *)
(* the ring.  The arithmetic of slots comes first: a number modulo Size,   *)
(* and how it moves when the number does.                                  *)
(***************************************************************************)
\* Every offset lies in a slot of some round of the ring.
LEMMA DivMod ==
  ASSUME NEW a \in Int
  PROVE  \E q \in Int : \E r \in Slots : a = Size * q + r /\ a % Size = r
<1>1. /\ a \div Size \in Int
      /\ a % Size \in Slots
      /\ a = Size * (a \div Size) + (a % Size)
  BY SizeAssumption DEF Slots
<1>2. QED
  BY <1>1

\* In whatever round, the slot is what exceeds the full rounds.
LEMMA ModIs ==
  ASSUME NEW q \in Int, NEW r \in Slots
  PROVE  (Size * q + r) % Size = r
  BY SizeAssumption DEF Slots

\* The slot of a byte at distance d, when it is in the same round (m = 0), the
\* next (m = -1) or the one before (m = 1).
LEMMA ModNear ==
  ASSUME NEW a \in Int, NEW d \in Int, NEW m \in {-1, 0, 1},
         (a % Size) + d + Size * m \in Slots
  PROVE  (a + d) % Size = (a % Size) + d + Size * m
<1>1. PICK q \in Int : \E r \in Slots : a = Size * q + r /\ a % Size = r
  BY DivMod
<1>2. q - m \in Int
  OBVIOUS
<1>3. a + d = Size * (q - m) + ((a % Size) + d + Size * m)
  BY <1>1, SizeAssumption DEF Slots
<1>4. (Size * (q - m) + ((a % Size) + d + Size * m)) % Size = (a % Size) + d + Size * m
  BY <1>2, ModIs
<1>5. QED
  BY <1>3, <1>4

-----------------------------------------------------------------------------
\* What addRepliBuf leaves in slot i, l being the slot of last_offset, without
\* its distinction of calls that go round the end.
LEMMA SlotAfter ==
  ASSUME NEW b \in BacklogState, NEW size \in 1 .. Size, NEW i \in Slots,
         NEW l \in Slots, l = b.last % Size
  PROVE  addRepliBuf(b, size).ring[i] =
           IF i > l /\ i <= l + size THEN b.last + i - l
           ELSE IF i < l + size + 1 - Size THEN b.last + Size - l + i
           ELSE b.ring[i]
<1> DEFINE inFront == IF l + size >= Size THEN size - (Size - l - 1) ELSE 0
<1>1. addRepliBuf(b, size).ring[i] =
        IF i > l /\ i <= l + size THEN b.last + i - l
        ELSE IF i < inFront THEN b.last + (Size - l - 1) + i + 1
        ELSE b.ring[i]
  BY DEF addRepliBuf
<1>2. b.last \in Nat
  BY DEF BacklogState
<1>3. (i < inFront) <=> (i < l + size + 1 - Size)
  BY SizeAssumption DEF Slots
<1>4. b.last + (Size - l - 1) + i + 1 = b.last + Size - l + i
  BY <1>2, SizeAssumption DEF Slots
<1> HIDE DEF inFront
<1>5. QED
  BY <1>1, <1>3, <1>4

\* addRepliBuf keeps the type of the ring and of the offsets, whatever size it
\* is given that fits into the array: begin_offset never becomes negative.
LEMMA AddKeepsState ==
  ASSUME NEW b \in BacklogState, NEW size \in 1 .. Size
  PROVE  addRepliBuf(b, size) \in BacklogState
<1> DEFINE after == addRepliBuf(b, size)
<1>1. PICK l \in Slots : l = b.last % Size
  BY SizeAssumption DEF BacklogState, Slots
<1>2. /\ b.last \in Nat /\ b.begin \in Nat
      /\ b.ring \in [Slots -> Nat]
  BY DEF BacklogState
<1>3. after.last = b.last + size
  BY DEF addRepliBuf
<1>4. after.ring \in [Slots -> Nat]
  <2>1. ASSUME NEW i \in Slots PROVE after.ring[i] \in Nat
    <3> HIDE DEF after
    <3>1. \/ after.ring[i] = b.last + i - l /\ i > l
          \/ after.ring[i] = b.last + Size - l + i
          \/ after.ring[i] = b.ring[i]
      BY <1>1, SlotAfter DEF after
    <3>2. QED
      BY <1>2, <3>1, SizeAssumption DEF Slots
  <2>2. after.ring = [i \in Slots |-> after.ring[i]]
    BY DEF addRepliBuf
  <2> HIDE DEF after
  <2>3. QED
    BY <2>1, <2>2
<1>5. after.begin \in Nat
  <2>1. PICK p \in Slots : p = b.begin % Size
    BY <1>2, SizeAssumption DEF Slots
  <2>2. after.begin = IF l + size >= Size /\ p < (IF l + size >= Size THEN size - (Size - l - 1) ELSE 0)
                        THEN b.begin + (IF l + size >= Size THEN size - (Size - l - 1) ELSE 0) - p
                        ELSE b.begin
    BY <1>1, <2>1 DEF addRepliBuf
  <2> HIDE DEF after
  <2>3. QED
    BY <1>2, <2>2, SizeAssumption DEF Slots
<1>6. after = [ring |-> after.ring, begin |-> after.begin, last |-> after.last]
  BY DEF addRepliBuf
<1> HIDE DEF after
<1>7. after.last \in Nat
  BY <1>2, <1>3
<1>8. after \in BacklogState
  BY <1>4, <1>5, <1>6, <1>7 DEF BacklogState
<1>9. QED
  BY <1>8 DEF after

\* After addRepliBuf the last Size bytes are where they belong: the new ones
\* behind last_offset or, round the end, at the front, and the older ones that
\* still count in slots that the call did not touch.
LEMMA AddHoldsTail ==
  ASSUME NEW b \in BacklogState, NEW size \in 1 .. Size, HoldsTail(b)
  PROVE  HoldsTail(addRepliBuf(b, size))
<1> DEFINE after == addRepliBuf(b, size)
<1>1. PICK l \in Slots : l = b.last % Size
  BY SizeAssumption DEF BacklogState, Slots
<1>2. b.last \in Nat /\ after.last = b.last + size
  BY DEF BacklogState, addRepliBuf
<1>3. \A i \in Slots :
        after.ring[i] = IF i > l /\ i <= l + size THEN b.last + i - l
                        ELSE IF i < l + size + 1 - Size THEN b.last + Size - l + i
                        ELSE b.ring[i]
  BY <1>1, SlotAfter
<1> HIDE DEF after
<1>4. \A m \in {-1, 0, 1}, d \in Int :
        l + d + Size * m \in Slots => (b.last + d) % Size = l + d + Size * m
  BY <1>1, <1>2, ModNear
<1>5. ASSUME NEW k \in 1 .. after.last, k > after.last - Size
      PROVE  after.ring[k % Size] = k
  <2>1. PICK d \in Int : k = b.last + d /\ d <= size /\ d > size - Size
    <3>1. k - b.last \in Int /\ k = b.last + (k - b.last)
      BY <1>2
    <3>2. QED
      BY <1>2, <1>5, <3>1, SizeAssumption
  <2>2. CASE d > 0
    <3>1. CASE l + d < Size
      <4>1. l + d \in Slots /\ l + d > l /\ l + d <= l + size
        BY <2>1, <2>2, <3>1, SizeAssumption DEF Slots
      <4>2. k % Size = l + d
        BY <1>4, <2>1, <4>1, SizeAssumption DEF Slots
      <4>3. after.ring[l + d] = b.last + (l + d) - l
        BY <1>3, <4>1
      <4>4. QED
        BY <1>2, <2>1, <4>1, <4>2, <4>3, SizeAssumption DEF Slots
    <3>2. CASE l + d >= Size
      <4>1. /\ l + d - Size \in Slots
            /\ ~(l + d - Size > l)
            /\ l + d - Size < l + size + 1 - Size
        BY <2>1, <2>2, <3>2, SizeAssumption DEF Slots
      <4>2. k % Size = l + d - Size
        BY <1>4, <2>1, <4>1, SizeAssumption DEF Slots
      <4>3. after.ring[l + d - Size] = b.last + Size - l + (l + d - Size)
        BY <1>3, <4>1
      <4>4. QED
        BY <1>2, <2>1, <4>2, <4>3, SizeAssumption DEF Slots
    <3>3. QED
      BY <3>1, <3>2, SizeAssumption DEF Slots
  <2>3. CASE d <= 0
    <3>1. b.ring[k % Size] = k
      BY <1>2, <1>5, <2>1, <2>3, SizeAssumption DEF HoldsTail
    <3>2. CASE l + d >= 0
      <4>1. /\ l + d \in Slots
            /\ ~(l + d > l)
            /\ ~(l + d < l + size + 1 - Size)
        BY <2>1, <2>3, <3>2, SizeAssumption DEF Slots
      <4>2. k % Size = l + d
        BY <1>4, <2>1, <4>1, SizeAssumption DEF Slots
      <4>3. after.ring[l + d] = b.ring[l + d]
        BY <1>3, <4>1
      <4>4. QED
        BY <3>1, <4>2, <4>3
    <3>3. CASE l + d < 0
      <4>1. /\ l + d + Size \in Slots
            /\ ~(l + d + Size <= l + size)
            /\ ~(l + d + Size < l + size + 1 - Size)
        BY <2>1, <2>3, <3>3, SizeAssumption DEF Slots
      <4>2. k % Size = l + d + Size
        BY <1>4, <2>1, <4>1, SizeAssumption DEF Slots
      <4>3. after.ring[l + d + Size] = b.ring[l + d + Size]
        BY <1>3, <4>1
      <4>4. QED
        BY <3>1, <4>2, <4>3
    <3>4. QED
      BY <3>2, <3>3, SizeAssumption DEF Slots
  <2>4. QED
    BY <2>2, <2>3
<1>6. HoldsTail(after)
  BY <1>5 DEF HoldsTail
<1>7. QED
  BY <1>6 DEF after

\* As long as addRepliBuf has not gone round the end of the array, what SYNC
\* reads behind an offset that it accepts is what follows it in the history.
THEOREM MissingExact ==
  ASSUME NEW b \in BacklogState, HoldsTail(b), b.last < Size,
         NEW asked \in Int, Covers(b, asked)
  PROVE  Missing(b, asked) = [j \in 1 .. b.last - asked |-> asked + j]
<1>1. b.last \in Nat /\ asked \in Nat
  BY DEF BacklogState, Covers
<1>2. ASSUME NEW j \in 1 .. b.last - asked
      PROVE  asked + j < Size /\ b.ring[asked + j] = asked + j
  <2>1. asked + j \in 1 .. b.last /\ asked + j > b.last - Size
    BY <1>1, SizeAssumption
  <2>2. asked + j \in Slots
    BY <1>1, <2>1, SizeAssumption DEF Slots
  <2>3. (Size * 0 + (asked + j)) % Size = asked + j
    BY <2>2, ModIs
  <2>4. (asked + j) % Size = asked + j
    BY <2>2, <2>3, SizeAssumption DEF Slots
  <2>5. QED
    BY <1>1, <2>1, <2>2, <2>4, SizeAssumption DEF HoldsTail, Slots
<1>3. QED
  BY <1>2 DEF Missing

(***************************************************************************)
(* The backlog in the steps of the two processes.                          *)
(***************************************************************************)

\* A backlog of its type that holds the tail: inductive together, since the
\* slots that addRepliBuf writes depend on last_offset being a number.
BacklogInv == backlog \in BacklogState /\ RingHoldsTail

\* Only processCommand on the master writes to the backlog: no handler of the
\* slave, no answer, no end of a connection and no restart of the slave does.
LEMMA OnlyWritesMoveBacklog ==
  ASSUME Next, ~MasterWrite
  PROVE  UNCHANGED backlog
<1>1. CASE Master
  BY <1>1 DEF Master, MasterReads, MasterSends, MasterIgnoresOk,
       commandPingProc, commandReplconfProc, commandReplACKProc, commandSyncProc
<1>2. CASE masterCheckSlave \/ LinkBreaks
  BY <1>2 DEF masterCheckSlave, LinkBreaks, ConnectionEnds
<1>3. CASE LoopTurn
  <2>1. CASE ReceivePong \/ ReceiveReplconfOk \/ ReceiveSyncAnswer
    BY <2>1 DEF ReceivePong, ReceiveReplconfOk, ReceiveSyncAnswer, Turn, masterVars
  <2>2. CASE ReceiveAppendsync
    BY <2>2 DEF ReceiveAppendsync, doAppendSync, Turn, masterVars
  <2>3. CASE ReceiveRdb \/ ReceiveRdbMangled \/ ReceiveOk
    BY <2>3 DEF ReceiveRdb, ReceiveRdbMangled, ReceiveOk, Turn, masterVars
  <2>4. CASE ReceiveRdbPart \/ NothingAwaited
    BY <2>4 DEF ReceiveRdbPart, NothingAwaited, Dies, masterVars
  <2>5. QED
    BY <1>3, <2>1, <2>2, <2>3, <2>4 DEF LoopTurn
<1>4. CASE SlaveReads
  BY <1>4 DEF SlaveReads, RepliRead, RepliReadEnd, SlaveExecutes, SlaveIgnores,
       SlaveReadEnd, Dies, masterVars
<1>5. CASE SlaveWrites
  BY <1>5 DEF SlaveWrites, repliWriteHandler, sendToClient, Sends, Dies, masterVars
<1>6. CASE SlaveCron \/ MasterTimeout
  BY <1>6 DEF SlaveCron, Heartbeat, HeartbeatReconnects, HeartbeatDies, MasterTimeout,
       reconnectMaster, Dies, masterVars
<1>7. CASE Restart
  BY <1>7 DEF Restart
<1>8. QED
  BY <1>1, <1>2, <1>3, <1>4, <1>5, <1>6, <1>7 DEF Next

\* addRepliBuf on the master: the ring never loses or misplaces one of the last
\* Size bytes, over any number of rounds.
THEOREM RingKeepsTail == Spec => []RingHoldsTail
<1>1. Init => BacklogInv
  <2>1. EmptyBacklog \in BacklogState
    BY DEF EmptyBacklog, BacklogState
  <2>2. HoldsTail(EmptyBacklog)
    BY DEF EmptyBacklog, HoldsTail
  <2>3. QED
    BY <2>1, <2>2 DEF Init, BacklogInv, RingHoldsTail
<1>2. BacklogInv /\ [Next]_vars => BacklogInv'
  <2> SUFFICES ASSUME BacklogInv, [Next]_vars PROVE BacklogInv'
    OBVIOUS
  <2>1. CASE MasterWrite
    <3>1. CmdLen \in 1 .. Size
      BY SizeAssumption, CommandFits DEF CmdLen
    <3>2. backlog' = addRepliBuf(backlog, CmdLen)
      BY <2>1 DEF MasterWrite
    <3>3. QED
      BY <3>1, <3>2, AddKeepsState, AddHoldsTail DEF BacklogInv, RingHoldsTail
  <2>2. CASE Next /\ ~MasterWrite
    BY <2>2, OnlyWritesMoveBacklog DEF BacklogInv, RingHoldsTail
  <2>3. CASE UNCHANGED vars
    BY <2>3 DEF vars, masterVars, BacklogInv, RingHoldsTail
  <2>4. QED
    BY <2>1, <2>2, <2>3
<1>3. BacklogInv => RingHoldsTail
  BY DEF BacklogInv
<1>4. QED
  BY <1>1, <1>2, <1>3, PTL DEF Spec

-----------------------------------------------------------------------------
(***************************************************************************)
(* Sequences of messages.                                                  *)
(***************************************************************************)
\* Sequence q is s followed by t.
Joined(q, s, t) ==
  /\ Len(q) = Len(s) + Len(t)
  /\ \A i \in 1 .. Len(s) : q[i] = s[i]
  /\ \A i \in 1 .. Len(t) : q[Len(s) + i] = t[i]

\* Sequence q is s up to some place; from behind place k on.
Begins(q, s) == Len(q) <= Len(s) /\ \A i \in 1 .. Len(q) : q[i] = s[i]
Drops(q, s, k) ==
  k \in 0 .. Len(s) /\ Len(q) = Len(s) - k /\ \A i \in 1 .. Len(q) : q[i] = s[i + k]

\* The length, the domain, the elements and the head of a sequence.
LEMMA SeqIs ==
  ASSUME NEW S, NEW s \in Seq(S)
  PROVE  /\ Len(s) \in Nat /\ DOMAIN s = 1 .. Len(s) /\ \A i \in 1 .. Len(s) : s[i] \in S
         /\ (s # <<>> => Len(s) > 0 /\ 1 \in 1 .. Len(s) /\ Head(s) = s[1]) /\ (s = <<>> => Len(s) = 0)
<1>1. Len(s) \in Nat /\ DOMAIN s = 1 .. Len(s) /\ \A i \in 1 .. Len(s) : s[i] \in S
  BY LenProperties
<1>2. s # <<>> => Len(s) > 0 /\ 1 \in 1 .. Len(s) /\ Head(s) = s[1]
  BY EmptySeq, HeadTailProperties
<1>3. QED
  BY <1>1, <1>2

\* Concatenation, by places.
LEMMA JoinedIs ==
  ASSUME NEW S, NEW s \in Seq(S), NEW t \in Seq(S)
  PROVE  s \o t \in Seq(S) /\ Joined(s \o t, s, t)
<1>1. PICK q, m, n : q = s \o t /\ m = Len(s) /\ n = Len(t)
  OBVIOUS
<1>2. m \in Nat /\ n \in Nat
  BY <1>1, SeqIs
<1>3. /\ q \in Seq(S) /\ Len(q) = m + n
      /\ \A i \in 1 .. m + n : q[i] = IF i <= m THEN s[i] ELSE t[i - m]
  BY <1>1, ConcatProperties
<1>4. \A i \in 1 .. m : i \in 1 .. m + n /\ i <= m
  BY <1>2
<1>5. \A i \in 1 .. n : m + i \in 1 .. m + n /\ ~(m + i <= m) /\ (m + i) - m = i
  BY <1>2
<1>6. QED
  BY <1>1, <1>3, <1>4, <1>5 DEF Joined

\* The rest of a sequence and its beginning.
LEMMA RestIs ==
  ASSUME NEW S, NEW s \in Seq(S), NEW k \in 0 .. Len(s)
  PROVE  Rest(s, k) \in Seq(S) /\ Drops(Rest(s, k), s, k)
<1>1. PICK q, m, j : q = SubSeq(s, k + 1, Len(s)) /\ m = Len(s) /\ j = k + 1
  OBVIOUS
<1>2. m \in Nat /\ k \in 0 .. m /\ j \in Nat /\ j = k + 1 /\ \A i \in 1 .. m : s[i] \in S
  BY <1>1, SeqIs
<1>3. \A i \in j .. m : s[i] \in S
  BY <1>2
<1>4. q = SubSeq(s, j, m)
  BY <1>1
<1>5. /\ SubSeq(s, j, m) \in Seq(S)
      /\ Len(SubSeq(s, j, m)) = IF j <= m THEN m - j + 1 ELSE 0
      /\ \A i \in 1 .. m - j + 1 : SubSeq(s, j, m)[i] = s[j + i - 1]
  BY <1>2, <1>3, SubSeqProperties
<1>6. Len(q) = m - k
  BY <1>2, <1>4, <1>5
<1>7. \A i \in 1 .. m - k : i \in 1 .. m - j + 1 /\ j + i - 1 = i + k
  BY <1>2
<1>8. \A i \in 1 .. Len(q) : q[i] = s[i + k]
  BY <1>4, <1>5, <1>6, <1>7
<1>9. QED
  BY <1>1, <1>2, <1>4, <1>5, <1>6, <1>8 DEF Rest, Drops

\* The first k elements of a sequence, by places.
LEMMA BeginningIs ==
  ASSUME NEW S, NEW s \in Seq(S), NEW k \in 0 .. Len(s)
  PROVE  SubSeq(s, 1, k) \in Seq(S) /\ Len(SubSeq(s, 1, k)) = k /\ Begins(SubSeq(s, 1, k), s)
<1>1. PICK q, m : q = SubSeq(s, 1, k) /\ m = Len(s)
  OBVIOUS
<1>2. m \in Nat /\ k \in 0 .. m /\ \A i \in 1 .. m : s[i] \in S
  BY <1>1, SeqIs
<1>3. \A i \in 1 .. k : s[i] \in S
  BY <1>2
<1>4. /\ SubSeq(s, 1, k) \in Seq(S)
      /\ Len(SubSeq(s, 1, k)) = IF 1 <= k THEN k - 1 + 1 ELSE 0
      /\ \A i \in 1 .. k - 1 + 1 : SubSeq(s, 1, k)[i] = s[1 + i - 1]
  BY <1>2, <1>3, SubSeqProperties
<1>5. Len(q) = k
  BY <1>1, <1>2, <1>4
<1>6. \A i \in 1 .. k : i \in 1 .. k - 1 + 1 /\ 1 + i - 1 = i
  BY <1>2
<1>7. QED
  BY <1>1, <1>2, <1>4, <1>5, <1>6 DEF Begins

\* The tail is what is behind the first place.
LEMMA TailRests ==
  ASSUME NEW S, NEW s \in Seq(S), s # <<>>
  PROVE  Tail(s) \in Seq(S) /\ Drops(Tail(s), s, 1) /\ Head(s) = s[1] /\ s[1] \in S
<1>1. PICK m, q : m = Len(s) /\ q = Tail(s)
  OBVIOUS
<1>2. m \in Nat /\ m > 0 /\ \A i \in 1 .. m : s[i] \in S
  BY <1>1, SeqIs
<1>3. /\ Head(s) = s[1] /\ q \in Seq(S) /\ Len(q) = m - 1
      /\ \A i \in 1 .. Len(q) : q[i] = s[i + 1]
  BY <1>1, HeadTailProperties
<1>4. 1 \in 0 .. m /\ 1 \in 1 .. m
  BY <1>2
<1>5. QED
  BY <1>1, <1>2, <1>3, <1>4 DEF Drops

-----------------------------------------------------------------------------
(***************************************************************************)
(* Messages.                                                               *)
(***************************************************************************)
\* The messages to the slave.
LEMMA MessagesAre ==
  /\ \A k \in Nat : Byte(k) \in ToSlave /\ Byte(k).op = "BYTE" /\ Byte(k).n = k
  /\ \A op \in {"PONG", "OK", "FULLSYNC", "APPENDSYNC", "LEN", "RDB"} :
       Msg(op) \in ToSlave /\ Msg(op).op = op /\ <<Msg(op)>> \in Seq(ToSlave)
  /\ \A m \in ToSlave : m.n \in Nat /\ (m.op = "BYTE" => m = Byte(m.n))
  /\ \A op \in {"PING", "REPLCONF", "REPLACK", "OK"} :
       Msg(op) \in ToMaster /\ Msg(op).op = op /\ <<Msg(op)>> \in Seq(ToMaster)
  /\ \A k \in Int : LET m == [op |-> "SYNC", n |-> k] IN
       m \in ToMaster /\ m.op = "SYNC" /\ <<m>> \in Seq(ToMaster)
  /\ \A m \in ToMaster : m.n \in Int
BY DEF Byte, Msg, ToSlave, ToMaster

\* The bytes of a command.
LEMMA CommandIs ==
  ASSUME NEW c \in Nat \ {0}
  PROVE  /\ Command(c) \in Seq(ToSlave) /\ Len(Command(c)) = 2
         /\ Command(c)[1] = Byte(2 * c - 1) /\ Command(c)[2] = Byte(2 * c)
         /\ 2 * c \in Nat /\ 2 * c - 1 \in Nat /\ 2 * c > 0 /\ 2 * c - 1 > 0
<1>1. 2 * c \in Nat /\ 2 * c - 1 \in Nat /\ 2 * c > 0 /\ 2 * c - 1 > 0
  OBVIOUS
<1>2. PICK x, y : x = 2 * c - 1 /\ y = 2 * c
  OBVIOUS
<1>3. Byte(x) \in ToSlave /\ Byte(y) \in ToSlave
  BY <1>1, <1>2, MessagesAre
<1>4. Command(c) = [j \in 1 .. 2 |-> Byte(2 * (c - 1) + j)]
  BY DEF Command, CmdLen
<1>5. 2 * (c - 1) + 1 = x /\ 2 * (c - 1) + 2 = y
  BY <1>2
<1>6. \A j \in 1 .. 2 : Byte(2 * (c - 1) + j) \in ToSlave
  <2>1. \A j \in 1 .. 2 : j = 1 \/ j = 2
    OBVIOUS
  <2>2. QED
    BY <1>3, <1>5, <2>1
<1>7. Command(c) \in Seq(ToSlave) /\ Len(Command(c)) = 2
  BY <1>4, <1>6, SeqDef, LenProperties
<1>8. Command(c)[1] = Byte(x) /\ Command(c)[2] = Byte(y)
  <2>1. 1 \in 1 .. 2 /\ 2 \in 1 .. 2
    OBVIOUS
  <2>2. QED
    BY <1>4, <1>5, <2>1
<1>9. QED
  BY <1>1, <1>2, <1>7, <1>8

-----------------------------------------------------------------------------
(***************************************************************************)
(* doAppendSync.                                                           *)
(***************************************************************************)
\* What holds of a number when it holds of all smaller ones holds of each up
\* to n.
LEMMA NumberInduction ==
  ASSUME NEW n \in Nat, NEW Good,
         \A k \in 0 .. n : (\A j \in 0 .. k - 1 : j \in Good) => k \in Good
  PROVE  \A k \in 0 .. n : k \in Good
<1> DEFINE S == 1 .. n
           Bad == {1 .. k : k \in {i \in 0 .. n : i \notin Good}}
<1> SUFFICES ASSUME Bad # {} PROVE FALSE
  OBVIOUS
<1>1. IsWellFoundedOn(StrictSubsetOrdering(S), SUBSET S)
  <2>1. IsFiniteSet(S)
    BY FS_Interval
  <2>2. FiniteSubsetsOf(S) = SUBSET S
    BY <2>1, FS_FiniteSubsetsOfFinite
  <2>3. IsWellFoundedOn(StrictSubsetOrdering(S), FiniteSubsetsOf(S))
    BY FS_StrictSubsetOrderingWellFounded
  <2> QED
    BY <2>2, <2>3
<1>2. Bad \subseteq SUBSET S
  OBVIOUS
<1> HIDE DEF Bad
<1>3. PICK s \in Bad : \A t \in Bad : <<t, s>> \notin StrictSubsetOrdering(S)
  BY <1>1, <1>2, WFMin
<1> USE DEF Bad
<1>4. PICK k \in 0 .. n : k \notin Good /\ s = 1 .. k
  OBVIOUS
<1>5. ASSUME NEW j \in 0 .. k - 1 PROVE j \in Good
  <2>1. SUFFICES ASSUME j \notin Good PROVE FALSE
    OBVIOUS
  <2>2. 1 .. j \in Bad
    BY <1>4, <2>1
  <2>3. 1 .. j \subseteq s /\ 1 .. j # s /\ s \subseteq S
    <3>1. k \in 1 .. k /\ k \notin 1 .. j
      BY <1>4
    <3>2. QED
      BY <1>4, <3>1
  <2>4. <<1 .. j, s>> \in StrictSubsetOrdering(S)
    BY <2>3 DEF StrictSubsetOrdering
  <2>5. QED
    BY <1>3, <2>2, <2>4
<1>6. QED
  BY <1>4, <1>5

\* A set of numbers up to n has a largest one.
LEMMA LargestOf ==
  ASSUME NEW n \in Nat, NEW T \in SUBSET (0 .. n), T # {}
  PROVE  Max(T) \in T /\ \A x \in T : Max(T) >= x
<1> DEFINE Good == {k \in 0 .. n : n - k \notin T}
<1>1. SUFFICES ASSUME \A x \in T : \E y \in T : ~(x >= y) PROVE FALSE
  BY DEF Max
<1>2. ASSUME NEW k \in 0 .. n, \A j \in 0 .. k - 1 : j \in Good PROVE k \in Good
  <2>1. SUFFICES ASSUME n - k \in T PROVE FALSE
    OBVIOUS
  <2>2. PICK y \in T : ~(n - k >= y)
    BY <1>1, <2>1
  <2>3. y \in 0 .. n
    OBVIOUS
  <2>4. n - y \in 0 .. k - 1 /\ n - (n - y) = y
    BY <2>2, <2>3
  <2>5. n - y \in Good
    BY <1>2, <2>4
  <2>6. QED
    BY <2>4, <2>5
<1> HIDE DEF Good
<1>3. \A k \in 0 .. n : k \in Good
  BY <1>2, NumberInduction
<1>4. ASSUME NEW x \in T PROVE FALSE
  <2>1. x \in 0 .. n
    OBVIOUS
  <2>2. n - x \in 0 .. n /\ n - (n - x) = x
    BY <2>1
  <2>3. n - x \in Good
    BY <1>3, <2>2
  <2>4. QED
    BY <2>2, <2>3 DEF Good
<1>5. QED
  BY <1>4

\* A command at the head of a buffer.
LEMMA HeldCommand ==
  ASSUME NEW s \in Seq(ToSlave), HoldsCommand(s)
  PROVE  Len(s) >= 2 /\ \E c \in Nat \ {0} : s[1] = Byte(2 * c - 1) /\ s[2] = Byte(2 * c)
<1>1. PICK n, m, c : n = Len(s) /\ m = s[1].n /\ c = ((s[1].n - 1) \div CmdLen) + 1
  OBVIOUS
<1>2. /\ n >= 2 /\ m > 0 /\ SubSeq(s, 1, 2) = Command(c) /\ n \in Nat
      /\ \A i \in 1 .. n : s[i] \in ToSlave
  BY <1>1, SeqIs DEF HoldsCommand, CmdLen
<1>3. 1 \in 1 .. n /\ 2 \in 1 .. n /\ 2 \in 0 .. n /\ 1 \in 1 .. 2 /\ 2 \in 1 .. 2
  BY <1>2
<1>4. m \in Nat
  BY <1>1, <1>2, <1>3, MessagesAre
<1>5. c \in Nat \ {0}
  <2>1. c = ((m - 1) \div 2) + 1
    BY <1>1 DEF CmdLen
  <2>2. QED
    BY <1>2, <1>4, <2>1
<1>6. PICK q : q = SubSeq(s, 1, 2)
  OBVIOUS
<1>7. Len(q) = 2 /\ Begins(q, s)
  BY <1>1, <1>3, <1>6, BeginningIs
<1>8. q[1] = s[1] /\ q[2] = s[2]
  BY <1>3, <1>7 DEF Begins
<1>9. q[1] = Byte(2 * c - 1) /\ q[2] = Byte(2 * c)
  BY <1>2, <1>5, <1>6, CommandIs
<1>10. QED
  BY <1>1, <1>2, <1>5, <1>8, <1>9

\* doAppendSync finds whole commands at the head of the buffer, one behind the
\* other.
LEMMA LeadingIs ==
  ASSUME NEW s \in Seq(ToSlave)
  PROVE  /\ Leading(s) \in Nat /\ 2 * Leading(s) \in 0 .. Len(s)
         /\ \A i \in 1 .. Leading(s) : \E c \in Nat \ {0} :
              s[2 * i - 1] = Byte(2 * c - 1) /\ s[2 * i] = Byte(2 * c)
<1> DEFINE T == {0} \cup {m \in 1 .. Len(s) \div CmdLen :
                          \A i \in 0 .. m - 1 : HoldsCommand(Rest(s, CmdLen * i))}
<1>1. PICK n, h : n = Len(s) /\ h = Len(s) \div CmdLen
  OBVIOUS
<1>2. n \in Nat
  BY <1>1, SeqIs
<1>3. h \in Nat /\ 2 * h <= n
  <2>1. h = n \div 2
    BY <1>1 DEF CmdLen
  <2>2. QED
    BY <1>2, <2>1
<1>4. T \in SUBSET (0 .. h) /\ T # {}
  <2>1. 0 \in 0 .. h /\ \A m \in 1 .. h : m \in 0 .. h
    BY <1>3
  <2>2. QED
    BY <1>1, <2>1
<1>5. PICK m : m = Leading(s)
  OBVIOUS
<1>6. m = Max(T)
  BY <1>5 DEF Leading
<1>7. m \in T
  BY <1>3, <1>4, <1>6, LargestOf
<1>8. m \in 0 .. h /\ m \in Nat /\ 2 * m \in 0 .. n
  BY <1>2, <1>3, <1>4, <1>7
<1>9. ASSUME NEW i \in 1 .. m
      PROVE  \E c \in Nat \ {0} : s[2 * i - 1] = Byte(2 * c - 1) /\ s[2 * i] = Byte(2 * c)
  <2>1. PICK j, k, q : j = i - 1 /\ k = 2 * (i - 1) /\ q = Rest(s, 2 * (i - 1))
    OBVIOUS
  <2>2. j \in 0 .. m - 1 /\ k = 2 * j /\ k \in 0 .. n /\ m # 0 /\ 1 + k = 2 * i - 1 /\ 2 + k = 2 * i
    BY <1>2, <1>8, <2>1
  <2>3. HoldsCommand(q)
    <3>1. \A l \in 0 .. m - 1 : HoldsCommand(Rest(s, CmdLen * l))
      BY <1>7, <2>2
    <3>2. HoldsCommand(Rest(s, CmdLen * j))
      BY <2>2, <3>1
    <3>3. QED
      BY <2>1, <3>2 DEF CmdLen
  <2>4. q \in Seq(ToSlave) /\ Drops(q, s, k)
    BY <1>1, <2>1, <2>2, RestIs
  <2>5. Len(q) >= 2 /\ Len(q) \in Nat
    BY <2>3, <2>4, HeldCommand, SeqIs
  <2>6. PICK c \in Nat \ {0} : q[1] = Byte(2 * c - 1) /\ q[2] = Byte(2 * c)
    BY <2>3, <2>4, HeldCommand
  <2>7. 1 \in 1 .. Len(q) /\ 2 \in 1 .. Len(q)
    BY <2>5
  <2>8. q[1] = s[1 + k] /\ q[2] = s[2 + k]
    BY <2>4, <2>7 DEF Drops
  <2>9. QED
    BY <2>2, <2>6, <2>8
<1>10. QED
  BY <1>1, <1>5, <1>8, <1>9

-----------------------------------------------------------------------------
(***************************************************************************)
(* Types.                                                                  *)
(***************************************************************************)
\* What a handler starts from is of its type.
LEMMA EmptyTypes ==
  /\ <<>> \in Seq(ToSlave) /\ <<>> \in Seq(ToMaster) /\ <<>> \in Seq(Nat)
  /\ NewPeer \in Peer /\ EmptyBacklog \in BacklogState
<1>1. <<>> \in Seq(ToSlave) /\ <<>> \in Seq(ToMaster) /\ <<>> \in Seq(Nat)
  BY EmptySeq
<1>2. NewPeer \in Peer
  BY <1>1 DEF NewPeer, Peer
<1>3. EmptyBacklog \in BacklogState
  BY DEF EmptyBacklog, BacklogState
<1>4. QED
  BY <1>1, <1>2, <1>3

\* A client of the master with more in its buffer.
LEMMA PeerAppends ==
  ASSUME NEW p \in Peer, NEW s \in Seq(ToSlave)
  PROVE  LET q == [p EXCEPT !.writeBuf = @ \o s] IN
         /\ q \in Peer /\ q.slave = p.slave /\ q.sync = p.sync
         /\ q.writeBuf = p.writeBuf \o s
<1>1. PICK w : w = p.writeBuf \o s
  OBVIOUS
<1>2. w \in Seq(ToSlave)
  BY <1>1, ConcatProperties DEF Peer
<1>3. QED
  BY <1>1, <1>2 DEF Peer

\* A reply of one word.
LEMMA ReplyIs ==
  ASSUME NEW p \in Peer, NEW op \in {"PONG", "OK", "FULLSYNC", "APPENDSYNC"}
  PROVE  /\ Reply(p, op) \in Peer
         /\ Reply(p, op).slave = p.slave /\ Reply(p, op).sync = p.sync
         /\ Reply(p, op).writeBuf = p.writeBuf \o <<Msg(op)>>
<1>1. Msg(op) \in ToSlave
  BY MessagesAre
<1>2. PICK w : w = Append(p.writeBuf, Msg(op))
  OBVIOUS
<1>3. p.writeBuf \in Seq(ToSlave)
  BY DEF Peer
<1>4. w \in Seq(ToSlave) /\ w = p.writeBuf \o <<Msg(op)>>
  BY <1>1, <1>2, <1>3, AppendProperties, AppendIsConcat
<1>5. Reply(p, op) = [p EXCEPT !.writeBuf = w]
  BY <1>2 DEF Reply
<1>6. QED
  BY <1>4, <1>5 DEF Peer

\* What follows +APPENDSYNC are bytes.
LEMMA MissingIs ==
  ASSUME NEW b \in BacklogState, NEW from \in Int, Covers(b, from)
  PROVE  LET q == [j \in DOMAIN Missing(b, from) |-> Byte(Missing(b, from)[j])] IN
         /\ q \in Seq(ToSlave) /\ Len(q) = b.last - from /\ b.last - from \in Nat \ {0}
         /\ \A j \in 1 .. b.last - from : q[j] = Byte(Missing(b, from)[j])
<1>1. PICK f, n : f = Missing(b, from) /\ n = b.last - from
  OBVIOUS
<1>2. b.last \in Nat /\ b.ring \in [Slots -> Nat] /\ from \in Nat /\ n \in Nat \ {0}
  BY <1>1 DEF BacklogState, Covers
<1>3. f = [j \in 1 .. n |-> IF from + j < Size THEN b.ring[from + j] ELSE 0]
  BY <1>1 DEF Missing
<1>4. ASSUME NEW j \in 1 .. n PROVE f[j] \in Nat
  <2>1. from + j < Size => from + j \in Slots
    BY <1>2, SizeAssumption DEF Slots
  <2>2. f[j] = IF from + j < Size THEN b.ring[from + j] ELSE 0
    BY <1>3
  <2>3. QED
    BY <1>2, <2>1, <2>2
<1>5. DOMAIN f = 1 .. n
  BY <1>3
<1>6. PICK q : q = [j \in 1 .. n |-> Byte(f[j])]
  OBVIOUS
<1>7. \A j \in 1 .. n : q[j] = Byte(f[j]) /\ Byte(f[j]) \in ToSlave
  BY <1>4, <1>6, MessagesAre
<1>8. q \in Seq(ToSlave) /\ Len(q) = n
  BY <1>2, <1>6, <1>7, SeqDef, LenProperties
<1>9. QED
  BY <1>1, <1>2, <1>5, <1>6, <1>7, <1>8

\* The names that stand for several variables.
LEMMA StutterTypes ==
  ASSUME TypeOK, UNCHANGED vars
  PROVE  TypeOK'
BY DEF TypeOK, vars, masterVars, netVars, slaveConn, slaveData

\* The end of the slave's process keeps the types.
LEMMA DiesTypes ==
  ASSUME TypeOK, Dies
  PROVE  TypeOK'
<1>1. {} \in SUBSET Nat
  OBVIOUS
<1>2. QED
  BY <1>1, EmptyTypes DEF TypeOK, Dies, ConnectFailed, ReplState

\* A new connection, or the attempt of one.
LEMMA ConnectTypes ==
  ASSUME TypeOK, Connected \/ (ConnectFailed /\ replState' \in ReplState),
         status' \in {"runs", "spins", "dead"}, reading' \in BOOLEAN,
         earlier' \in SUBSET Nat, breaks' \in Nat, UNCHANGED <<backlog, offset>>
  PROVE  TypeOK'
<1>1. CASE Connected
  BY <1>1, EmptyTypes DEF TypeOK, Connected, ReplState
<1>2. CASE ConnectFailed /\ replState' \in ReplState
  BY <1>2, EmptyTypes DEF TypeOK, ConnectFailed
<1>3. QED
  BY <1>1, <1>2

\* reconnectMaster keeps what was executed.
LEMMA ReconnectTypes ==
  ASSUME TypeOK, reconnectMaster, breaks' \in Nat
  PROVE  TypeOK'
<1>1. Connected \/ (ConnectFailed /\ replState' \in ReplState)
  BY DEF reconnectMaster, TypeOK
<1>2. earlier' \in SUBSET Nat
  <2>1. \A i \in DOMAIN executed : executed[i] \in Nat
    BY SeqIs DEF TypeOK
  <2>2. earlier' = earlier \cup {executed[i] : i \in DOMAIN executed}
    BY DEF reconnectMaster, ToSet
  <2>3. QED
    BY <2>1, <2>2 DEF TypeOK
<1>3. QED
  BY <1>1, <1>2, ConnectTypes DEF reconnectMaster, TypeOK

\* A write command goes into the backlog and to the slave as bytes of commands.
LEMMA MasterWriteTypes ==
  ASSUME TypeOK, MasterWrite
  PROVE  TypeOK'
<1>1. backlog' \in BacklogState
  <2>1. CmdLen \in 1 .. Size
    BY SizeAssumption, CommandFits DEF CmdLen
  <2>2. QED
    BY <2>1, AddKeepsState DEF TypeOK, MasterWrite
<1>2. PICK c : c = backlog.last \div CmdLen + 1
  OBVIOUS
<1>3. c \in Nat \ {0}
  <2>1. backlog.last \in Nat
    BY DEF TypeOK, BacklogState
  <2>2. c = backlog.last \div 2 + 1
    BY <1>2 DEF CmdLen
  <2>3. QED
    BY <2>1, <2>2
<1>4. PICK s : s = Command(c)
  OBVIOUS
<1>5. s \in Seq(ToSlave)
  BY <1>3, <1>4, CommandIs
<1>6. peer' \in Peer
  <2>1. peer' = IF peer.slave THEN [peer EXCEPT !.writeBuf = @ \o s] ELSE peer
    BY <1>2, <1>4 DEF MasterWrite, commandPropagate
  <2>2. QED
    BY <1>5, <2>1, PeerAppends DEF TypeOK
<1>7. QED
  BY <1>1, <1>6 DEF TypeOK, MasterWrite, netVars, slaveConn, slaveData

\* A read of the master takes the first messages off the connection.
LEMMA MasterReadsTypes ==
  ASSUME TypeOK, NEW op, MasterReads(op)
  PROVE  /\ toMaster' \in Seq(ToMaster) /\ toMaster # <<>>
         /\ link = "up" /\ peer.writeBuf = <<>>
         /\ peer' \in Peer => TypeOK'
<1>1. PICK k : k \in 1 .. Len(toMaster) /\ toMaster' = Rest(toMaster, k)
  BY DEF MasterReads
<1>2. k \in 0 .. Len(toMaster)
  BY <1>1, SeqIs DEF TypeOK
<1>3. toMaster' \in Seq(ToMaster)
  BY <1>1, <1>2, RestIs DEF TypeOK
<1>4. QED
  BY <1>3 DEF TypeOK, MasterReads, HeadIs, slaveConn, slaveData

\* What the master answers and sends are messages of the protocol and bytes.
LEMMA MasterTypes ==
  ASSUME TypeOK, Master
  PROVE  TypeOK'
<1>1. peer \in Peer
  BY DEF TypeOK
<1>2. CASE commandPingProc
  <2>1. peer' \in Peer
    BY <1>1, <1>2, ReplyIs DEF commandPingProc
  <2>2. QED
    BY <1>2, <2>1, MasterReadsTypes DEF commandPingProc
<1>3. CASE commandReplconfProc
  <2>1. PICK p : p = Reply(peer, "OK")
    OBVIOUS
  <2>2. p \in Peer
    BY <1>1, <2>1, ReplyIs
  <2>3. peer' = [p EXCEPT !.slave = TRUE]
    BY <1>3, <2>1 DEF commandReplconfProc
  <2>4. peer' \in Peer
    BY <2>2, <2>3 DEF Peer
  <2>5. QED
    BY <1>3, <2>4, MasterReadsTypes DEF commandReplconfProc
<1>4. CASE commandReplACKProc
  <2>1. peer' \in Peer
    BY <1>1, <1>4, ReplyIs DEF commandReplACKProc
  <2>2. QED
    BY <1>4, <2>1, MasterReadsTypes DEF commandReplACKProc
<1>5. CASE MasterIgnoresOk
  <2>1. peer' \in Peer
    BY <1>1, <1>5 DEF MasterIgnoresOk
  <2>2. QED
    BY <1>5, <2>1, MasterReadsTypes DEF MasterIgnoresOk
<1>6. CASE commandSyncProc
  <2>1. PICK from : from = Head(toMaster).n
    OBVIOUS
  <2>2. from \in Int
    <3>1. toMaster \in Seq(ToMaster) /\ toMaster # <<>>
      BY <1>6, MasterReadsTypes DEF commandSyncProc, TypeOK
    <3>2. Head(toMaster) \in ToMaster
      BY <3>1, TailRests
    <3>3. QED
      BY <2>1, <3>2, MessagesAre
  <2>3. CASE Covers(backlog, from)
    <3>1. PICK s : s = [j \in DOMAIN Missing(backlog, from) |-> Byte(Missing(backlog, from)[j])]
      OBVIOUS
    <3>2. s \in Seq(ToSlave)
      BY <2>2, <2>3, <3>1, MissingIs DEF TypeOK
    <3>3. PICK p : p = Reply(peer, "APPENDSYNC")
      OBVIOUS
    <3>4. p \in Peer
      BY <1>1, <3>3, ReplyIs
    <3>5. peer' = [p EXCEPT !.sync = "SEND_APPENDSYNC", !.writeBuf = @ \o s]
      BY <1>6, <2>1, <2>3, <3>1, <3>3 DEF commandSyncProc
    <3>6. PICK w : w = p.writeBuf \o s
      OBVIOUS
    <3>7. w \in Seq(ToSlave)
      BY <3>2, <3>4, <3>6, ConcatProperties DEF Peer
    <3>8. peer' \in Peer
      BY <3>4, <3>5, <3>6, <3>7 DEF Peer
    <3>9. QED
      BY <1>6, <3>8, MasterReadsTypes DEF commandSyncProc
  <2>4. CASE ~Covers(backlog, from)
    <3>1. PICK p : p = Reply(peer, "FULLSYNC")
      OBVIOUS
    <3>2. p \in Peer
      BY <1>1, <3>1, ReplyIs
    <3>3. peer' = [p EXCEPT !.sync = "SEND_FULLSYNC"]
      BY <1>6, <2>1, <2>4, <3>1 DEF commandSyncProc
    <3>4. peer' \in Peer
      BY <3>2, <3>3 DEF Peer
    <3>5. QED
      BY <1>6, <3>4, MasterReadsTypes DEF commandSyncProc
  <2>5. QED
    BY <2>3, <2>4
<1>7. CASE MasterSends
  <2>1. PICK rdb : rdb \in {<<>>, <<Msg("LEN"), Msg("RDB")>>} /\ toSlave' = toSlave \o peer.writeBuf \o rdb
    BY <1>7 DEF MasterSends
  <2>2. rdb \in Seq(ToSlave)
    <3>1. <<Msg("LEN"), Msg("RDB")>> \in Seq(ToSlave)
      BY MessagesAre
    <3>2. QED
      BY <2>1, <3>1, EmptyTypes
  <2>3. toSlave' \in Seq(ToSlave)
    <3>1. PICK t : t = toSlave \o peer.writeBuf
      OBVIOUS
    <3>2. t \in Seq(ToSlave)
      BY <1>1, <3>1, ConcatProperties DEF TypeOK, Peer
    <3>3. QED
      BY <2>1, <2>2, <3>1, <3>2, ConcatProperties
  <2>4. peer' \in Peer
    <3>1. PICK y : y \in {"SEND_RDB", peer.sync} /\ peer' = [peer EXCEPT !.writeBuf = <<>>, !.sync = y]
      BY <1>7 DEF MasterSends
    <3>2. QED
      BY <1>1, <3>1, EmptyTypes DEF Peer
  <2>5. QED
    BY <1>7, <2>3, <2>4 DEF MasterSends, TypeOK, slaveConn, slaveData
<1>8. QED
  BY <1>2, <1>3, <1>4, <1>5, <1>6, <1>7 DEF Master

\* The end of a connection, at whichever side.
LEMMA EndTypes ==
  ASSUME TypeOK, NEW how \in {"closed", "reset"}, ConnectionEnds(how)
  PROVE  TypeOK'
<1>1. PICK k : k \in {0} \cup Ends(toSlave) /\ toSlave' = SubSeq(toSlave, 1, k)
  BY DEF ConnectionEnds
<1>2. k \in 0 .. Len(toSlave)
  BY <1>1, SeqIs DEF TypeOK, Ends
<1>3. toSlave' \in Seq(ToSlave)
  BY <1>1, <1>2, BeginningIs DEF TypeOK
<1>4. QED
  BY <1>3, EmptyTypes DEF ConnectionEnds, TypeOK, slaveConn, slaveData

\* What a turn of the read loop leaves in the buffer.
LEMMA TurnTypes ==
  ASSUME TypeOK, NEW buf \in Seq(ToSlave), Turn(buf)
  PROVE  /\ readBuf' \in Seq(ToSlave) /\ reading' \in BOOLEAN
         /\ UNCHANGED <<masterVars, netVars, status, writeBuf>>
<1>1. \A x \in Parses(buf) : x \in BOOLEAN
  <2>1. \A x : (Len(buf) > 1 /\ buf[2].op = "RDB") = x => x \in BOOLEAN
    OBVIOUS
  <2>2. QED
    BY <2>1 DEF Parses
<1>2. QED
  BY <1>1 DEF Turn

\* The buffer without its first messages.
LEMMA TailTypes ==
  ASSUME TypeOK, NEW op, HeadIs(readBuf, op)
  PROVE  Tail(readBuf) \in Seq(ToSlave) /\ readBuf # <<>> /\ readBuf[1].op = op
<1>1. readBuf # <<>> /\ Head(readBuf).op = op
  BY DEF HeadIs
<1>2. QED
  BY <1>1, TailRests DEF TypeOK

\* A turn of the read loop keeps the types, also the one that cuts a command.
LEMMA LoopTurnTypes ==
  ASSUME TypeOK, LoopTurn
  PROVE  TypeOK'
<1>1. CASE ReceivePong
  <2>1. Tail(readBuf) \in Seq(ToSlave)
    BY <1>1, TailTypes DEF ReceivePong
  <2>2. QED
    BY <1>1, <2>1, TurnTypes
    DEF ReceivePong, TypeOK, WriteRegistered, masterVars, netVars, slaveData, ReplState
<1>2. CASE ReceiveReplconfOk
  <2>1. Tail(readBuf) \in Seq(ToSlave)
    BY <1>2, TailTypes DEF ReceiveReplconfOk
  <2>2. QED
    BY <1>2, <2>1, TurnTypes
    DEF ReceiveReplconfOk, TypeOK, WriteRegistered, masterVars, netVars, slaveData, ReplState
<1>3. CASE ReceiveSyncAnswer
  <2>1. Tail(readBuf) \in Seq(ToSlave)
    BY <1>3, TailTypes DEF ReceiveSyncAnswer
  <2>2. QED
    BY <1>3, <2>1, TurnTypes
    DEF ReceiveSyncAnswer, TypeOK, EventsUnchanged, masterVars, netVars, slaveData, ReplState
<1>4. CASE ReceiveAppendsync
  <2>1. PICK m, f : m = Leading(readBuf) /\ f = [i \in 1 .. m |-> (readBuf[CmdLen * i].n) \div CmdLen]
    OBVIOUS
  <2>2. /\ m \in Nat /\ 2 * m \in 0 .. Len(readBuf)
        /\ \A i \in 1 .. m : \E c \in Nat \ {0} :
             readBuf[2 * i - 1] = Byte(2 * c - 1) /\ readBuf[2 * i] = Byte(2 * c)
    BY <2>1, LeadingIs DEF TypeOK
  <2>3. \A i \in 1 .. m : f[i] \in Nat
    <3>1. ASSUME NEW i \in 1 .. m PROVE f[i] \in Nat
      <4>1. PICK c \in Nat \ {0} : readBuf[2 * i] = Byte(2 * c)
        BY <2>2
      <4>2. f[i] = (readBuf[2 * i].n) \div 2
        BY <2>1 DEF CmdLen
      <4>3. readBuf[2 * i].n = 2 * c
        BY <4>1 DEF Byte
      <4>4. QED
        BY <4>2, <4>3
    <3>2. QED
      BY <3>1
  <2>4. f \in Seq(Nat)
    BY <2>1, <2>2, <2>3, IsASeq
  <2>5. executed' = executed \o f /\ offset' = offset + 2 * CmdLen * m /\ Turn(Rest(readBuf, CmdLen * m))
    BY <1>4, <2>1 DEF ReceiveAppendsync, doAppendSync
  <2>6. executed' \in Seq(Nat)
    BY <2>4, <2>5, ConcatProperties DEF TypeOK
  <2>7. offset' \in Int
    BY <2>2, <2>5 DEF TypeOK, CmdLen
  <2>8. Rest(readBuf, CmdLen * m) \in Seq(ToSlave)
    BY <2>2, RestIs DEF TypeOK, CmdLen
  <2>9. readBuf' \in Seq(ToSlave) /\ reading' \in BOOLEAN /\ UNCHANGED <<masterVars, netVars, status, writeBuf>>
    BY <2>5, <2>8, TurnTypes
  <2>10. QED
    BY <1>4, <2>6, <2>7, <2>9
    DEF ReceiveAppendsync, doAppendSync, TypeOK, EventsUnchanged, masterVars, netVars, ReplState
<1>5. CASE ReceiveRdb
  <2>1. Rest(readBuf, 2) \in Seq(ToSlave)
    <3>1. 2 \in 0 .. Len(readBuf)
      BY <1>5, SeqIs DEF ReceiveRdb, TypeOK
    <3>2. QED
      BY <3>1, RestIs DEF TypeOK
  <2>2. QED
    BY <1>5, <2>1, TurnTypes
    DEF ReceiveRdb, TypeOK, WriteRegistered, masterVars, netVars, slaveData, ReplState
<1>6. CASE ReceiveRdbPart
  BY <1>6, DiesTypes DEF ReceiveRdbPart
<1>7. CASE ReceiveRdbMangled
  <2>1. PICK s, z : s = Tail(readBuf) /\ z = <<Byte(0)>>
    OBVIOUS
  <2>2. s \in Seq(ToSlave)
    BY <1>7, <2>1, TailTypes DEF ReceiveRdbMangled
  <2>3. z \in Seq(ToSlave)
    <3>1. Byte(0) \in ToSlave
      BY MessagesAre
    <3>2. QED
      BY <2>1, <3>1
  <2>4. z \o s \in Seq(ToSlave)
    BY <2>2, <2>3, ConcatProperties
  <2>5. Turn(z \o s)
    BY <1>7, <2>1 DEF ReceiveRdbMangled
  <2>6. readBuf' \in Seq(ToSlave) /\ reading' \in BOOLEAN /\ UNCHANGED <<masterVars, netVars, status, writeBuf>>
    BY <2>4, <2>5, TurnTypes
  <2>7. QED
    BY <1>7, <2>6
    DEF ReceiveRdbMangled, TypeOK, WriteRegistered, masterVars, netVars, slaveData, ReplState
<1>8. CASE ReceiveOk
  <2>1. Tail(readBuf) \in Seq(ToSlave)
    BY <1>8, TailTypes DEF ReceiveOk
  <2>2. QED
    BY <1>8, <2>1, TurnTypes DEF ReceiveOk, TypeOK, masterVars, netVars, slaveData
<1>9. CASE NothingAwaited
  BY <1>9 DEF NothingAwaited, TypeOK, masterVars, netVars, slaveConn, slaveData
<1>10. QED
  BY <1>1, <1>2, <1>3, <1>4, <1>5, <1>6, <1>7, <1>8, <1>9 DEF LoopTurn

\* A piece of what has arrived, behind what the buffer holds.
LEMMA PieceTypes ==
  ASSUME TypeOK, NEW k \in Ends(toSlave)
  PROVE  /\ k \in 1 .. Len(toSlave) /\ k \in 0 .. Len(toSlave)
         /\ Rest(toSlave, k) \in Seq(ToSlave)
         /\ readBuf \o SubSeq(toSlave, 1, k) \in Seq(ToSlave)
         /\ Len(readBuf \o SubSeq(toSlave, 1, k)) = Len(readBuf) + k
<1>1. k \in 1 .. Len(toSlave) /\ k \in 0 .. Len(toSlave)
  BY SeqIs DEF TypeOK, Ends
<1>2. SubSeq(toSlave, 1, k) \in Seq(ToSlave) /\ Len(SubSeq(toSlave, 1, k)) = k
  BY <1>1, BeginningIs DEF TypeOK
<1>3. Rest(toSlave, k) \in Seq(ToSlave)
  BY <1>1, RestIs DEF TypeOK
<1>4. QED
  BY <1>1, <1>2, <1>3, ConcatProperties DEF TypeOK

\* What the slave reads keeps the types, and what it counts as executed is numbers.
LEMMA SlaveReadsTypes ==
  ASSUME TypeOK, SlaveReads
  PROVE  TypeOK'
<1>1. CASE RepliRead
  <2>1. PICK k \in Ends(toSlave) : Receives(k) /\ readBuf' = readBuf \o SubSeq(toSlave, 1, k)
    BY <1>1 DEF RepliRead
  <2>2. QED
    BY <1>1, <2>1, PieceTypes DEF RepliRead, Receives, Polled, TypeOK, masterVars, slaveData
<1>2. CASE RepliReadEnd
  BY <1>2, DiesTypes DEF RepliReadEnd
<1>3. CASE SlaveExecutes
  <2>1. PICK k \in Ends(toSlave) :
          LET buf == readBuf \o SubSeq(toSlave, 1, k) IN
          /\ Receives(k) /\ HoldsCommand(buf)
          /\ executed' = Append(executed, buf[CmdLen].n \div CmdLen)
          /\ offset' = offset + Len(buf)
          /\ merged' = (merged \/ Len(buf) > CmdLen)
    BY <1>3 DEF SlaveExecutes
  <2>2. PICK buf : buf = readBuf \o SubSeq(toSlave, 1, k)
    OBVIOUS
  <2>3. buf \in Seq(ToSlave) /\ Rest(toSlave, k) \in Seq(ToSlave) /\ Len(buf) \in Nat
    BY <2>2, PieceTypes, SeqIs
  <2>4. PICK c \in Nat \ {0} : buf[2] = Byte(2 * c)
    BY <2>1, <2>2, <2>3, HeldCommand
  <2>5. buf[CmdLen].n \div CmdLen \in Nat
    <3>1. buf[2].n = 2 * c
      BY <2>4 DEF Byte
    <3>2. QED
      BY <3>1 DEF CmdLen
  <2>6. executed' \in Seq(Nat)
    BY <2>1, <2>2, <2>5, AppendProperties DEF TypeOK
  <2>7. writeBuf' \in Seq(ToMaster)
    <3>1. Msg("OK") \in ToMaster
      BY MessagesAre
    <3>2. QED
      BY <1>3, <3>1, AppendProperties DEF SlaveExecutes, TypeOK
  <2>8. offset' \in Int /\ merged' \in BOOLEAN
    BY <2>1, <2>2, <2>3 DEF TypeOK, CmdLen
  <2>9. readBuf' \in Seq(ToSlave) /\ toSlave' \in Seq(ToSlave)
    BY <1>3, <2>1, <2>3, EmptyTypes DEF SlaveExecutes, Receives
  <2>10. QED
    BY <1>3, <2>1, <2>6, <2>7, <2>8, <2>9 DEF SlaveExecutes, Receives, Polled, TypeOK, masterVars
<1>4. CASE SlaveIgnores
  <2>1. PICK k \in Ends(toSlave) :
          LET buf == readBuf \o SubSeq(toSlave, 1, k) IN
          Receives(k) /\ merged' = (merged \/ Len(buf) > 1)
    BY <1>4 DEF SlaveIgnores
  <2>2. merged' \in BOOLEAN /\ toSlave' \in Seq(ToSlave)
    BY <2>1, PieceTypes DEF Receives, TypeOK
  <2>3. QED
    BY <1>4, <2>1, <2>2, EmptyTypes DEF SlaveIgnores, Receives, Polled, TypeOK, masterVars
<1>5. CASE SlaveReadEnd
  BY <1>5 DEF SlaveReadEnd, Polled, TypeOK, masterVars, slaveData
<1>6. QED
  BY <1>1, <1>2, <1>3, <1>4, <1>5 DEF SlaveReads

\* What the slave writes out.
LEMMA SendsTypes ==
  ASSUME TypeOK, NEW out \in Seq(ToMaster), Sends(out)
  PROVE  TypeOK'
<1>1. CASE Dies
  BY <1>1, DiesTypes
<1>2. CASE ~Dies
  <2>1. toMaster' \in Seq(ToMaster)
    BY <1>2, EmptyTypes, ConcatProperties DEF Sends, TypeOK
  <2>2. QED
    BY <1>2, <2>1, EmptyTypes DEF Sends, WatchAgain, TypeOK, masterVars, slaveData
<1>3. QED
  BY <1>1, <1>2 DEF Sends

\* What the slave writes are messages of the protocol.
LEMMA SlaveWritesTypes ==
  ASSUME TypeOK, SlaveWrites
  PROVE  TypeOK'
<1>1. Greeting \in Seq(ToMaster)
  <2>1. offset \in Int
    BY DEF TypeOK
  <2>2. QED
    BY <2>1, EmptyTypes, MessagesAre DEF Greeting
<1>2. writeBuf \o Greeting \in Seq(ToMaster)
  BY <1>1, ConcatProperties DEF TypeOK
<1>3. QED
  BY <1>2, SendsTypes DEF SlaveWrites, repliWriteHandler, sendToClient, TypeOK

\* The timer of the slave and its new start keep the types.
LEMMA CronTypes ==
  ASSUME TypeOK, SlaveCron \/ MasterTimeout \/ Restart
  PROVE  TypeOK'
<1>1. CASE Heartbeat
  BY <1>1 DEF Heartbeat, TypeOK, masterVars, netVars, slaveData
<1>2. CASE HeartbeatReconnects
  BY <1>2, ReconnectTypes DEF HeartbeatReconnects, TypeOK
<1>3. CASE HeartbeatDies
  BY <1>3, DiesTypes DEF HeartbeatDies
<1>4. CASE MasterTimeout
  <2>1. breaks' \in Nat
    BY <1>4 DEF MasterTimeout, TypeOK
  <2>2. QED
    BY <1>4, <2>1, ReconnectTypes DEF MasterTimeout
<1>5. CASE Restart
  <2>1. Connected \/ (ConnectFailed /\ replState' \in ReplState)
    BY <1>5 DEF Restart, ReplState
  <2>2. {} \in SUBSET Nat
    OBVIOUS
  <2>3. QED
    BY <1>5, <2>1, <2>2, ConnectTypes DEF Restart, TypeOK
<1>6. QED
  BY <1>1, <1>2, <1>3, <1>4, <1>5 DEF SlaveCron

\* No handler of either process, no end of a connection, no end and no new start
\* of the slave brings a variable out of its type; in particular what one side
\* sends and the other reads are messages of the protocol and bytes of commands.
THEOREM ReplicationTypeCorrect == Spec => []TypeOK
<1>1. Init => TypeOK
  <2>1. -1 \in Int /\ 0 \in Nat
    OBVIOUS
  <2>2. {} \in SUBSET Nat
    OBVIOUS
  <2>3. QED
    BY <2>1, <2>2, EmptyTypes DEF Init, TypeOK, ReplState
<1>2. TypeOK /\ [Next]_vars => TypeOK'
  <2> SUFFICES ASSUME TypeOK, [Next]_vars PROVE TypeOK'
    OBVIOUS
  <2>1. CASE MasterWrite
    BY <2>1, MasterWriteTypes
  <2>2. CASE Master
    BY <2>2, MasterTypes
  <2>3. CASE masterCheckSlave \/ LinkBreaks
    BY <2>3, EndTypes DEF masterCheckSlave, LinkBreaks
  <2>4. CASE LoopTurn
    BY <2>4, LoopTurnTypes
  <2>5. CASE SlaveReads
    BY <2>5, SlaveReadsTypes
  <2>6. CASE SlaveWrites
    BY <2>6, SlaveWritesTypes
  <2>7. CASE SlaveCron \/ MasterTimeout \/ Restart
    BY <2>7, CronTypes
  <2>8. CASE UNCHANGED vars
    BY <2>8, StutterTypes
  <2>9. QED
    BY <2>1, <2>2, <2>3, <2>4, <2>5, <2>6, <2>7, <2>8 DEF Next
<1>3. QED
  BY <1>1, <1>2, PTL DEF Spec

-----------------------------------------------------------------------------
(***************************************************************************)
(* The invariant of a connection: for each state of the handshake, what is *)
(* on its way to the slave (s, the pipe) and to the master (t).            *)
(***************************************************************************)
OpsIn(s, ops)  == \A i \in 1 .. Len(s) : s[i].op \in ops
NoneOf(s, ops) == \A i \in 1 .. Len(s) : s[i].op \notin ops
Once(s, ops)   == \A i, j \in 1 .. Len(s) : s[i].op \in ops /\ s[j].op \in ops => i = j

\* The bytes behind place k are of the first l of the history, and in its order.
Rising(s, k, l) ==
  \A i \in 1 .. Len(s) :
    i > k /\ s[i].op = "BYTE" =>
      /\ s[i].n <= l
      /\ \A j \in 1 .. Len(s) : j > i /\ s[j].op = "BYTE" => s[i].n < s[j].n

\* Behind place k is a byte that belongs to no command, and nothing but bytes in
\* front of it: the slave does not get past it.
Blocked(s, k, conn) ==
  /\ \A j \in 1 .. Len(s) : j > k /\ s[j].op # "BYTE" =>
       \E i \in 1 .. Len(s) : k < i /\ i < j /\ s[i] = Byte(0)
  /\ conn = "up" => \E i \in 1 .. Len(s) : i > k /\ s[i] = Byte(0)

\* The length of a snapshot and its data come once and together.
Framed(s, conn) ==
  /\ Once(s, {"LEN"})
  /\ \A j \in 1 .. Len(s) : s[j].op = "LEN" =>
       (j # Len(s) /\ s[j + 1].op = "RDB") \/ (j = Len(s) /\ conn # "up")
  /\ \A j \in 1 .. Len(s) : s[j].op = "RDB" => j # 1 /\ s[j - 1].op = "LEN"

\* One thing is pending: the event event, the message op, or one of the replies.
Awaits(op, replies, s, t, event, conn) ==
  /\ OpsIn(t, {op}) /\ Len(t) <= 1
  /\ event = "write" => t = <<>>
  /\ event = "write" \/ t # <<>> => NoneOf(s, replies)
  /\ Once(s, replies)
  /\ conn = "up" => event = "write" \/ t # <<>> \/ ~NoneOf(s, replies)

\* The answer to SYNC: a snapshot is announced before it comes; what is behind
\* +APPENDSYNC is in order, unless the ring has gone round.
Answered(s, l, conn) ==
  /\ \A j \in 1 .. Len(s) : s[j].op = "LEN" => \E i \in 1 .. Len(s) : i < j /\ s[i].op = "FULLSYNC"
  /\ ~NoneOf(s, {"FULLSYNC"}) \/ (conn = "up" /\ NoneOf(s, {"APPENDSYNC"})) => Rising(s, 0, l)
  /\ \A j \in 1 .. Len(s) : s[j].op = "APPENDSYNC" =>
       /\ \A i \in 1 .. Len(s) : i > j => s[i].op = "BYTE"
       /\ Rising(s, j, l) \/ (l >= Size /\ Blocked(s, j, conn))

\* What was executed is in order and of the history, and what is to come is
\* behind it.
Clean(s, x, l) ==
  /\ OpsIn(s, {"OK", "BYTE"}) /\ Rising(s, 0, l)
  /\ Ordered(x)
  /\ \A i \in 1 .. Len(x) :
       /\ 2 * x[i] <= l
       /\ \A j \in 1 .. Len(s) : s[j].op = "BYTE" => 2 * x[i] < s[j].n

\* Before the handshake is over.
Fresh ==
  /\ reader = "repliReadHandler" /\ writer = "repliWriteHandler"
  /\ writeBuf = <<>> /\ executed = <<>>

Connecting ==
  /\ Fresh
  /\ Awaits("PING", {"PONG"}, Pipe, toMaster, watch, link)
  /\ OpsIn(Pipe, {"PONG"})
  /\ ~peer.slave /\ peer.sync = "NONE"

SendReplconf ==
  /\ Fresh
  /\ Awaits("REPLCONF", {"OK"}, Pipe, toMaster, watch, link)
  /\ OpsIn(Pipe, {"OK", "BYTE"}) /\ Rising(Pipe, 0, backlog.last)
  /\ peer.sync = "NONE"

SendSync ==
  /\ Fresh
  /\ Awaits("SYNC", {"FULLSYNC", "APPENDSYNC"}, Pipe, toMaster, watch, link)
  /\ OpsIn(Pipe, {"FULLSYNC", "APPENDSYNC", "LEN", "RDB", "BYTE"})
  /\ Framed(Pipe, link) /\ Answered(Pipe, backlog.last, link)
  /\ peer.sync = "SEND_FULLSYNC" =>
       ~NoneOf(peer.writeBuf, {"FULLSYNC"}) /\ NoneOf(Pipe, {"LEN"})

ReceivingRdb ==
  /\ Fresh
  /\ toMaster = <<>> /\ watch # "write" /\ peer.sync # "SEND_FULLSYNC"
  /\ OpsIn(Pipe, {"LEN", "RDB", "BYTE"}) /\ Framed(Pipe, link) /\ Rising(Pipe, 0, backlog.last)

ReceivingAppendsync ==
  /\ Fresh
  /\ toMaster = <<>> /\ watch # "write" /\ peer.sync # "SEND_FULLSYNC"
  /\ OpsIn(Pipe, {"BYTE"})
  /\ Rising(Pipe, 0, backlog.last) \/ (backlog.last >= Size /\ Blocked(Pipe, 0, link))

InSync ==
  /\ OpsIn(toMaster, {"REPLACK", "OK"}) /\ peer.sync # "SEND_FULLSYNC"
  /\ \/ Clean(Pipe, executed, backlog.last)
     \/ /\ reader = "repliReadHandler" /\ Blocked(Pipe, 0, link)
        /\ executed = <<>> \/ backlog.last >= Size

\* A slave without a connection has nothing of one.
NoConnection ==
  /\ toSlave = <<>> /\ readBuf = <<>> /\ executed = <<>>
  /\ ~reading /\ watch = "none"

Phase ==
  /\ link = "none" => NoConnection
  /\ link # "none" =>
       \/ replState = "CONNECTING" /\ Connecting
       \/ replState = "SEND_REPLCONF" /\ SendReplconf
       \/ replState = "SEND_SYNC" /\ SendSync
       \/ replState = "RECEIVE_RDB" /\ ReceivingRdb
       \/ replState = "RECEIVE_APPENDSYNC" /\ ReceivingAppendsync
       \/ replState = "CONNECTED" /\ InSync

\* Whole commands go into the backlog; a connection that has ended carries
\* nothing to the master, which has forgotten the slave.
Ended == link # "up" => toMaster = <<>> /\ peer = NewPeer

ConnInv ==
  /\ \E q \in Nat : backlog.last = 2 * q
  /\ OpsIn(writeBuf, {"OK"})
  /\ Ended
  /\ SpinsOnWriteOnly
  /\ Phase

-----------------------------------------------------------------------------
(***************************************************************************)
(* What is appended to a pipe, cut off it and taken from it.               *)
(***************************************************************************)
\* The places of two sequences joined.
Halves(q, s, t, p, m, n) ==
  /\ p = Len(q) /\ m = Len(s) /\ n = Len(t) /\ p = m + n
  /\ \A i \in 1 .. p : q[i].n \in Nat
  /\ \A i \in 1 .. m : i \in 1 .. p /\ q[i] = s[i]
  /\ \A j \in 1 .. n : m + j \in 1 .. p /\ q[m + j] = t[j]
  /\ \A i \in 1 .. p :
       \/ i \in 1 .. m /\ q[i] = s[i]
       \/ i - m \in 1 .. n /\ q[i] = t[i - m] /\ i > m

\* What two sequences joined have at their places, as numbers and ops.
LEMMA Places ==
  ASSUME NEW q \in Seq(ToSlave), NEW s \in Seq(ToSlave), NEW t \in Seq(ToSlave), Joined(q, s, t)
  PROVE  \E p, m, n \in Nat : Halves(q, s, t, p, m, n)
<1>1. PICK m, n, p : p = Len(q) /\ m = Len(s) /\ n = Len(t)
  OBVIOUS
<1>2. m \in Nat /\ n \in Nat /\ p \in Nat /\ \A i \in 1 .. p : q[i] \in ToSlave
  BY <1>1, SeqIs
<1>3. /\ p = m + n /\ \A i \in 1 .. m : q[i] = s[i]
      /\ \A i \in 1 .. n : q[m + i] = t[i]
  BY <1>1 DEF Joined
<1>4. \A i \in 1 .. m : i \in 1 .. p
  BY <1>2, <1>3
<1>5. \A j \in 1 .. n : m + j \in 1 .. p
  BY <1>2, <1>3
<1>6. ASSUME NEW i \in 1 .. p
      PROVE  \/ i \in 1 .. m /\ q[i] = s[i]
             \/ i - m \in 1 .. n /\ q[i] = t[i - m] /\ i > m
  <2>1. CASE i \in 1 .. m
    BY <1>3, <2>1
  <2>2. CASE i > m
    <3>1. PICK j : j = i - m
      OBVIOUS
    <3>2. j \in 1 .. n /\ m + j = i
      BY <1>2, <1>3, <2>2, <3>1
    <3>3. QED
      BY <1>3, <2>2, <3>1, <3>2
  <2>3. QED
    BY <1>2, <2>1, <2>2
<1>7. \A i \in 1 .. p : q[i].n \in Nat
  BY <1>2, MessagesAre
<1>8. QED
  BY <1>1, <1>2, <1>3, <1>4, <1>5, <1>6, <1>7 DEF Halves

\* The ops of two sequences joined are those of both.
LEMMA JoinOps ==
  ASSUME NEW q \in Seq(ToSlave), NEW s \in Seq(ToSlave), NEW t \in Seq(ToSlave), Joined(q, s, t),
         NEW ops
  PROVE  /\ OpsIn(s, ops) /\ OpsIn(t, ops) => OpsIn(q, ops)
         /\ NoneOf(q, ops) <=> NoneOf(s, ops) /\ NoneOf(t, ops)
         /\ Once(s, ops) /\ NoneOf(t, ops) => Once(q, ops)
         /\ NoneOf(s, ops) /\ Once(t, ops) => Once(q, ops)
<1>0. PICK p, m, n \in Nat : Halves(q, s, t, p, m, n)
  BY Places
<1>1. p = Len(q) /\ m = Len(s) /\ n = Len(t)
  BY <1>0 DEF Halves
<1>2. /\ m \in Nat /\ n \in Nat /\ p \in Nat
      /\ \A i \in 1 .. m : i \in 1 .. p /\ q[i] = s[i]
      /\ \A j \in 1 .. n : m + j \in 1 .. p /\ q[m + j] = t[j]
      /\ \A i \in 1 .. p :
              \/ i \in 1 .. m /\ q[i] = s[i]
              \/ i - m \in 1 .. n /\ q[i] = t[i - m] /\ i > m
  BY <1>0 DEF Halves
<1>3. OpsIn(s, ops) /\ OpsIn(t, ops) => OpsIn(q, ops)
  BY <1>1, <1>2 DEF OpsIn
<1>4. NoneOf(q, ops) <=> NoneOf(s, ops) /\ NoneOf(t, ops)
  <2>1. NoneOf(s, ops) /\ NoneOf(t, ops) => NoneOf(q, ops)
    BY <1>1, <1>2 DEF NoneOf
  <2>2. NoneOf(q, ops) => NoneOf(s, ops)
    BY <1>1, <1>2 DEF NoneOf
  <2>3. NoneOf(q, ops) => NoneOf(t, ops)
    BY <1>1, <1>2 DEF NoneOf
  <2>4. QED
    BY <2>1, <2>2, <2>3
<1>5. ASSUME Once(s, ops), NoneOf(t, ops) PROVE Once(q, ops)
  <2>1. \A i \in 1 .. p : q[i].op \in ops => i \in 1 .. m /\ q[i] = s[i]
    BY <1>1, <1>2, <1>5 DEF NoneOf
  <2>2. QED
    BY <1>1, <1>5, <2>1 DEF Once
<1>6. ASSUME NoneOf(s, ops), Once(t, ops) PROVE Once(q, ops)
  <2>1. \A i \in 1 .. p : q[i].op \in ops => i - m \in 1 .. n /\ q[i] = t[i - m]
    BY <1>1, <1>2, <1>6 DEF NoneOf
  <2>2. ASSUME NEW i \in 1 .. p, NEW j \in 1 .. p, q[i].op \in ops, q[j].op \in ops PROVE i = j
    <3>1. i - m = j - m
      BY <1>1, <1>6, <2>1, <2>2 DEF Once
    <3>2. QED
      BY <1>2, <3>1
  <2>3. QED
    BY <1>1, <2>2 DEF Once
<1>7. QED
  BY <1>3, <1>4, <1>5, <1>6

\* New bytes of the history go behind the old ones.
LEMMA JoinRising ==
  ASSUME NEW q \in Seq(ToSlave), NEW s \in Seq(ToSlave), NEW t \in Seq(ToSlave), Joined(q, s, t),
         NEW k \in Nat, NEW l \in Nat, NEW r \in Nat, l <= r, Rising(s, k, l), Rising(t, 0, r),
         \A i \in 1 .. Len(t) : t[i].op = "BYTE" => l < t[i].n
  PROVE  Rising(q, k, r)
<1>0. PICK p, m, n \in Nat : Halves(q, s, t, p, m, n)
  BY Places
<1>1. p = Len(q) /\ m = Len(s) /\ n = Len(t)
  BY <1>0 DEF Halves
<1>2. /\ m \in Nat /\ n \in Nat /\ p \in Nat
      /\ \A i \in 1 .. p : q[i].n \in Nat
      /\ \A i \in 1 .. p :
              \/ i \in 1 .. m /\ q[i] = s[i]
              \/ i - m \in 1 .. n /\ q[i] = t[i - m] /\ i > m
  BY <1>0 DEF Halves
<1>3. ASSUME NEW i \in 1 .. p, i > k, q[i].op = "BYTE"
      PROVE  q[i].n <= r /\ \A j \in 1 .. p : j > i /\ q[j].op = "BYTE" => q[i].n < q[j].n
  <2>1. CASE i \in 1 .. m /\ q[i] = s[i]
    <3>1. q[i].n <= l /\ \A j \in 1 .. m : j > i /\ s[j].op = "BYTE" => q[i].n < s[j].n
      BY <1>1, <1>3, <2>1 DEF Rising
    <3>2. \A j \in 1 .. n : t[j].op = "BYTE" => l < t[j].n
      BY <1>1
    <3>3. ASSUME NEW j \in 1 .. p, j > i, q[j].op = "BYTE" PROVE q[i].n < q[j].n
      <4>1. CASE j \in 1 .. m /\ q[j] = s[j]
        BY <3>1, <3>3, <4>1
      <4>2. CASE j - m \in 1 .. n /\ q[j] = t[j - m]
        <5>1. l < q[j].n
          BY <3>2, <3>3, <4>2
        <5>2. q[i].n \in Nat /\ q[j].n \in Nat
          BY <1>2
        <5>3. QED
          BY <3>1, <5>1, <5>2
      <4>3. QED
        BY <1>2, <4>1, <4>2
    <3>4. QED
      BY <1>2, <3>1, <3>3
  <2>2. CASE i - m \in 1 .. n /\ q[i] = t[i - m] /\ i > m
    <3>1. PICK a : a = i - m
      OBVIOUS
    <3>2. a \in 1 .. n /\ q[i] = t[a] /\ a > 0
      BY <2>2, <3>1
    <3>3. q[i].n <= r /\ \A b \in 1 .. n : b > a /\ t[b].op = "BYTE" => q[i].n < t[b].n
      BY <1>1, <1>3, <3>2 DEF Rising
    <3>4. ASSUME NEW j \in 1 .. p, j > i, q[j].op = "BYTE" PROVE q[i].n < q[j].n
      <4>1. j - m \in 1 .. n /\ q[j] = t[j - m] /\ j - m > a
        BY <1>2, <2>2, <3>1, <3>4
      <4>2. QED
        BY <3>3, <3>4, <4>1
    <3>5. QED
      BY <3>3, <3>4
  <2>3. QED
    BY <1>2, <2>1, <2>2
<1>4. QED
  BY <1>1, <1>3 DEF Rising

\* What follows bytes without a command stays behind them.
LEMMA JoinBlocked ==
  ASSUME NEW q \in Seq(ToSlave), NEW s \in Seq(ToSlave), NEW t \in Seq(ToSlave), Joined(q, s, t),
         NEW k \in Nat, NEW c, Blocked(s, k, c), c = "up" \/ OpsIn(t, {"BYTE"})
  PROVE  Blocked(q, k, c)
<1>0. PICK p, m, n \in Nat : Halves(q, s, t, p, m, n)
  BY Places
<1>1. p = Len(q) /\ m = Len(s) /\ n = Len(t)
  BY <1>0 DEF Halves
<1>2. /\ m \in Nat /\ n \in Nat /\ p \in Nat
      /\ \A i \in 1 .. m : i \in 1 .. p /\ q[i] = s[i]
      /\ \A i \in 1 .. p :
              \/ i \in 1 .. m /\ q[i] = s[i]
              \/ i - m \in 1 .. n /\ q[i] = t[i - m] /\ i > m
  BY <1>0 DEF Halves
<1>3. ASSUME c = "up" PROVE \E i \in 1 .. p : i > k /\ i <= m /\ q[i] = Byte(0)
  <2>1. PICK i \in 1 .. m : i > k /\ s[i] = Byte(0)
    BY <1>1, <1>3 DEF Blocked
  <2>2. QED
    BY <1>2, <2>1
<1>4. ASSUME NEW j \in 1 .. p, j > k, q[j].op # "BYTE"
      PROVE  \E i \in 1 .. p : k < i /\ i < j /\ q[i] = Byte(0)
  <2>1. CASE j \in 1 .. m /\ q[j] = s[j]
    <3>1. PICK i \in 1 .. m : k < i /\ i < j /\ s[i] = Byte(0)
      BY <1>1, <1>4, <2>1 DEF Blocked
    <3>2. QED
      BY <1>2, <3>1
  <2>2. CASE j - m \in 1 .. n /\ q[j] = t[j - m] /\ j > m
    <3>1. ~OpsIn(t, {"BYTE"})
      BY <1>1, <1>4, <2>2 DEF OpsIn
    <3>2. PICK i \in 1 .. p : i > k /\ i <= m /\ q[i] = Byte(0)
      BY <1>3, <3>1
    <3>3. i < j
      BY <1>2, <2>2, <3>2
    <3>4. QED
      BY <3>2, <3>3
  <2>3. QED
    BY <1>2, <2>1, <2>2
<1>5. QED
  BY <1>1, <1>3, <1>4 DEF Blocked

\* Nothing comes between the length of a snapshot and its data.
LEMMA JoinFramed ==
  ASSUME NEW q \in Seq(ToSlave), NEW s \in Seq(ToSlave), NEW t \in Seq(ToSlave), Joined(q, s, t),
         Framed(s, "up"), NoneOf(t, {"LEN", "RDB"})
  PROVE  Framed(q, "up")
<1>0. PICK p, m, n \in Nat : Halves(q, s, t, p, m, n)
  BY Places
<1>1. p = Len(q) /\ m = Len(s) /\ n = Len(t)
  BY <1>0 DEF Halves
<1>2. /\ m \in Nat /\ n \in Nat /\ p \in Nat
      /\ \A i \in 1 .. m : i \in 1 .. p /\ q[i] = s[i]
      /\ \A i \in 1 .. p :
              \/ i \in 1 .. m /\ q[i] = s[i]
              \/ i - m \in 1 .. n /\ q[i] = t[i - m] /\ i > m
      /\ p = m + n
  BY <1>0 DEF Halves
<1>3. Once(q, {"LEN"})
  <2>1. NoneOf(t, {"LEN"})
    BY DEF NoneOf
  <2>2. QED
    BY <2>1, JoinOps DEF Framed
<1>4. \A i \in 1 .. p : q[i].op \in {"LEN", "RDB"} => i \in 1 .. m /\ q[i] = s[i]
  BY <1>1, <1>2 DEF NoneOf
<1>5. ASSUME NEW j \in 1 .. p, q[j].op = "LEN" PROVE j # p /\ q[j + 1].op = "RDB"
  <2>1. j \in 1 .. m /\ s[j].op = "LEN"
    BY <1>4, <1>5
  <2>2. j # m /\ s[j + 1].op = "RDB"
    BY <1>1, <2>1 DEF Framed
  <2>3. j + 1 \in 1 .. m
    BY <1>2, <2>1, <2>2
  <2>4. QED
    BY <1>2, <2>2, <2>3
<1>6. ASSUME NEW j \in 1 .. p, q[j].op = "RDB" PROVE j # 1 /\ q[j - 1].op = "LEN"
  <2>1. j \in 1 .. m /\ s[j].op = "RDB"
    BY <1>4, <1>6
  <2>2. j # 1 /\ s[j - 1].op = "LEN"
    BY <1>1, <2>1 DEF Framed
  <2>3. j - 1 \in 1 .. m
    BY <1>2, <2>1, <2>2
  <2>4. QED
    BY <1>2, <2>2, <2>3
<1>7. QED
  BY <1>1, <1>3, <1>5, <1>6 DEF Framed

\* The places of a sequence that is cut off, and of one whose beginning is taken.
CutAt(q, s, p, m) ==
  /\ p = Len(q) /\ m = Len(s) /\ p <= m
  /\ \A i \in 1 .. p : i \in 1 .. m /\ q[i] = s[i]
  /\ \A i \in 1 .. m : s[i].n \in Nat

TakenTo(q, s, k, p, m) ==
  /\ p = Len(q) /\ m = Len(s) /\ p = m - k /\ k \in 0 .. m
  /\ \A i \in 1 .. p : i + k \in 1 .. m /\ q[i] = s[i + k]
  /\ \A i \in 1 .. m : i > k => i - k \in 1 .. p /\ q[i - k] = s[i]
  /\ \A i \in 1 .. m : s[i].n \in Nat

\* What a sequence cut off at its end has at its places.
LEMMA CutPlaces ==
  ASSUME NEW q \in Seq(ToSlave), NEW s \in Seq(ToSlave), Begins(q, s)
  PROVE  \E p, m \in Nat : CutAt(q, s, p, m)
<1>1. PICK p, m : p = Len(q) /\ m = Len(s)
  OBVIOUS
<1>2. m \in Nat /\ p \in Nat /\ \A i \in 1 .. m : s[i] \in ToSlave
  BY <1>1, SeqIs
<1>3. p <= m /\ \A i \in 1 .. p : q[i] = s[i]
  BY <1>1 DEF Begins
<1>4. \A i \in 1 .. m : s[i].n \in Nat
  BY <1>2, MessagesAre
<1>5. \A i \in 1 .. p : i \in 1 .. m
  BY <1>2, <1>3
<1>6. QED
  BY <1>1, <1>2, <1>3, <1>4, <1>5 DEF CutAt

\* What is left behind the first k elements has at its places.
LEMMA TakenPlaces ==
  ASSUME NEW q \in Seq(ToSlave), NEW s \in Seq(ToSlave), NEW k, Drops(q, s, k)
  PROVE  \E p, m \in Nat : TakenTo(q, s, k, p, m)
<1>1. PICK p, m : p = Len(q) /\ m = Len(s)
  OBVIOUS
<1>2. m \in Nat /\ p \in Nat /\ \A i \in 1 .. m : s[i] \in ToSlave
  BY <1>1, SeqIs
<1>3. k \in 0 .. m /\ p = m - k /\ \A i \in 1 .. p : q[i] = s[i + k]
  BY <1>1 DEF Drops
<1>4. \A i \in 1 .. m : s[i].n \in Nat
  BY <1>2, MessagesAre
<1>5. \A i \in 1 .. p : i + k \in 1 .. m
  BY <1>2, <1>3
<1>6. ASSUME NEW i \in 1 .. m, i > k PROVE i - k \in 1 .. p /\ q[i - k] = s[i]
  <2>1. i - k \in 1 .. p /\ (i - k) + k = i
    BY <1>2, <1>3, <1>6
  <2>2. QED
    BY <1>3, <2>1
<1>7. QED
  BY <1>1, <1>2, <1>3, <1>4, <1>5, <1>6 DEF TakenTo

\* Cutting off the end brings no new op and no second one.
LEMMA CutOps ==
  ASSUME NEW q \in Seq(ToSlave), NEW s \in Seq(ToSlave), Begins(q, s), NEW ops
  PROVE  /\ OpsIn(s, ops) => OpsIn(q, ops)
         /\ NoneOf(s, ops) => NoneOf(q, ops)
         /\ Once(s, ops) => Once(q, ops)
<1>0. PICK p, m \in Nat : CutAt(q, s, p, m)
  BY CutPlaces
<1>1. /\ p = Len(q) /\ m = Len(s)
      /\ \A i \in 1 .. p : i \in 1 .. m /\ q[i] = s[i]
  BY <1>0 DEF CutAt
<1>2. OpsIn(s, ops) => OpsIn(q, ops)
  BY <1>1 DEF OpsIn
<1>3. NoneOf(s, ops) => NoneOf(q, ops)
  BY <1>1 DEF NoneOf
<1>4. Once(s, ops) => Once(q, ops)
  BY <1>1 DEF Once
<1>5. QED
  BY <1>2, <1>3, <1>4

\* What was sent on a connection that ends arrives up to some place.
LEMMA CutOrder ==
  ASSUME NEW q \in Seq(ToSlave), NEW s \in Seq(ToSlave), Begins(q, s),
         NEW k \in Nat, NEW l, NEW c, NEW d, d # "up"
  PROVE  /\ Rising(s, k, l) => Rising(q, k, l)
         /\ Blocked(s, k, c) => Blocked(q, k, d)
         /\ Framed(s, c) => Framed(q, d)
<1>0. PICK p, m \in Nat : CutAt(q, s, p, m)
  BY CutPlaces
<1>1. /\ p = Len(q) /\ m = Len(s) /\ p <= m
      /\ \A i \in 1 .. p : i \in 1 .. m /\ q[i] = s[i]
  BY <1>0 DEF CutAt
<1>2. Rising(s, k, l) => Rising(q, k, l)
  BY <1>1 DEF Rising
<1>3. ASSUME Blocked(s, k, c) PROVE Blocked(q, k, d)
  <2>1. ASSUME NEW j \in 1 .. p, j > k, q[j].op # "BYTE"
        PROVE  \E i \in 1 .. p : k < i /\ i < j /\ q[i] = Byte(0)
    <3>1. j \in 1 .. m /\ s[j].op # "BYTE"
      BY <1>1, <2>1
    <3>2. PICK i \in 1 .. m : k < i /\ i < j /\ s[i] = Byte(0)
      BY <1>1, <1>3, <2>1, <3>1 DEF Blocked
    <3>3. i \in 1 .. p
      BY <3>2
    <3>4. QED
      BY <1>1, <3>2, <3>3
  <2>2. QED
    BY <1>1, <2>1 DEF Blocked
<1>4. ASSUME Framed(s, c) PROVE Framed(q, d)
  <2>1. Once(q, {"LEN"})
    BY <1>4, CutOps DEF Framed
  <2>2. ASSUME NEW j \in 1 .. p, q[j].op = "LEN", j # p PROVE q[j + 1].op = "RDB"
    <3>1. j \in 1 .. m /\ s[j].op = "LEN" /\ j # m /\ j + 1 \in 1 .. p
      BY <1>1, <2>2
    <3>2. s[j + 1].op = "RDB"
      BY <1>1, <1>4, <3>1 DEF Framed
    <3>3. QED
      BY <1>1, <3>1, <3>2
  <2>3. ASSUME NEW j \in 1 .. p, q[j].op = "RDB" PROVE j # 1 /\ q[j - 1].op = "LEN"
    <3>1. j \in 1 .. m /\ s[j].op = "RDB"
      BY <1>1, <2>3
    <3>2. j # 1 /\ s[j - 1].op = "LEN"
      BY <1>1, <1>4, <3>1 DEF Framed
    <3>3. j - 1 \in 1 .. p
      BY <3>2
    <3>4. QED
      BY <1>1, <3>2, <3>3
  <2>4. QED
    BY <1>1, <2>1, <2>2, <2>3 DEF Framed
<1>5. QED
  BY <1>2, <1>3, <1>4

\* The answer to SYNC stays one when a connection that ended cuts it off.
LEMMA CutAnswered ==
  ASSUME NEW q \in Seq(ToSlave), NEW s \in Seq(ToSlave), Begins(q, s),
         NEW l, NEW c, NEW d, d # "up", Answered(s, l, c)
  PROVE  Answered(q, l, d)
<1>0. PICK p, m \in Nat : CutAt(q, s, p, m)
  BY CutPlaces
<1>1. /\ p = Len(q) /\ m = Len(s) /\ p <= m
      /\ \A i \in 1 .. p : i \in 1 .. m /\ q[i] = s[i]
  BY <1>0 DEF CutAt
<1>2. ASSUME NEW j \in 1 .. p, q[j].op = "LEN"
      PROVE  \E i \in 1 .. p : i < j /\ q[i].op = "FULLSYNC"
  <2>1. PICK i \in 1 .. m : i < j /\ s[i].op = "FULLSYNC"
    BY <1>1, <1>2 DEF Answered
  <2>2. i \in 1 .. p
    BY <2>1
  <2>3. QED
    BY <1>1, <2>1, <2>2
<1>3. ASSUME ~NoneOf(q, {"FULLSYNC"}) PROVE Rising(q, 0, l)
  <2>1. ~NoneOf(s, {"FULLSYNC"})
    BY <1>3, CutOps
  <2>2. Rising(s, 0, l)
    BY <2>1 DEF Answered
  <2>3. QED
    BY <2>2, CutOrder
<1>4. ASSUME NEW j \in 1 .. p, q[j].op = "APPENDSYNC"
      PROVE  /\ \A i \in 1 .. p : i > j => q[i].op = "BYTE"
             /\ Rising(q, j, l) \/ (l >= Size /\ Blocked(q, j, d))
  <2>1. /\ \A i \in 1 .. m : i > j => s[i].op = "BYTE"
        /\ Rising(s, j, l) \/ (l >= Size /\ Blocked(s, j, c))
    BY <1>1, <1>4 DEF Answered
  <2>2. j \in Nat
    OBVIOUS
  <2>3. Rising(q, j, l) \/ (l >= Size /\ Blocked(q, j, d))
    BY <2>1, <2>2, CutOrder
  <2>4. QED
    BY <1>1, <2>1, <2>3
<1>5. QED
  BY <1>1, <1>2, <1>3, <1>4 DEF Answered

\* Taking from the front brings no new op, and the only one of its kind is gone.
LEMMA TakenOps ==
  ASSUME NEW q \in Seq(ToSlave), NEW s \in Seq(ToSlave), NEW k, Drops(q, s, k), NEW ops
  PROVE  /\ OpsIn(s, ops) => OpsIn(q, ops)
         /\ NoneOf(s, ops) => NoneOf(q, ops)
         /\ Once(s, ops) => Once(q, ops)
         /\ Once(s, ops) /\ k >= 1 /\ s[1].op \in ops => NoneOf(q, ops)
<1>0. PICK p, m \in Nat : TakenTo(q, s, k, p, m)
  BY TakenPlaces
<1>1. /\ p = Len(q) /\ m = Len(s) /\ k \in 0 .. m
      /\ \A i \in 1 .. p : i + k \in 1 .. m /\ q[i] = s[i + k]
  BY <1>0 DEF TakenTo
<1>2. OpsIn(s, ops) => OpsIn(q, ops)
  BY <1>1 DEF OpsIn
<1>3. NoneOf(s, ops) => NoneOf(q, ops)
  BY <1>1 DEF NoneOf
<1>4. ASSUME Once(s, ops) PROVE Once(q, ops)
  <2>1. ASSUME NEW i \in 1 .. p, NEW j \in 1 .. p, q[i].op \in ops, q[j].op \in ops PROVE i = j
    <3>1. i + k = j + k
      BY <1>1, <1>4, <2>1 DEF Once
    <3>2. QED
      BY <1>1, <3>1
  <2>2. QED
    BY <1>1, <2>1 DEF Once
<1>5. ASSUME Once(s, ops), k >= 1, s[1].op \in ops PROVE NoneOf(q, ops)
  <2>1. ASSUME NEW i \in 1 .. p, q[i].op \in ops PROVE FALSE
    <3>1. i + k \in 1 .. m /\ s[i + k].op \in ops /\ 1 \in 1 .. m /\ i + k # 1
      BY <1>1, <1>5, <2>1
    <3>2. QED
      BY <1>1, <1>5, <3>1 DEF Once
  <2>2. QED
    BY <1>1, <2>1 DEF NoneOf
<1>6. QED
  BY <1>2, <1>3, <1>4, <1>5

\* What the slave takes off the pipe leaves the rest in order, and blocked if no
\* byte without a command was taken.
LEMMA TakenOrder ==
  ASSUME NEW q \in Seq(ToSlave), NEW s \in Seq(ToSlave), NEW k, Drops(q, s, k),
         NEW a \in Nat, a <= k, NEW l, NEW c
  PROVE  /\ Rising(s, a, l) => Rising(q, 0, l)
         /\ Blocked(s, a, c) /\ (\A i \in 1 .. k : i > a => s[i] # Byte(0)) => Blocked(q, 0, c)
<1>0. PICK p, m \in Nat : TakenTo(q, s, k, p, m)
  BY TakenPlaces
<1>1. /\ p = Len(q) /\ m = Len(s) /\ k \in 0 .. m /\ p = m - k
      /\ \A i \in 1 .. p : i + k \in 1 .. m /\ q[i] = s[i + k]
      /\ \A i \in 1 .. m : i > k => i - k \in 1 .. p /\ q[i - k] = s[i]
  BY <1>0 DEF TakenTo
<1>2. ASSUME Rising(s, a, l) PROVE Rising(q, 0, l)
  <2>1. ASSUME NEW i \in 1 .. p, q[i].op = "BYTE"
        PROVE  q[i].n <= l /\ \A j \in 1 .. p : j > i /\ q[j].op = "BYTE" => q[i].n < q[j].n
    <3>1. i + k \in 1 .. m /\ i + k > a /\ q[i] = s[i + k]
      BY <1>1
    <3>2. q[i].n <= l /\ \A j \in 1 .. m : j > i + k /\ s[j].op = "BYTE" => q[i].n < s[j].n
      BY <1>1, <1>2, <2>1, <3>1 DEF Rising
    <3>3. ASSUME NEW j \in 1 .. p, j > i, q[j].op = "BYTE" PROVE q[i].n < q[j].n
      <4>1. j + k \in 1 .. m /\ j + k > i + k /\ q[j] = s[j + k]
        BY <1>1, <3>3
      <4>2. QED
        BY <3>2, <3>3, <4>1
    <3>4. QED
      BY <3>2, <3>3
  <2>2. QED
    BY <1>1, <2>1 DEF Rising
<1>3. ASSUME Blocked(s, a, c), \A i \in 1 .. k : i > a => s[i] # Byte(0) PROVE Blocked(q, 0, c)
  <2>1. ASSUME NEW i \in 1 .. m, i > a, s[i] = Byte(0)
        PROVE  i - k \in 1 .. p /\ q[i - k] = Byte(0)
    <3>1. ~(i <= k)
      <4>1. i \in 1 .. k => s[i] # Byte(0)
        BY <1>3, <2>1
      <4>2. QED
        BY <1>1, <2>1, <4>1
    <3>2. QED
      BY <1>1, <2>1, <3>1
  <2>2. ASSUME NEW j \in 1 .. p, q[j].op # "BYTE"
        PROVE  \E i \in 1 .. p : 0 < i /\ i < j /\ q[i] = Byte(0)
    <3>1. j + k \in 1 .. m /\ j + k > a /\ q[j] = s[j + k]
      BY <1>1
    <3>2. PICK i \in 1 .. m : a < i /\ i < j + k /\ s[i] = Byte(0)
      BY <1>1, <1>3, <2>2, <3>1 DEF Blocked
    <3>3. i - k \in 1 .. p /\ q[i - k] = Byte(0) /\ i - k < j
      BY <1>1, <2>1, <3>2
    <3>4. QED
      BY <3>3
  <2>3. ASSUME c = "up" PROVE \E i \in 1 .. p : i > 0 /\ q[i] = Byte(0)
    <3>1. PICK i \in 1 .. m : i > a /\ s[i] = Byte(0)
      BY <1>1, <1>3, <2>3 DEF Blocked
    <3>2. i - k \in 1 .. p /\ q[i - k] = Byte(0)
      BY <2>1, <3>1
    <3>3. QED
      BY <3>2
  <2>4. QED
    BY <1>1, <2>2, <2>3 DEF Blocked
<1>4. QED
  BY <1>2, <1>3

\* The frame of a snapshot is kept when what is in front of it is taken.
LEMMA TakenFramed ==
  ASSUME NEW q \in Seq(ToSlave), NEW s \in Seq(ToSlave), Drops(q, s, 1), s[1].op # "LEN",
         NEW c, Framed(s, c)
  PROVE  Framed(q, c)
<1>0. PICK p, m \in Nat : TakenTo(q, s, 1, p, m)
  BY TakenPlaces
<1>1. /\ p = Len(q) /\ m = Len(s) /\ p = m - 1
      /\ \A i \in 1 .. p : i + 1 \in 1 .. m /\ q[i] = s[i + 1]
      /\ \A i \in 1 .. m : i > 1 => i - 1 \in 1 .. p /\ q[i - 1] = s[i]
  BY <1>0 DEF TakenTo
<1>2. Once(q, {"LEN"})
  BY TakenOps DEF Framed
<1>3. ASSUME NEW j \in 1 .. p, q[j].op = "LEN"
      PROVE  (j # p /\ q[j + 1].op = "RDB") \/ (j = p /\ c # "up")
  <2>1. j + 1 \in 1 .. m /\ s[j + 1].op = "LEN"
    BY <1>1, <1>3
  <2>2. (j + 1 # m /\ s[(j + 1) + 1].op = "RDB") \/ (j + 1 = m /\ c # "up")
    BY <1>1, <2>1 DEF Framed
  <2>3. CASE j + 1 = m /\ c # "up"
    BY <1>1, <2>3
  <2>4. CASE j + 1 # m /\ s[(j + 1) + 1].op = "RDB"
    <3>1. j + 1 \in 1 .. p /\ j # p
      BY <1>1, <2>1, <2>4
    <3>2. q[j + 1] = s[(j + 1) + 1]
      BY <1>1, <3>1
    <3>3. QED
      BY <2>4, <3>1, <3>2
  <2>5. QED
    BY <2>2, <2>3, <2>4
<1>4. ASSUME NEW j \in 1 .. p, q[j].op = "RDB" PROVE j # 1 /\ q[j - 1].op = "LEN"
  <2>1. j + 1 \in 1 .. m /\ s[j + 1].op = "RDB"
    BY <1>1, <1>4
  <2>2. j + 1 # 1 /\ s[(j + 1) - 1].op = "LEN" /\ (j + 1) - 1 = j
    BY <1>1, <2>1 DEF Framed
  <2>3. j # 1
    BY <2>2
  <2>4. j - 1 \in 1 .. p /\ (j - 1) + 1 = j
    BY <2>3
  <2>5. q[j - 1] = s[j]
    BY <1>1, <2>4
  <2>6. QED
    BY <2>2, <2>3, <2>5
<1>5. QED
  BY <1>1, <1>2, <1>3, <1>4 DEF Framed

\* A longer history has what a shorter one had.
LEMMA HistoryGrows ==
  ASSUME NEW s \in Seq(ToSlave), NEW l \in Nat, NEW r \in Nat, l <= r
  PROVE  /\ \A k \in Nat : Rising(s, k, l) => Rising(s, k, r)
         /\ \A c : Answered(s, l, c) => Answered(s, r, c)
         /\ \A x \in Seq(Nat) : Clean(s, x, l) => Clean(s, x, r)
<1>1. PICK m : m = Len(s)
  OBVIOUS
<1>2. \A i \in 1 .. m : s[i].n \in Nat
  BY <1>1, SeqIs, MessagesAre
<1>3. ASSUME NEW k \in Nat, Rising(s, k, l) PROVE Rising(s, k, r)
  <2>1. \A i \in 1 .. m : i > k /\ s[i].op = "BYTE" => s[i].n <= r
    BY <1>1, <1>2, <1>3 DEF Rising
  <2>2. QED
    BY <1>1, <1>3, <2>1 DEF Rising
<1>4. ASSUME NEW c, Answered(s, l, c) PROVE Answered(s, r, c)
  <2>1. ASSUME ~NoneOf(s, {"FULLSYNC"}) \/ (c = "up" /\ NoneOf(s, {"APPENDSYNC"})) PROVE Rising(s, 0, r)
    BY <1>3, <1>4, <2>1 DEF Answered
  <2>2. ASSUME NEW j \in 1 .. Len(s), s[j].op = "APPENDSYNC"
        PROVE  Rising(s, j, r) \/ (r >= Size /\ Blocked(s, j, c))
    <3>1. Rising(s, j, l) \/ (l >= Size /\ Blocked(s, j, c))
      BY <1>4, <2>2 DEF Answered
    <3>2. l >= Size => r >= Size
      BY SizeAssumption
    <3>3. j \in Nat
      OBVIOUS
    <3>4. QED
      BY <1>3, <3>1, <3>2, <3>3
  <2>3. QED
    BY <1>4, <2>1, <2>2 DEF Answered
<1>5. ASSUME NEW x \in Seq(Nat), Clean(s, x, l) PROVE Clean(s, x, r)
  <2>1. \A i \in 1 .. Len(x) : x[i] \in Nat
    BY SeqIs
  <2>2. Rising(s, 0, r)
    BY <1>3, <1>5 DEF Clean
  <2>3. \A i \in 1 .. Len(x) : 2 * x[i] <= r
    <3>1. ASSUME NEW i \in 1 .. Len(x) PROVE 2 * x[i] <= r
      <4>1. 2 * x[i] <= l /\ x[i] \in Nat
        BY <1>5, <2>1 DEF Clean
      <4>2. QED
        BY <4>1
    <3>2. QED
      BY <3>1
  <2>4. QED
    BY <1>5, <2>2, <2>3 DEF Clean
<1>6. QED
  BY <1>3, <1>4, <1>5

\* What the master appends: words of the protocol, and bytes that are new.
Newer(t, l, r) ==
  Rising(t, 0, r) /\ \A i \in 1 .. Len(t) : t[i].op = "BYTE" => l < t[i].n

\* Appending what is newer keeps the order.
LEMMA JoinNewer ==
  ASSUME NEW q \in Seq(ToSlave), NEW s \in Seq(ToSlave), NEW t \in Seq(ToSlave), Joined(q, s, t),
         NEW k \in Nat, NEW l \in Nat, NEW r \in Nat, l <= r, Rising(s, k, l), Newer(t, l, r)
  PROVE  Rising(q, k, r)
BY JoinRising DEF Newer

\* Messages without a byte are newer than anything.
LEMMA WordsAreNewer ==
  ASSUME NEW t \in Seq(ToSlave), NoneOf(t, {"BYTE"}), NEW l \in Nat
  PROVE  Newer(t, l, l)
BY DEF NoneOf, Newer, Rising

\* The bytes of the next command are newer than the history so far.
LEMMA CommandIsNewer ==
  ASSUME NEW c \in Nat
  PROVE  Newer(Command(c + 1), 2 * c, 2 * c + 2) /\ OpsIn(Command(c + 1), {"BYTE"})
<1>1. PICK d \in Nat \ {0} : d = c + 1
  OBVIOUS
<1>2. PICK s : s = Command(d)
  OBVIOUS
<1>3. /\ Len(s) = 2 /\ s[1] = Byte(2 * d - 1) /\ s[2] = Byte(2 * d)
      /\ 2 * d \in Nat /\ 2 * d - 1 \in Nat
  BY <1>2, CommandIs
<1>4. /\ s[1].op = "BYTE" /\ s[2].op = "BYTE"
      /\ s[1].n = 2 * d - 1 /\ s[2].n = 2 * d
  BY <1>3, MessagesAre
<1>5. 1 .. Len(s) = {1, 2}
  BY <1>3
<1>6. 2 * c < 2 * d - 1 /\ 2 * c < 2 * d /\ 2 * d <= 2 * c + 2 /\ 2 * d - 1 <= 2 * c + 2
  BY <1>1
<1>7. OpsIn(s, {"BYTE"})
  BY <1>4, <1>5 DEF OpsIn
<1>8. Rising(s, 0, 2 * c + 2)
  <2>1. ASSUME NEW i \in {1, 2}
        PROVE  s[i].n <= 2 * c + 2 /\ \A j \in {1, 2} : j > i /\ s[j].op = "BYTE" => s[i].n < s[j].n
    BY <1>3, <1>4, <1>6
  <2>2. QED
    BY <1>5, <2>1 DEF Rising
<1>9. \A i \in 1 .. Len(s) : s[i].op = "BYTE" => 2 * c < s[i].n
  BY <1>4, <1>5, <1>6
<1>10. Newer(s, 2 * c, 2 * c + 2)
  BY <1>8, <1>9 DEF Newer
<1>11. QED
  BY <1>1, <1>2, <1>7, <1>10

\* Propagated bytes come behind the answer to SYNC.
LEMMA JoinAnswered ==
  ASSUME NEW q \in Seq(ToSlave), NEW s \in Seq(ToSlave), NEW t \in Seq(ToSlave), Joined(q, s, t),
         NEW l \in Nat, NEW r \in Nat, l <= r, NEW c, Answered(s, l, c),
         Newer(t, l, r), OpsIn(t, {"BYTE"})
  PROVE  Answered(q, r, c)
<1>0. PICK p, m, n \in Nat : Halves(q, s, t, p, m, n)
  BY Places
<1>1. p = Len(q) /\ m = Len(s) /\ n = Len(t)
  BY <1>0 DEF Halves
<1>2. /\ \A i \in 1 .. m : i \in 1 .. p /\ q[i] = s[i]
      /\ \A i \in 1 .. p :
              \/ i \in 1 .. m /\ q[i] = s[i]
              \/ i - m \in 1 .. n /\ q[i] = t[i - m] /\ i > m
  BY <1>0 DEF Halves
<1>3. \A i \in 1 .. p : q[i].op # "BYTE" => i \in 1 .. m /\ q[i] = s[i]
  BY <1>1, <1>2 DEF OpsIn
<1>4. ASSUME NEW j \in 1 .. p, q[j].op = "LEN"
      PROVE  \E i \in 1 .. p : i < j /\ q[i].op = "FULLSYNC"
  <2>1. j \in 1 .. m /\ s[j].op = "LEN"
    BY <1>3, <1>4
  <2>2. PICK i \in 1 .. m : i < j /\ s[i].op = "FULLSYNC"
    BY <1>1, <2>1 DEF Answered
  <2>3. QED
    BY <1>2, <2>2
<1>5. NoneOf(t, {"FULLSYNC"}) /\ NoneOf(t, {"APPENDSYNC"})
  BY DEF OpsIn, NoneOf
<1>6. ASSUME ~NoneOf(q, {"FULLSYNC"}) \/ (c = "up" /\ NoneOf(q, {"APPENDSYNC"})) PROVE Rising(q, 0, r)
  <2>1. ~NoneOf(s, {"FULLSYNC"}) \/ (c = "up" /\ NoneOf(s, {"APPENDSYNC"}))
    BY <1>5, <1>6, JoinOps
  <2>2. Rising(s, 0, l)
    BY <2>1 DEF Answered
  <2>3. QED
    BY <2>2, JoinNewer
<1>7. ASSUME NEW j \in 1 .. p, q[j].op = "APPENDSYNC"
      PROVE  /\ \A i \in 1 .. p : i > j => q[i].op = "BYTE"
             /\ Rising(q, j, r) \/ (r >= Size /\ Blocked(q, j, c))
  <2>1. j \in 1 .. m /\ s[j].op = "APPENDSYNC" /\ j \in Nat
    BY <1>3, <1>7
  <2>2. \A i \in 1 .. m : i > j => s[i].op = "BYTE"
    BY <1>1, <2>1 DEF Answered
  <2>3. \A i \in 1 .. p : i > j => q[i].op = "BYTE"
    BY <1>3, <2>2
  <2>4. CASE Rising(s, j, l)
    BY <2>1, <2>3, <2>4, JoinNewer
  <2>5. CASE l >= Size /\ Blocked(s, j, c)
    <3>1. Blocked(q, j, c)
      BY <2>1, <2>5, JoinBlocked
    <3>2. r >= Size
      BY <2>5, SizeAssumption
    <3>3. QED
      BY <2>3, <3>1, <3>2
  <2>6. QED
    BY <1>1, <2>1, <2>4, <2>5 DEF Answered
<1>8. QED
  BY <1>1, <1>4, <1>6, <1>7 DEF Answered

\* Executed commands and what follows them.
LEMMA JoinClean ==
  ASSUME NEW q \in Seq(ToSlave), NEW s \in Seq(ToSlave), NEW t \in Seq(ToSlave), Joined(q, s, t),
         NEW x \in Seq(Nat), NEW l \in Nat, NEW r \in Nat, l <= r, Clean(s, x, l),
         Newer(t, l, r), OpsIn(t, {"OK", "BYTE"})
  PROVE  Clean(q, x, r)
<1>0. PICK p, m, n \in Nat : Halves(q, s, t, p, m, n)
  BY Places
<1>1. p = Len(q) /\ m = Len(s) /\ n = Len(t)
  BY <1>0 DEF Halves
<1>2. /\ \A i \in 1 .. p : q[i].n \in Nat
      /\ \A i \in 1 .. p :
              \/ i \in 1 .. m /\ q[i] = s[i]
              \/ i - m \in 1 .. n /\ q[i] = t[i - m] /\ i > m
  BY <1>0 DEF Halves
<1>3. OpsIn(q, {"OK", "BYTE"})
  BY JoinOps DEF Clean
<1>4. Rising(q, 0, r)
  BY JoinNewer DEF Clean
<1>5. \A i \in 1 .. Len(x) : x[i] \in Nat
  BY SeqIs
<1>6. ASSUME NEW i \in 1 .. Len(x)
      PROVE  2 * x[i] <= r /\ \A j \in 1 .. p : q[j].op = "BYTE" => 2 * x[i] < q[j].n
  <2>1. PICK y : y = 2 * x[i]
    OBVIOUS
  <2>2. y \in Nat /\ y <= l /\ \A j \in 1 .. m : s[j].op = "BYTE" => y < s[j].n
    BY <1>1, <1>5, <2>1 DEF Clean
  <2>3. ASSUME NEW j \in 1 .. p, q[j].op = "BYTE" PROVE y < q[j].n
    <3>1. CASE j \in 1 .. m /\ q[j] = s[j]
      BY <2>2, <2>3, <3>1
    <3>2. CASE j - m \in 1 .. n /\ q[j] = t[j - m]
      <4>1. l < q[j].n
        BY <1>1, <2>3, <3>2 DEF Newer
      <4>2. QED
        BY <1>2, <2>2, <4>1
    <3>3. QED
      BY <1>2, <3>1, <3>2
  <2>4. QED
    BY <2>1, <2>2, <2>3
<1>7. QED
  BY <1>1, <1>3, <1>4, <1>6 DEF Clean

\* A connection that ended cuts off the end of a clean stream.
LEMMA CutClean ==
  ASSUME NEW q \in Seq(ToSlave), NEW s \in Seq(ToSlave), Begins(q, s),
         NEW x, NEW l, Clean(s, x, l)
  PROVE  Clean(q, x, l)
<1>0. PICK p, m \in Nat : CutAt(q, s, p, m)
  BY CutPlaces
<1>1. /\ p = Len(q) /\ m = Len(s)
      /\ \A i \in 1 .. p : i \in 1 .. m /\ q[i] = s[i]
  BY <1>0 DEF CutAt
<1>2. OpsIn(q, {"OK", "BYTE"})
  BY CutOps DEF Clean
<1>3. Rising(q, 0, l)
  <2>1. Rising(s, 0, l) /\ 0 \in Nat /\ "none" # "up"
    BY DEF Clean
  <2>2. QED
    BY <2>1, CutOrder
<1>4. QED
  BY <1>1, <1>2, <1>3 DEF Clean

\* What is left of a clean stream after a read is clean.
LEMMA TakenClean ==
  ASSUME NEW q \in Seq(ToSlave), NEW s \in Seq(ToSlave), NEW k, Drops(q, s, k),
         NEW x, NEW l, Clean(s, x, l)
  PROVE  Clean(q, x, l)
<1>0. PICK p, m \in Nat : TakenTo(q, s, k, p, m)
  BY TakenPlaces
<1>1. /\ p = Len(q) /\ m = Len(s) /\ k \in 0 .. m
      /\ \A i \in 1 .. p : i + k \in 1 .. m /\ q[i] = s[i + k]
  BY <1>0 DEF TakenTo
<1>2. OpsIn(q, {"OK", "BYTE"})
  BY TakenOps DEF Clean
<1>3. Rising(q, 0, l)
  <2>1. Rising(s, 0, l) /\ 0 \in Nat /\ 0 <= k
    BY <1>1 DEF Clean
  <2>2. QED
    BY <2>1, TakenOrder
<1>4. QED
  BY <1>1, <1>2, <1>3 DEF Clean

-----------------------------------------------------------------------------
(***************************************************************************)
(* The answers of the master.                                              *)
(***************************************************************************)
\* A sequence of one word.
LEMMA WordIs ==
  ASSUME NEW op \in {"PONG", "OK", "FULLSYNC", "APPENDSYNC", "LEN", "RDB"},
         NEW t, t = <<Msg(op)>>
  PROVE  /\ t \in Seq(ToSlave) /\ Len(t) = 1 /\ t[1].op = op
         /\ \A ops : (op \in ops => OpsIn(t, ops)) /\ (op \notin ops => NoneOf(t, ops)) /\ Once(t, ops)
         /\ \A l \in Nat : Newer(t, l, l)
<1>1. t \in Seq(ToSlave) /\ Len(t) = 1 /\ t[1].op = op
  BY MessagesAre
<1>2. 1 .. Len(t) = {1}
  BY <1>1
<1>3. ASSUME NEW ops
      PROVE  (op \in ops => OpsIn(t, ops)) /\ (op \notin ops => NoneOf(t, ops)) /\ Once(t, ops)
  BY <1>1, <1>2 DEF OpsIn, NoneOf, Once
<1>4. NoneOf(t, {"BYTE"})
  BY <1>3
<1>5. \A l \in Nat : Newer(t, l, l)
  BY <1>1, <1>4, WordsAreNewer
<1>6. QED
  BY <1>1, <1>3, <1>5

\* The length of a snapshot and its data.
LEMMA SnapshotIs ==
  ASSUME NEW t, t = <<Msg("LEN"), Msg("RDB")>>
  PROVE  /\ t \in Seq(ToSlave) /\ Len(t) = 2 /\ t[1].op = "LEN" /\ t[2].op = "RDB"
         /\ \A ops : "LEN" \in ops /\ "RDB" \in ops => OpsIn(t, ops)
         /\ \A ops : "LEN" \notin ops /\ "RDB" \notin ops => NoneOf(t, ops)
         /\ \A l \in Nat : Newer(t, l, l)
<1>1. t \in Seq(ToSlave) /\ Len(t) = 2 /\ t[1].op = "LEN" /\ t[2].op = "RDB"
  BY MessagesAre
<1>2. 1 .. Len(t) = {1, 2}
  BY <1>1
<1>3. \A ops : "LEN" \in ops /\ "RDB" \in ops => OpsIn(t, ops)
  BY <1>1, <1>2 DEF OpsIn
<1>4. \A ops : "LEN" \notin ops /\ "RDB" \notin ops => NoneOf(t, ops)
  BY <1>1, <1>2 DEF NoneOf
<1>5. NoneOf(t, {"BYTE"})
  BY <1>4
<1>6. \A l \in Nat : Newer(t, l, l)
  BY <1>1, <1>5, WordsAreNewer
<1>7. QED
  BY <1>1, <1>3, <1>4, <1>6

\* The bytes after +APPENDSYNC are those of the history from the offset on, or
\* the ring has gone round and one of them is of no command.
LEMMA MissingBytes ==
  ASSUME NEW b \in BacklogState, HoldsTail(b), NEW from \in Int, Covers(b, from),
         NEW u, u = [j \in DOMAIN Missing(b, from) |-> Byte(Missing(b, from)[j])]
  PROVE  /\ u \in Seq(ToSlave) /\ OpsIn(u, {"BYTE"})
         /\ Newer(u, 0, b.last) \/ (b.last >= Size /\ \E i \in 1 .. Len(u) : u[i] = Byte(0))
<1>1. PICK l, n : l = b.last /\ n = b.last - from
  OBVIOUS
<1>2. l \in Nat /\ from \in Nat /\ n \in Nat \ {0} /\ n = l - from /\ Size \in Nat \ {0}
  BY <1>1, SizeAssumption DEF BacklogState, Covers
<1>3. PICK f : f = Missing(b, from)
  OBVIOUS
<1>4. u \in Seq(ToSlave) /\ Len(u) = n /\ \A j \in 1 .. n : u[j] = Byte(f[j])
  BY <1>1, <1>3, MissingIs
<1>5. \A j \in 1 .. n : u[j] \in ToSlave /\ u[j].op = "BYTE" /\ u[j].n = f[j] /\ u[j].n \in Nat
  <2>1. \A j \in 1 .. n : u[j] \in ToSlave
    BY <1>4, SeqIs
  <2>2. \A k : Byte(k).op = "BYTE" /\ Byte(k).n = k
    BY DEF Byte
  <2>3. \A j \in 1 .. n : u[j].op = "BYTE" /\ u[j].n = f[j]
    BY <1>4, <2>2
  <2>4. QED
    BY <2>1, <2>3, MessagesAre
<1>6. OpsIn(u, {"BYTE"})
  BY <1>4, <1>5 DEF OpsIn
<1>7. CASE l < Size
  <2>1. f = [j \in 1 .. n |-> from + j]
    BY <1>1, <1>3, <1>7, MissingExact
  <2>2. \A j \in 1 .. n : u[j].n = from + j
    BY <1>5, <2>1
  <2>3. ASSUME NEW i \in 1 .. n
        PROVE  u[i].n <= l /\ \A j \in 1 .. n : j > i => u[i].n < u[j].n
    BY <1>2, <2>2
  <2>4. \A j \in 1 .. n : 0 < u[j].n
    BY <1>2, <2>2
  <2>5. Rising(u, 0, l)
    BY <1>4, <2>3 DEF Rising
  <2>6. QED
    BY <1>1, <1>4, <1>6, <2>4, <2>5 DEF Newer
<1>8. CASE ~(l < Size)
  <2>1. l >= Size
    BY <1>2, <1>8
  <2>2. f = [j \in 1 .. n |-> IF from + j < Size THEN b.ring[from + j] ELSE 0]
    BY <1>1, <1>3 DEF Missing
  <2>3. n \in 1 .. n /\ ~(from + n < Size)
    BY <1>2, <2>1
  <2>4. f[n] = 0
    BY <2>2, <2>3
  <2>5. u[n] = Byte(0)
    BY <1>4, <2>3, <2>4
  <2>6. QED
    BY <1>1, <1>4, <1>6, <2>1, <2>3, <2>5
<1>9. QED
  BY <1>7, <1>8

\* commandSyncProc answers +FULLSYNC.
LEMMA FullsyncAnswers ==
  ASSUME NEW q \in Seq(ToSlave), NEW s \in Seq(ToSlave), NEW t, t = <<Msg("FULLSYNC")>>, Joined(q, s, t),
         NEW l \in Nat, Answered(s, l, "up"), NoneOf(s, {"FULLSYNC", "APPENDSYNC"})
  PROVE  Answered(q, l, "up") /\ NoneOf(q, {"LEN"})
<1>1. /\ t \in Seq(ToSlave) /\ NoneOf(t, {"LEN"}) /\ NoneOf(t, {"APPENDSYNC"})
      /\ Newer(t, l, l)
  BY WordIs
<1>2. NoneOf(s, {"FULLSYNC"}) /\ NoneOf(s, {"APPENDSYNC"})
  BY DEF NoneOf
<1>3. NoneOf(s, {"LEN"})
  <2>1. ASSUME NEW j \in 1 .. Len(s), s[j].op = "LEN" PROVE FALSE
    <3>1. PICK i \in 1 .. Len(s) : s[i].op = "FULLSYNC"
      BY <2>1 DEF Answered
    <3>2. QED
      BY <1>2, <3>1 DEF NoneOf
  <2>2. QED
    BY <2>1 DEF NoneOf
<1>4. NoneOf(q, {"LEN"}) /\ NoneOf(q, {"APPENDSYNC"})
  BY <1>1, <1>2, <1>3, JoinOps
<1>5. Rising(q, 0, l)
  <2>1. Rising(s, 0, l)
    BY <1>2 DEF Answered
  <2>2. l <= l /\ 0 \in Nat
    OBVIOUS
  <2>3. QED
    BY <1>1, <2>1, <2>2, JoinNewer
<1>6. QED
  BY <1>4, <1>5 DEF Answered, NoneOf

\* commandSyncProc answers +APPENDSYNC and the bytes that are missing.
LEMMA AppendsyncAnswers ==
  ASSUME NEW q \in Seq(ToSlave), NEW w \in Seq(ToSlave), NEW s \in Seq(ToSlave), NEW u \in Seq(ToSlave),
         NEW t, t = <<Msg("APPENDSYNC")>>, Joined(w, s, t), Joined(q, w, u),
         NEW l \in Nat, Answered(s, l, "up"), NoneOf(s, {"FULLSYNC", "APPENDSYNC"}),
         OpsIn(u, {"BYTE"}),
         Newer(u, 0, l) \/ (l >= Size /\ \E i \in 1 .. Len(u) : u[i] = Byte(0))
  PROVE  Answered(q, l, "up") /\ NoneOf(q, {"LEN"})
<1>1. t \in Seq(ToSlave) /\ NoneOf(t, {"LEN"}) /\ NoneOf(t, {"FULLSYNC"}) /\ Len(t) = 1 /\ t[1].op = "APPENDSYNC"
  BY WordIs
<1>2. NoneOf(s, {"FULLSYNC"}) /\ NoneOf(s, {"APPENDSYNC"})
  BY DEF NoneOf
<1>3. NoneOf(s, {"LEN"})
  <2>1. ASSUME NEW j \in 1 .. Len(s), s[j].op = "LEN" PROVE FALSE
    <3>1. PICK i \in 1 .. Len(s) : s[i].op = "FULLSYNC"
      BY <2>1 DEF Answered
    <3>2. QED
      BY <1>2, <3>1 DEF NoneOf
  <2>2. QED
    BY <2>1 DEF NoneOf
<1>4. NoneOf(u, {"LEN"}) /\ NoneOf(u, {"FULLSYNC"}) /\ NoneOf(u, {"APPENDSYNC"})
  BY DEF OpsIn, NoneOf
<1>5. NoneOf(w, {"LEN"}) /\ NoneOf(w, {"FULLSYNC"})
  BY <1>1, <1>2, <1>3, JoinOps
<1>6. NoneOf(q, {"LEN"}) /\ NoneOf(q, {"FULLSYNC"})
  BY <1>4, <1>5, JoinOps
<1>7. PICK a, m, b \in Nat : Halves(w, s, t, a, m, b)
  BY <1>1, Places
<1>8. PICK p, d, n \in Nat : Halves(q, w, u, p, d, n)
  BY Places
<1>9. /\ a = Len(w) /\ m = Len(s) /\ a = m + 1
      /\ \A i \in 1 .. a : (i \in 1 .. m /\ w[i] = s[i]) \/ i > m
      /\ w[m + 1].op = "APPENDSYNC" /\ m + 1 \in 1 .. a
  <2>1. b = 1 /\ 1 \in 1 .. b
    BY <1>1, <1>7 DEF Halves
  <2>2. QED
    BY <1>1, <1>7, <2>1 DEF Halves
<1>10. /\ p = Len(q) /\ n = Len(u) /\ a = d
       /\ \A i \in 1 .. a : i \in 1 .. p /\ q[i] = w[i]
       /\ \A i \in 1 .. n : d + i \in 1 .. p /\ q[d + i] = u[i]
       /\ \A i \in 1 .. p : (i \in 1 .. a /\ q[i] = w[i]) \/ (i - d \in 1 .. n /\ q[i] = u[i - d] /\ i > a)
  BY <1>8, <1>9 DEF Halves
<1>11. ASSUME NEW i \in 1 .. p, i > a PROVE q[i].op = "BYTE"
  <2>1. i - d \in 1 .. n /\ q[i] = u[i - d]
    BY <1>10, <1>11
  <2>2. \A j \in 1 .. n : u[j].op = "BYTE"
    BY <1>10 DEF OpsIn
  <2>3. QED
    BY <2>1, <2>2
<1>12. q[a].op = "APPENDSYNC" /\ a \in 1 .. p /\ a \in Nat
  BY <1>9, <1>10
<1>13. ASSUME NEW j \in 1 .. p, q[j].op = "APPENDSYNC" PROVE j = a
  <2>1. ~(j > a)
    BY <1>11, <1>13
  <2>2. j \in 1 .. a /\ q[j] = w[j]
    BY <1>9, <1>10, <2>1
  <2>3. ~(j \in 1 .. m /\ w[j] = s[j])
    BY <1>2, <1>9, <1>13, <2>2 DEF NoneOf
  <2>4. j > m
    BY <1>9, <2>2, <2>3
  <2>5. QED
    BY <1>9, <2>2, <2>4
<1>14. Rising(q, a, l) \/ (l >= Size /\ Blocked(q, a, "up"))
  <2>1. CASE Newer(u, 0, l)
    <3>1. Rising(w, a, 0)
      BY <1>9 DEF Rising
    <3>2. 0 \in Nat /\ 0 <= l
      OBVIOUS
    <3>3. QED
      BY <1>12, <2>1, <3>1, <3>2, JoinNewer
  <2>2. CASE l >= Size /\ \E i \in 1 .. Len(u) : u[i] = Byte(0)
    <3>1. PICK i \in 1 .. n : u[i] = Byte(0)
      BY <1>10, <2>2
    <3>2. d + i \in 1 .. p /\ q[d + i] = Byte(0) /\ d + i > a
      BY <1>10, <3>1
    <3>3. Blocked(q, a, "up")
      BY <1>10, <1>11, <3>2 DEF Blocked
    <3>4. QED
      BY <2>2, <3>3
  <2>3. QED
    BY <2>1, <2>2
<1>15. ~NoneOf(q, {"APPENDSYNC"})
  BY <1>10, <1>12 DEF NoneOf
<1>16. \A j \in 1 .. p : q[j].op # "LEN"
  BY <1>6, <1>10 DEF NoneOf
<1>17. QED
  BY <1>6, <1>10, <1>11, <1>13, <1>14, <1>15, <1>16 DEF Answered

\* The snapshot is sent behind +FULLSYNC.
LEMMA SnapshotAnswers ==
  ASSUME NEW q \in Seq(ToSlave), NEW s \in Seq(ToSlave), NEW t, t = <<Msg("LEN"), Msg("RDB")>>, Joined(q, s, t),
         NEW l \in Nat, Answered(s, l, "up"), Framed(s, "up"),
         ~NoneOf(s, {"FULLSYNC"}), Once(s, {"FULLSYNC", "APPENDSYNC"}), NoneOf(s, {"LEN"})
  PROVE  Answered(q, l, "up") /\ Framed(q, "up")
<1>1. /\ t \in Seq(ToSlave) /\ Len(t) = 2 /\ t[1].op = "LEN" /\ t[2].op = "RDB"
      /\ NoneOf(t, {"APPENDSYNC"}) /\ Newer(t, l, l)
  BY SnapshotIs
<1>2. PICK f \in 1 .. Len(s) : s[f].op = "FULLSYNC"
  BY DEF NoneOf
<1>3. NoneOf(s, {"APPENDSYNC"})
  BY <1>2 DEF Once, NoneOf
<1>4. NoneOf(q, {"APPENDSYNC"})
  BY <1>1, <1>3, JoinOps
<1>5. Rising(q, 0, l)
  <2>1. Rising(s, 0, l) /\ l <= l /\ 0 \in Nat
    BY DEF Answered
  <2>2. QED
    BY <1>1, <2>1, JoinNewer
<1>6. PICK p, m, n \in Nat : Halves(q, s, t, p, m, n)
  BY <1>1, Places
<1>7. /\ p = Len(q) /\ m = Len(s) /\ n = 2 /\ p = m + 2
      /\ \A i \in 1 .. m : i \in 1 .. p /\ q[i] = s[i]
      /\ \A i \in 1 .. n : m + i \in 1 .. p /\ q[m + i] = t[i]
      /\ \A i \in 1 .. p : (i \in 1 .. m /\ q[i] = s[i]) \/ (i - m \in 1 .. n /\ q[i] = t[i - m] /\ i > m)
  BY <1>1, <1>6 DEF Halves
<1>8. q[m + 1].op = "LEN" /\ q[m + 2].op = "RDB" /\ (m + 1) + 1 = m + 2 /\ m + 1 \in 1 .. p /\ m + 1 # p
  <2>1. 1 \in 1 .. n /\ 2 \in 1 .. n
    BY <1>7
  <2>2. QED
    BY <1>1, <1>7, <2>1
<1>9. \A i \in 1 .. m : s[i].op \notin {"LEN", "RDB"}
  <2>1. \A i \in 1 .. m : s[i].op # "LEN"
    BY <1>7 DEF NoneOf
  <2>2. ASSUME NEW i \in 1 .. m, s[i].op = "RDB" PROVE FALSE
    <3>1. i # 1 /\ s[i - 1].op = "LEN"
      BY <1>7, <2>2 DEF Framed
    <3>2. i - 1 \in 1 .. m
      BY <3>1
    <3>3. QED
      BY <2>1, <3>1, <3>2
  <2>3. QED
    BY <2>1, <2>2
<1>10. \A i \in 1 .. p : (q[i].op = "LEN" => i = m + 1) /\ (q[i].op = "RDB" => i = m + 2)
  <2>1. ASSUME NEW i \in 1 .. p, q[i].op \in {"LEN", "RDB"}
        PROVE  i = m + 1 \/ i = m + 2
    <3>1. i - m \in 1 .. n
      BY <1>7, <1>9, <2>1
    <3>2. QED
      BY <1>7, <3>1
  <2>2. QED
    BY <1>8, <2>1
<1>11. Framed(q, "up")
  <2>1. Once(q, {"LEN"})
    BY <1>7, <1>10 DEF Once
  <2>2. ASSUME NEW j \in 1 .. p, q[j].op = "RDB" PROVE j # 1 /\ q[j - 1].op = "LEN"
    <3>1. j = m + 2 /\ j - 1 = m + 1
      BY <1>10, <2>2
    <3>2. QED
      BY <1>8, <3>1
  <2>3. \A j \in 1 .. p : q[j].op = "LEN" => j # p /\ q[j + 1].op = "RDB"
    BY <1>8, <1>10
  <2>4. QED
    BY <1>7, <2>1, <2>2, <2>3 DEF Framed
<1>12. ASSUME NEW j \in 1 .. p, q[j].op = "LEN" PROVE \E i \in 1 .. p : i < j /\ q[i].op = "FULLSYNC"
  <2>1. f \in 1 .. p /\ q[f].op = "FULLSYNC" /\ f < m + 1
    BY <1>2, <1>7
  <2>2. QED
    BY <1>10, <1>12, <2>1
<1>13. Answered(q, l, "up")
  <2>1. \A j \in 1 .. p : q[j].op # "APPENDSYNC"
    BY <1>4, <1>7 DEF NoneOf
  <2>2. QED
    BY <1>5, <1>7, <1>12, <2>1 DEF Answered
<1>14. QED
  BY <1>11, <1>13

-----------------------------------------------------------------------------
(***************************************************************************)
(* The pipe: what the slave has in its buffer (a), what is on its way (b)  *)
(* and what the master has in its buffer (c).                              *)
(***************************************************************************)
PipeOf(a, b, c) == a \o b \o c

\* The pipe by its parts: read, on the way, and in the buffer of the master.
LEMMA PipeParts ==
  ASSUME NEW a \in Seq(ToSlave), NEW b \in Seq(ToSlave), NEW c \in Seq(ToSlave)
  PROVE  /\ PipeOf(a, b, c) \in Seq(ToSlave) /\ a \o b \in Seq(ToSlave) /\ b \o c \in Seq(ToSlave)
         /\ PipeOf(a, b, c) = a \o (b \o c)
         /\ Joined(PipeOf(a, b, c), a, b \o c) /\ Joined(PipeOf(a, b, c), a \o b, c)
         /\ Joined(b \o c, b, c) /\ Joined(a \o b, a, b)
<1>1. a \o b \in Seq(ToSlave) /\ Joined(a \o b, a, b)
  BY JoinedIs
<1>2. b \o c \in Seq(ToSlave) /\ Joined(b \o c, b, c)
  BY JoinedIs
<1>3. (a \o b) \o c = a \o (b \o c)
  BY ConcatAssociative
<1>4. (a \o b) \o c \in Seq(ToSlave) /\ Joined((a \o b) \o c, a \o b, c)
  BY <1>1, JoinedIs
<1>5. a \o (b \o c) \in Seq(ToSlave) /\ Joined(a \o (b \o c), a, b \o c)
  BY <1>2, JoinedIs
<1>6. QED
  BY <1>1, <1>2, <1>3, <1>4, <1>5 DEF PipeOf

\* The head of the buffer is the head of the pipe.
LEMMA PipeHead ==
  ASSUME NEW a \in Seq(ToSlave), NEW b \in Seq(ToSlave), NEW c \in Seq(ToSlave)
  PROVE  Begins(a, PipeOf(a, b, c))
<1>1. PICK s, d : s = PipeOf(a, b, c) /\ d = b \o c
  OBVIOUS
<1>2. s \in Seq(ToSlave) /\ d \in Seq(ToSlave) /\ Joined(s, a, d)
  BY <1>1, PipeParts
<1>3. PICK p, m, n \in Nat : Halves(s, a, d, p, m, n)
  BY <1>2, Places
<1>4. m = Len(a) /\ p = Len(s) /\ m <= p /\ \A i \in 1 .. m : s[i] = a[i]
  BY <1>3 DEF Halves
<1>5. QED
  BY <1>1, <1>4 DEF Begins

\* The master appends to its buffer.
LEMMA PipeAppends ==
  ASSUME NEW a \in Seq(ToSlave), NEW b \in Seq(ToSlave), NEW c \in Seq(ToSlave), NEW t \in Seq(ToSlave)
  PROVE  /\ PipeOf(a, b, c \o t) \in Seq(ToSlave)
         /\ Joined(PipeOf(a, b, c \o t), PipeOf(a, b, c), t)
<1>1. PICK u, s : u = a \o b /\ s = (a \o b) \o c
  OBVIOUS
<1>2. u \in Seq(ToSlave) /\ s \in Seq(ToSlave) /\ s = PipeOf(a, b, c)
  BY <1>1, PipeParts DEF PipeOf
<1>3. u \o (c \o t) = s \o t
  <2>1. (u \o c) \o t = u \o (c \o t)
    BY <1>2, ConcatAssociative
  <2>2. s = u \o c
    BY <1>1
  <2>3. QED
    BY <2>1, <2>2
<1>4. s \o t \in Seq(ToSlave) /\ Joined(s \o t, s, t)
  BY <1>2, JoinedIs
<1>5. PipeOf(a, b, c \o t) = s \o t
  BY <1>1, <1>3 DEF PipeOf
<1>6. QED
  BY <1>2, <1>4, <1>5

\* The master sends its buffer, with something behind it or nothing.
LEMMA PipeSends ==
  ASSUME NEW a \in Seq(ToSlave), NEW b \in Seq(ToSlave), NEW c \in Seq(ToSlave), NEW t \in Seq(ToSlave)
  PROVE  /\ Joined(PipeOf(a, b \o c \o t, <<>>), PipeOf(a, b, c), t)
         /\ PipeOf(a, b \o c \o <<>>, <<>>) = PipeOf(a, b, c)
<1>1. PICK d, s : d = b \o c /\ s = PipeOf(a, b, c)
  OBVIOUS
<1>2. d \in Seq(ToSlave) /\ s = a \o d /\ s \in Seq(ToSlave)
  <2>1. PipeOf(a, b, c) = a \o (b \o c)
    BY ConcatAssociative DEF PipeOf
  <2>2. d \in Seq(ToSlave)
    BY <1>1, ConcatProperties
  <2>3. QED
    BY <1>1, <2>1, <2>2, ConcatProperties
<1>3. ASSUME NEW r \in Seq(ToSlave)
      PROVE  PipeOf(a, d \o r, <<>>) = s \o r
  <2>1. d \o r \in Seq(ToSlave) /\ <<>> \in Seq(ToSlave)
    BY <1>2, ConcatProperties, EmptyTypes
  <2>2. a \o (d \o r) \in Seq(ToSlave)
    BY <2>1, ConcatProperties
  <2>3. a \o (d \o r) = s \o r
    BY <1>2, ConcatAssociative
  <2>4. (a \o (d \o r)) \o <<>> = a \o (d \o r)
    BY <2>2, ConcatEmptySeq
  <2>5. QED
    BY <2>3, <2>4 DEF PipeOf
<1>4. Joined(s \o t, s, t)
  BY <1>2, JoinedIs
<1>5. s \o <<>> = s
  BY <1>2, ConcatEmptySeq
<1>6. <<>> \in Seq(ToSlave)
  BY EmptyTypes
<1>7. PipeOf(a, d \o t, <<>>) = s \o t /\ PipeOf(a, d \o <<>>, <<>>) = s \o <<>>
  BY <1>3, <1>6
<1>8. QED
  BY <1>1, <1>4, <1>5, <1>7

\* The connection ends and some of what was sent still arrives.
LEMMA PipeCut ==
  ASSUME NEW a \in Seq(ToSlave), NEW b \in Seq(ToSlave), NEW c \in Seq(ToSlave), NEW k \in 0 .. Len(b)
  PROVE  /\ PipeOf(a, SubSeq(b, 1, k), <<>>) \in Seq(ToSlave)
         /\ Begins(PipeOf(a, SubSeq(b, 1, k), <<>>), PipeOf(a, b, c))
<1>1. PICK e, s, d : e = SubSeq(b, 1, k) /\ s = PipeOf(a, b, c) /\ d = b \o c
  OBVIOUS
<1>2. e \in Seq(ToSlave) /\ Begins(e, b) /\ Len(e) = k
  BY <1>1, BeginningIs
<1>3. PICK q : q = a \o e
  OBVIOUS
<1>4. q \in Seq(ToSlave) /\ Joined(q, a, e)
  BY <1>2, <1>3, JoinedIs
<1>5. PipeOf(a, e, <<>>) = q
  BY <1>3, <1>4, ConcatEmptySeq DEF PipeOf
<1>6. s \in Seq(ToSlave) /\ d \in Seq(ToSlave) /\ Joined(s, a, d) /\ Joined(d, b, c)
  BY <1>1, PipeParts
<1>7. PICK p, m, n \in Nat : Halves(q, a, e, p, m, n)
  BY <1>2, <1>4, Places
<1>8. PICK p2, m2, n2 \in Nat : Halves(s, a, d, p2, m2, n2)
  BY <1>6, Places
<1>9. PICK p3, m3, n3 \in Nat : Halves(d, b, c, p3, m3, n3)
  BY <1>6, Places
<1>10. /\ p = Len(q) /\ n = k /\ m = Len(a) /\ p = m + n
       /\ \A i \in 1 .. p : (i \in 1 .. m /\ q[i] = a[i]) \/ (i - m \in 1 .. n /\ q[i] = e[i - m] /\ i > m)
       /\ \A i \in 1 .. n : e[i] = b[i]
  BY <1>2, <1>7 DEF Halves, Begins
<1>11. /\ p2 = Len(s) /\ m2 = m /\ p2 = m + n2
       /\ \A i \in 1 .. m : s[i] = a[i]
       /\ \A i \in 1 .. n2 : s[m + i] = d[i]
  BY <1>8, <1>10 DEF Halves
<1>12. /\ n2 = p3 /\ m3 = Len(b) /\ p3 = m3 + n3 /\ \A i \in 1 .. m3 : d[i] = b[i]
  BY <1>8, <1>9 DEF Halves
<1>13. k <= m3
  BY <1>12
<1>14. \A i \in 1 .. n : i \in 1 .. m3 /\ i \in 1 .. n2
  BY <1>10, <1>12, <1>13
<1>15. \A i \in 1 .. n : s[m + i] = b[i]
  BY <1>11, <1>12, <1>14
<1>16. ASSUME NEW i \in 1 .. p PROVE q[i] = s[i]
  <2>1. CASE i \in 1 .. m /\ q[i] = a[i]
    BY <1>11, <2>1
  <2>2. CASE i - m \in 1 .. n /\ q[i] = e[i - m] /\ i > m
    <3>1. q[i] = b[i - m] /\ m + (i - m) = i
      BY <1>10, <2>2
    <3>2. s[m + (i - m)] = b[i - m]
      BY <1>15, <2>2
    <3>3. QED
      BY <3>1, <3>2
  <2>3. QED
    BY <1>10, <2>1, <2>2
<1>17. p <= p2
  BY <1>10, <1>11, <1>12, <1>13
<1>18. Begins(q, s)
  BY <1>10, <1>11, <1>16, <1>17 DEF Begins
<1>19. QED
  BY <1>1, <1>4, <1>5, <1>18

\* What is taken from the front of the first part is taken from the whole.
LEMMA DropsJoined ==
  ASSUME NEW a \in Seq(ToSlave), NEW d \in Seq(ToSlave), NEW k \in 0 .. Len(a)
  PROVE  /\ Rest(a, k) \o d \in Seq(ToSlave) /\ a \o d \in Seq(ToSlave)
         /\ Drops(Rest(a, k) \o d, a \o d, k)
<1>1. PICK e, q, s : e = Rest(a, k) /\ q = Rest(a, k) \o d /\ s = a \o d
  OBVIOUS
<1>2. e \in Seq(ToSlave) /\ Drops(e, a, k)
  BY <1>1, RestIs
<1>3. q \in Seq(ToSlave) /\ Joined(q, e, d) /\ s \in Seq(ToSlave) /\ Joined(s, a, d)
  BY <1>1, <1>2, JoinedIs
<1>4. PICK p, m, n \in Nat : Halves(q, e, d, p, m, n)
  BY <1>2, <1>3, Places
<1>5. PICK p2, m2, n2 \in Nat : Halves(s, a, d, p2, m2, n2)
  BY <1>3, Places
<1>6. /\ p = Len(q) /\ p = m + n /\ n = Len(d)
      /\ \A i \in 1 .. p : (i \in 1 .. m /\ q[i] = e[i]) \/ (i - m \in 1 .. n /\ q[i] = d[i - m] /\ i > m)
  BY <1>4 DEF Halves
<1>7. /\ p2 = Len(s) /\ p2 = m2 + n
      /\ \A i \in 1 .. m2 : s[i] = a[i]
      /\ \A i \in 1 .. n : s[m2 + i] = d[i]
  BY <1>5, <1>6 DEF Halves
<1>8. m = m2 - k /\ k \in 0 .. m2 /\ \A i \in 1 .. m : e[i] = a[i + k]
  BY <1>2, <1>4, <1>5 DEF Halves, Drops
<1>9. ASSUME NEW i \in 1 .. p PROVE q[i] = s[i + k]
  <2>1. CASE i \in 1 .. m /\ q[i] = e[i]
    <3>1. i + k \in 1 .. m2
      BY <1>8, <2>1
    <3>2. QED
      BY <1>7, <1>8, <2>1, <3>1
  <2>2. CASE i - m \in 1 .. n /\ q[i] = d[i - m] /\ i > m
    <3>1. m2 + (i - m) = i + k
      BY <1>8
    <3>2. s[m2 + (i - m)] = d[i - m]
      BY <1>7, <2>2
    <3>3. QED
      BY <2>2, <3>1, <3>2
  <2>3. QED
    BY <1>6, <2>1, <2>2
<1>10. p = p2 - k /\ k \in 0 .. p2
  BY <1>6, <1>7, <1>8
<1>11. QED
  BY <1>1, <1>3, <1>6, <1>7, <1>9, <1>10 DEF Drops

\* A turn of the read loop takes from the buffer.
LEMMA PipeTurn ==
  ASSUME NEW a \in Seq(ToSlave), NEW b \in Seq(ToSlave), NEW c \in Seq(ToSlave), NEW k \in 0 .. Len(a)
  PROVE  /\ PipeOf(Rest(a, k), b, c) \in Seq(ToSlave)
         /\ Drops(PipeOf(Rest(a, k), b, c), PipeOf(a, b, c), k)
<1>1. PICK d : d = b \o c
  OBVIOUS
<1>2. d \in Seq(ToSlave) /\ PipeOf(a, b, c) = a \o d
  BY <1>1, PipeParts
<1>3. Rest(a, k) \in Seq(ToSlave)
  BY RestIs
<1>4. PipeOf(Rest(a, k), b, c) = Rest(a, k) \o d
  BY <1>1, <1>3, PipeParts
<1>5. QED
  BY <1>2, <1>4, DropsJoined

\* A read moves a piece from the connection to the buffer.
LEMMA PipeReads ==
  ASSUME NEW a \in Seq(ToSlave), NEW b \in Seq(ToSlave), NEW c \in Seq(ToSlave), NEW k \in 0 .. Len(b)
  PROVE  PipeOf(a \o SubSeq(b, 1, k), Rest(b, k), c) = PipeOf(a, b, c)
<1>1. PICK e, f : e = SubSeq(b, 1, k) /\ f = Rest(b, k)
  OBVIOUS
<1>2. e \in Seq(ToSlave) /\ f \in Seq(ToSlave)
  BY <1>1, BeginningIs, RestIs
<1>3. e \o f = b
  <2>1. PICK m : m = Len(b)
    OBVIOUS
  <2>2. m \in Nat /\ 1 \in 1 .. m + 1 /\ k \in 1 - 1 .. m /\ m \in k .. m
    BY <2>1, SeqIs
  <2>3. SubSeq(b, 1, k) \o SubSeq(b, k + 1, m) = SubSeq(b, 1, m)
    BY <2>1, <2>2, ConcatAdjacentSubSeq
  <2>4. SubSeq(b, 1, m) = b
    BY <2>1, SubSeqFull
  <2>5. QED
    BY <1>1, <2>1, <2>3, <2>4 DEF Rest
<1>4. (a \o e) \o f = a \o (e \o f)
  BY <1>2, ConcatAssociative
<1>5. QED
  BY <1>1, <1>3, <1>4 DEF PipeOf

\* readFromClient takes the buffer and the piece it reads.
LEMMA PipeTaken ==
  ASSUME NEW a \in Seq(ToSlave), NEW b \in Seq(ToSlave), NEW c \in Seq(ToSlave), NEW k \in 0 .. Len(b),
         NEW s, s = PipeOf(a, b, c), NEW q, q = PipeOf(<<>>, Rest(b, k), c),
         NEW buf, buf = a \o SubSeq(b, 1, k)
  PROVE  q \in Seq(ToSlave) /\ Drops(q, s, Len(buf)) /\ Begins(buf, s)
<1>1. PICK e, f, g : e = SubSeq(b, 1, k) /\ f = Rest(b, k) /\ g = buf
  OBVIOUS
<1>2. e \in Seq(ToSlave) /\ f \in Seq(ToSlave) /\ Len(e) = k
  BY <1>1, BeginningIs, RestIs
<1>3. g \in Seq(ToSlave) /\ Len(g) = Len(a) + k
  BY <1>1, <1>2, ConcatProperties
<1>4. PipeOf(g, f, c) = PipeOf(a, b, c)
  BY <1>1, PipeReads
<1>5. Len(g) \in Nat
  BY <1>3, SeqIs
<1>6. Len(g) \in 0 .. Len(g)
  BY <1>5
<1>7. Rest(g, Len(g)) = <<>>
  <2>1. Drops(Rest(g, Len(g)), g, Len(g)) /\ Rest(g, Len(g)) \in Seq(ToSlave)
    BY <1>3, <1>6, RestIs
  <2>2. Len(Rest(g, Len(g))) = 0
    BY <1>5, <2>1 DEF Drops
  <2>3. QED
    BY <2>1, <2>2, EmptySeq
<1>8. /\ PipeOf(<<>>, f, c) \in Seq(ToSlave)
      /\ Drops(PipeOf(<<>>, f, c), PipeOf(g, f, c), Len(g))
  BY <1>2, <1>3, <1>6, <1>7, PipeTurn
<1>9. Begins(g, PipeOf(g, f, c))
  BY <1>2, <1>3, PipeHead
<1>10. QED
  BY <1>1, <1>4, <1>8, <1>9

\* The pipe of a state.
LEMMA PipeIs ==
  ASSUME TypeOK
  PROVE  /\ Pipe = PipeOf(readBuf, toSlave, peer.writeBuf)
         /\ Pipe \in Seq(ToSlave)
         /\ readBuf \in Seq(ToSlave) /\ toSlave \in Seq(ToSlave) /\ peer.writeBuf \in Seq(ToSlave)
<1>1. readBuf \in Seq(ToSlave) /\ toSlave \in Seq(ToSlave) /\ peer.writeBuf \in Seq(ToSlave)
  BY DEF TypeOK, Peer
<1>2. Pipe = PipeOf(readBuf, toSlave, peer.writeBuf)
  BY DEF Pipe, PipeOf
<1>3. QED
  BY <1>1, <1>2, PipeParts

-----------------------------------------------------------------------------
(***************************************************************************)
(* The steps of the master.                                                *)
(***************************************************************************)
\* Nothing is in an empty sequence.
LEMMA EmptyIs ==
  /\ Len(<<>>) = 0 /\ PipeOf(<<>>, <<>>, <<>>) = <<>>
  /\ \A ops : OpsIn(<<>>, ops) /\ NoneOf(<<>>, ops) /\ Once(<<>>, ops)
  /\ \A l, r : Newer(<<>>, l, r)
<1>1. Len(<<>>) = 0
  BY EmptySeq
<1>2. 1 .. Len(<<>>) = {}
  BY <1>1
<1>3. \A ops : OpsIn(<<>>, ops) /\ NoneOf(<<>>, ops) /\ Once(<<>>, ops)
  BY <1>2 DEF OpsIn, NoneOf, Once
<1>4. \A l, r : Newer(<<>>, l, r)
  BY <1>2 DEF Newer, Rising
<1>5. PipeOf(<<>>, <<>>, <<>>) = <<>>
  BY EmptyTypes, ConcatEmptySeq DEF PipeOf
<1>6. QED
  BY <1>1, <1>3, <1>4, <1>5

\* A propagated command is appended to the pipe, or the pipe stays as it was.
LEMMA WriteAppends ==
  ASSUME TypeOK, Ended, NEW c \in Nat, backlog.last = 2 * c, MasterWrite
  PROVE  /\ backlog'.last = 2 * c + 2
         /\ peer'.sync = peer.sync /\ peer'.slave = peer.slave /\ (link # "up" => peer' = peer)
         /\ NoneOf(peer.writeBuf, {"FULLSYNC"}) <=> NoneOf(peer'.writeBuf, {"FULLSYNC"})
         /\ \E t \in Seq(ToSlave) :
              /\ Joined(Pipe', Pipe, t) /\ Newer(t, 2 * c, 2 * c + 2) /\ OpsIn(t, {"BYTE"})
              /\ Pipe' \in Seq(ToSlave)
              /\ (peer.slave /\ link = "up") \/ Pipe' = Pipe
<1>1. backlog'.last = 2 * c + 2
  BY DEF MasterWrite, addRepliBuf, CmdLen
<1>2. PICK t : t = Command(c + 1)
  OBVIOUS
<1>3. t \in Seq(ToSlave) /\ Newer(t, 2 * c, 2 * c + 2) /\ OpsIn(t, {"BYTE"})
  <2>1. PICK d \in Nat \ {0} : d = c + 1
    OBVIOUS
  <2>2. QED
    BY <1>2, <2>1, CommandIs, CommandIsNewer
<1>4. peer' = IF peer.slave THEN [peer EXCEPT !.writeBuf = @ \o t] ELSE peer
  <2>1. backlog.last \div CmdLen + 1 = c + 1
    BY DEF CmdLen
  <2>2. QED
    BY <1>2, <2>1 DEF MasterWrite, commandPropagate
<1>5. readBuf' = readBuf /\ toSlave' = toSlave /\ link' = link
  BY DEF MasterWrite, netVars, slaveConn
<1>6. Pipe' = PipeOf(readBuf, toSlave, peer'.writeBuf)
  BY <1>5 DEF Pipe, PipeOf
<1>7. CASE peer.slave
  <2>1. link = "up"
    BY <1>7 DEF Ended, NewPeer
  <2>2. peer'.writeBuf = peer.writeBuf \o t /\ peer'.sync = peer.sync /\ peer'.slave = peer.slave
    BY <1>3, <1>4, <1>7, PeerAppends DEF TypeOK
  <2>3. Pipe' \in Seq(ToSlave) /\ Joined(Pipe', Pipe, t)
    BY <1>3, <1>6, <2>2, PipeAppends, PipeIs
  <2>4. Joined(peer'.writeBuf, peer.writeBuf, t) /\ peer'.writeBuf \in Seq(ToSlave)
    BY <1>3, <2>2, PipeIs, JoinedIs
  <2>5. NoneOf(t, {"FULLSYNC"})
    BY <1>3 DEF OpsIn, NoneOf
  <2>6. NoneOf(peer.writeBuf, {"FULLSYNC"}) <=> NoneOf(peer'.writeBuf, {"FULLSYNC"})
    BY <1>3, <2>4, <2>5, PipeIs, JoinOps
  <2>7. QED
    BY <1>1, <1>3, <1>7, <2>1, <2>2, <2>3, <2>6
<1>8. CASE ~peer.slave
  <2>1. peer' = peer /\ Pipe' = Pipe
    BY <1>4, <1>6, <1>8, PipeIs
  <2>2. Joined(Pipe, Pipe, <<>>)
    BY PipeIs, SeqIs, EmptyIs DEF Joined
  <2>3. QED
    BY <1>1, <2>1, <2>2, EmptyTypes, EmptyIs, PipeIs
<1>9. QED
  BY <1>7, <1>8

\* A write command of the master appends to the pipe of its slave, or does not.
LEMMA MasterWriteConn ==
  ASSUME TypeOK, ConnInv, MasterWrite
  PROVE  ConnInv'
<1>1. PICK c \in Nat : backlog.last = 2 * c
  BY DEF ConnInv
<1>2. Ended
  BY DEF ConnInv
<1>3. PICK l, r, s, q : l = 2 * c /\ r = 2 * c + 2 /\ s = Pipe /\ q = Pipe'
  OBVIOUS
<1>4. /\ backlog'.last = r /\ backlog.last = l
      /\ peer'.sync = peer.sync /\ peer'.slave = peer.slave /\ (link # "up" => peer' = peer)
      /\ NoneOf(peer.writeBuf, {"FULLSYNC"}) <=> NoneOf(peer'.writeBuf, {"FULLSYNC"})
  BY <1>1, <1>2, <1>3, WriteAppends
<1>5. PICK t \in Seq(ToSlave) :
        /\ Joined(q, s, t) /\ Newer(t, l, r) /\ OpsIn(t, {"BYTE"})
        /\ q \in Seq(ToSlave)
        /\ (peer.slave /\ link = "up") \/ q = s
  BY <1>1, <1>2, <1>3, WriteAppends
<1>6. s \in Seq(ToSlave) /\ l \in Nat /\ r \in Nat /\ l <= r /\ executed \in Seq(Nat) /\ r = 2 * (c + 1)
  BY <1>3, PipeIs DEF TypeOK
<1>7. UNCHANGED <<netVars, status, reading, replState, slaveConn, slaveData>>
  BY DEF MasterWrite
<1>8. /\ UNCHANGED <<toSlave, toMaster, link, status, reading, replState>>
      /\ UNCHANGED <<readBuf, writeBuf, reader, writer, watch, executed>>
  BY <1>7 DEF netVars, slaveConn, slaveData
<1>9. /\ \A ops : "BYTE" \in ops /\ OpsIn(s, ops) => OpsIn(q, ops)
      /\ \A ops : "BYTE" \notin ops => (NoneOf(q, ops) <=> NoneOf(s, ops)) /\ (Once(s, ops) => Once(q, ops))
  <2>1. \A ops : "BYTE" \in ops => OpsIn(t, ops)
    BY <1>5 DEF OpsIn
  <2>2. \A ops : "BYTE" \notin ops => NoneOf(t, ops)
    BY <1>5 DEF OpsIn, NoneOf
  <2>3. QED
    BY <1>5, <1>6, <2>1, <2>2, JoinOps
<1>10. Rising(s, 0, l) => Rising(q, 0, r)
  BY <1>5, <1>6, JoinNewer
<1>11. Blocked(s, 0, link) => Blocked(q, 0, link)
  BY <1>5, <1>6, JoinBlocked
<1>12. Framed(s, link) => Framed(q, link)
  <2>1. NoneOf(t, {"LEN", "RDB"})
    BY <1>5 DEF OpsIn, NoneOf
  <2>2. QED
    BY <1>5, <1>6, <2>1, JoinFramed
<1>13. Answered(s, l, link) => Answered(q, r, link)
  BY <1>5, <1>6, JoinAnswered
<1>14. Clean(s, executed, l) => Clean(q, executed, r)
  <2>1. OpsIn(t, {"OK", "BYTE"})
    BY <1>5 DEF OpsIn
  <2>2. QED
    BY <1>5, <1>6, <2>1, JoinClean
<1>15. l >= Size => r >= Size
  BY <1>6, SizeAssumption
<1>16. \A op, replies : "BYTE" \notin replies /\ Awaits(op, replies, s, toMaster, watch, link)
                          => Awaits(op, replies, q, toMaster, watch, link)
  BY <1>9 DEF Awaits
<1>17. ASSUME link # "none" PROVE Phase'
  <2>1. CASE replState = "CONNECTING" /\ Connecting
    <3>1. q = s
      BY <1>5, <2>1 DEF Connecting
    <3>2. Connecting'
      BY <1>3, <1>4, <1>8, <2>1, <3>1 DEF Connecting, Fresh
    <3>3. QED
      BY <1>8, <1>17, <2>1, <3>2 DEF Phase
  <2>2. CASE replState = "SEND_REPLCONF" /\ SendReplconf
    <3>1. SendReplconf'
      BY <1>3, <1>4, <1>8, <1>9, <1>10, <1>16, <2>2 DEF SendReplconf, Fresh
    <3>2. QED
      BY <1>8, <1>17, <2>2, <3>1 DEF Phase
  <2>3. CASE replState = "SEND_SYNC" /\ SendSync
    <3>1. SendSync'
      BY <1>3, <1>4, <1>8, <1>9, <1>12, <1>13, <1>16, <2>3 DEF SendSync, Fresh
    <3>2. QED
      BY <1>8, <1>17, <2>3, <3>1 DEF Phase
  <2>4. CASE replState = "RECEIVE_RDB" /\ ReceivingRdb
    <3>1. ReceivingRdb'
      BY <1>3, <1>4, <1>8, <1>9, <1>10, <1>12, <2>4 DEF ReceivingRdb, Fresh
    <3>2. QED
      BY <1>8, <1>17, <2>4, <3>1 DEF Phase
  <2>5. CASE replState = "RECEIVE_APPENDSYNC" /\ ReceivingAppendsync
    <3>1. ReceivingAppendsync'
      BY <1>3, <1>4, <1>8, <1>9, <1>10, <1>11, <1>15, <2>5 DEF ReceivingAppendsync, Fresh
    <3>2. QED
      BY <1>8, <1>17, <2>5, <3>1 DEF Phase
  <2>6. CASE replState = "CONNECTED" /\ InSync
    <3>1. InSync'
      BY <1>3, <1>4, <1>8, <1>11, <1>14, <1>15, <2>6 DEF InSync
    <3>2. QED
      BY <1>8, <1>17, <2>6, <3>1 DEF Phase
  <2>7. QED
    BY <1>17, <2>1, <2>2, <2>3, <2>4, <2>5, <2>6 DEF ConnInv, Phase
<1>18. ASSUME link = "none" PROVE Phase'
  BY <1>8, <1>18 DEF ConnInv, Phase, NoConnection
<1>19. Phase'
  BY <1>17, <1>18
<1>20. Ended' /\ OpsIn(writeBuf', {"OK"}) /\ SpinsOnWriteOnly'
  <2>1. Ended'
    BY <1>2, <1>4, <1>8 DEF Ended
  <2>2. OpsIn(writeBuf', {"OK"})
    BY <1>8 DEF ConnInv
  <2>3. SpinsOnWriteOnly'
    BY <1>8 DEF ConnInv, SpinsOnWriteOnly, HeadIs
  <2>4. QED
    BY <2>1, <2>2, <2>3
<1>21. c + 1 \in Nat /\ backlog'.last = 2 * (c + 1)
  BY <1>4, <1>6
<1>22. QED
  BY <1>19, <1>20, <1>21 DEF ConnInv

\* A step that leaves the slave and the backlog alone keeps the invariant when it
\* keeps what belongs to the state of the handshake.
LEMMA SlaveAlone ==
  ASSUME ConnInv, link = "up",
         UNCHANGED <<backlog, link, status, reading, replState, slaveConn, slaveData>>,
         \/ replState = "CONNECTING" /\ Connecting'
         \/ replState = "SEND_REPLCONF" /\ SendReplconf'
         \/ replState = "SEND_SYNC" /\ SendSync'
         \/ replState = "RECEIVE_RDB" /\ ReceivingRdb'
         \/ replState = "RECEIVE_APPENDSYNC" /\ ReceivingAppendsync'
         \/ replState = "CONNECTED" /\ InSync'
  PROVE  ConnInv'
<1>1. link' = "up" /\ replState' = replState
  OBVIOUS
<1>2. UNCHANGED <<backlog, status, readBuf, writeBuf>>
  BY DEF slaveConn
<1>3. Phase'
  BY <1>1 DEF Phase
<1>4. Ended'
  BY <1>1 DEF Ended
<1>5. SpinsOnWriteOnly' /\ OpsIn(writeBuf', {"OK"}) /\ \E c \in Nat : backlog'.last = 2 * c
  BY <1>2 DEF ConnInv, SpinsOnWriteOnly, HeadIs
<1>6. QED
  BY <1>3, <1>4, <1>5 DEF ConnInv

\* The message that the master reads is the one that the state sends.
LEMMA ReadsOps ==
  ASSUME TypeOK, NEW op, MasterReads(op)
  PROVE  /\ link = "up" /\ peer.writeBuf = <<>> /\ toMaster # <<>>
         /\ UNCHANGED <<backlog, link, status, reading, replState, slaveConn, slaveData>>
         /\ \A ops : OpsIn(toMaster, ops) => op \in ops /\ OpsIn(toMaster', ops)
         /\ Len(toMaster) <= 1 => toMaster' = <<>>
<1>1. PICK t, m : t = toMaster /\ m = Len(toMaster)
  OBVIOUS
<1>2. t \in Seq(ToMaster) /\ t # <<>> /\ t[1].op = op
  BY <1>1, TailRests DEF TypeOK, MasterReads, HeadIs
<1>3. m \in Nat /\ m > 0 /\ 1 \in 1 .. m
  BY <1>1, <1>2, SeqIs
<1>4. PICK k \in 1 .. m : toMaster' = Rest(t, k)
  BY <1>1 DEF MasterReads
<1>5. PICK u : u = toMaster'
  OBVIOUS
<1>6. u \in Seq(ToMaster) /\ Drops(u, t, k)
  <2>1. k \in 0 .. m
    BY <1>3
  <2>2. QED
    BY <1>1, <1>2, <1>4, <1>5, <2>1, RestIs
<1>7. Len(u) = m - k /\ \A i \in 1 .. Len(u) : u[i] = t[i + k]
  BY <1>1, <1>6 DEF Drops
<1>8. ASSUME NEW ops, OpsIn(t, ops) PROVE op \in ops /\ OpsIn(u, ops)
  <2>1. op \in ops
    BY <1>1, <1>2, <1>3, <1>8 DEF OpsIn
  <2>2. \A i \in 1 .. Len(u) : i + k \in 1 .. m
    BY <1>3, <1>7
  <2>3. QED
    BY <1>1, <1>7, <1>8, <2>1, <2>2 DEF OpsIn
<1>9. m <= 1 => u = <<>>
  <2>1. m <= 1 => Len(u) = 0
    BY <1>3, <1>7
  <2>2. QED
    BY <1>6, <2>1, EmptySeq
<1>10. QED
  BY <1>1, <1>2, <1>5, <1>8, <1>9 DEF MasterReads

\* A reply, when the message was the only thing pending.
LEMMA AwaitsReply ==
  ASSUME NEW q \in Seq(ToSlave), NEW s \in Seq(ToSlave), NEW u \in Seq(ToSlave), Joined(q, s, u),
         NEW op, NEW replies, NEW t, t # <<>>, NEW event,
         Awaits(op, replies, s, t, event, "up"), Once(u, replies), ~NoneOf(u, replies)
  PROVE  Awaits(op, replies, q, <<>>, event, "up")
<1>1. event # "write" /\ NoneOf(s, replies)
  BY DEF Awaits
<1>2. Once(q, replies) /\ ~NoneOf(q, replies)
  BY <1>1, JoinOps
<1>3. QED
  BY <1>1, <1>2, EmptyIs DEF Awaits

\* The pipe after a reply.
LEMMA ReplyAppends ==
  ASSUME TypeOK, NEW t \in Seq(ToSlave), peer'.writeBuf = peer.writeBuf \o t,
         UNCHANGED <<readBuf, toSlave>>
  PROVE  Pipe' \in Seq(ToSlave) /\ Joined(Pipe', Pipe, t)
<1>1. Pipe' = PipeOf(readBuf, toSlave, peer.writeBuf \o t)
  BY DEF Pipe, PipeOf
<1>2. QED
  BY <1>1, PipeAppends, PipeIs

\* The master answers PING: the one thing pending is +PONG in its buffer.
LEMMA PingConn ==
  ASSUME TypeOK, ConnInv, commandPingProc
  PROVE  ConnInv'
<1>1. MasterReads("PING") /\ peer' = Reply(peer, "PONG")
  BY DEF commandPingProc
<1>2. /\ link = "up" /\ peer.writeBuf = <<>> /\ toMaster # <<>>
      /\ UNCHANGED <<backlog, link, status, reading, replState, slaveConn, slaveData>>
      /\ \A ops : OpsIn(toMaster, ops) => "PING" \in ops /\ OpsIn(toMaster', ops)
      /\ Len(toMaster) <= 1 => toMaster' = <<>>
  BY <1>1, ReadsOps
<1>3. replState = "CONNECTING" /\ Connecting
  <2>1. ~OpsIn(toMaster, {"REPLCONF"}) /\ ~OpsIn(toMaster, {"SYNC"}) /\ ~OpsIn(toMaster, {"REPLACK", "OK"})
    BY <1>2
  <2>2. QED
    BY <1>2, <2>1 DEF ConnInv, Phase, SendReplconf, SendSync, ReceivingRdb, ReceivingAppendsync, InSync, Awaits
<1>4. PICK t : t = <<Msg("PONG")>>
  OBVIOUS
<1>5. /\ t \in Seq(ToSlave) /\ OpsIn(t, {"PONG"}) /\ Once(t, {"PONG"}) /\ ~NoneOf(t, {"PONG"})
  <2>1. t \in Seq(ToSlave) /\ Len(t) = 1 /\ t[1].op = "PONG" /\ OpsIn(t, {"PONG"}) /\ Once(t, {"PONG"})
    BY <1>4, WordIs
  <2>2. QED
    BY <2>1 DEF NoneOf
<1>6. peer'.writeBuf = peer.writeBuf \o t /\ peer'.slave = peer.slave /\ peer'.sync = peer.sync
  BY <1>1, <1>4, ReplyIs DEF TypeOK
<1>7. PICK s, q : s = Pipe /\ q = Pipe'
  OBVIOUS
<1>8. UNCHANGED <<readBuf, toSlave, writeBuf, reader, writer, watch, executed>>
  BY <1>1, <1>2 DEF MasterReads, slaveConn, slaveData
<1>9. s \in Seq(ToSlave) /\ q \in Seq(ToSlave) /\ Joined(q, s, t)
  BY <1>5, <1>6, <1>7, <1>8, ReplyAppends, PipeIs
<1>10. OpsIn(q, {"PONG"})
  BY <1>3, <1>5, <1>7, <1>9, JoinOps DEF Connecting
<1>11. Awaits("PING", {"PONG"}, s, toMaster, watch, "up")
  BY <1>2, <1>3, <1>7 DEF Connecting
<1>12. Awaits("PING", {"PONG"}, q, <<>>, watch, "up")
  BY <1>2, <1>5, <1>9, <1>11, AwaitsReply
<1>13. toMaster' = <<>>
  BY <1>2, <1>11 DEF Awaits
<1>14. Connecting'
  BY <1>2, <1>3, <1>6, <1>7, <1>8, <1>10, <1>12, <1>13 DEF Connecting, Fresh
<1>15. QED
  BY <1>2, <1>3, <1>14, SlaveAlone

\* The master answers REPLCONF, and propagates to this connection from now on.
LEMMA ReplconfConn ==
  ASSUME TypeOK, ConnInv, commandReplconfProc
  PROVE  ConnInv'
<1>1. MasterReads("REPLCONF") /\ peer' = [Reply(peer, "OK") EXCEPT !.slave = TRUE]
  BY DEF commandReplconfProc
<1>2. /\ link = "up" /\ peer.writeBuf = <<>> /\ toMaster # <<>>
      /\ UNCHANGED <<backlog, link, status, reading, replState, slaveConn, slaveData>>
      /\ \A ops : OpsIn(toMaster, ops) => "REPLCONF" \in ops /\ OpsIn(toMaster', ops)
      /\ Len(toMaster) <= 1 => toMaster' = <<>>
  BY <1>1, ReadsOps
<1>3. replState = "SEND_REPLCONF" /\ SendReplconf
  <2>1. ~OpsIn(toMaster, {"PING"}) /\ ~OpsIn(toMaster, {"SYNC"}) /\ ~OpsIn(toMaster, {"REPLACK", "OK"})
    BY <1>2
  <2>2. QED
    BY <1>2, <2>1 DEF ConnInv, Phase, Connecting, SendSync, ReceivingRdb, ReceivingAppendsync, InSync, Awaits
<1>4. PICK t : t = <<Msg("OK")>>
  OBVIOUS
<1>5. PICK l : l = backlog.last
  OBVIOUS
<1>6. l \in Nat
  BY <1>5 DEF TypeOK, BacklogState
<1>7. /\ t \in Seq(ToSlave) /\ OpsIn(t, {"OK", "BYTE"}) /\ Once(t, {"OK"}) /\ ~NoneOf(t, {"OK"}) /\ Newer(t, l, l)
  <2>1. /\ t \in Seq(ToSlave) /\ Len(t) = 1 /\ t[1].op = "OK" /\ OpsIn(t, {"OK", "BYTE"})
        /\ Once(t, {"OK"}) /\ Newer(t, l, l)
    BY <1>4, <1>6, WordIs
  <2>2. QED
    BY <2>1 DEF NoneOf
<1>8. peer'.writeBuf = peer.writeBuf \o t /\ peer'.sync = peer.sync
  <2>1. PICK p : p = Reply(peer, "OK")
    OBVIOUS
  <2>2. p \in Peer /\ p.writeBuf = peer.writeBuf \o t /\ p.sync = peer.sync
    BY <1>4, <2>1, ReplyIs DEF TypeOK
  <2>3. peer' = [p EXCEPT !.slave = TRUE]
    BY <1>1, <2>1
  <2>4. peer'.writeBuf = p.writeBuf /\ peer'.sync = p.sync
    BY <2>2, <2>3 DEF Peer
  <2>5. QED
    BY <2>2, <2>4
<1>9. PICK s, q : s = Pipe /\ q = Pipe'
  OBVIOUS
<1>10. UNCHANGED <<readBuf, toSlave, writeBuf, reader, writer, watch, executed, backlog>>
  BY <1>1, <1>2 DEF MasterReads, slaveConn, slaveData
<1>11. s \in Seq(ToSlave) /\ q \in Seq(ToSlave) /\ Joined(q, s, t)
  BY <1>7, <1>8, <1>9, <1>10, ReplyAppends, PipeIs
<1>12. OpsIn(q, {"OK", "BYTE"})
  BY <1>3, <1>7, <1>9, <1>11, JoinOps DEF SendReplconf
<1>13. Rising(q, 0, l)
  <2>1. Rising(s, 0, l) /\ l <= l /\ 0 \in Nat
    BY <1>3, <1>5, <1>6, <1>9 DEF SendReplconf
  <2>2. QED
    BY <1>6, <1>7, <1>11, <2>1, JoinNewer
<1>14. Awaits("REPLCONF", {"OK"}, s, toMaster, watch, "up")
  BY <1>2, <1>3, <1>9 DEF SendReplconf
<1>15. Awaits("REPLCONF", {"OK"}, q, <<>>, watch, "up")
  BY <1>2, <1>7, <1>11, <1>14, AwaitsReply
<1>16. toMaster' = <<>>
  BY <1>2, <1>14 DEF Awaits
<1>17. SendReplconf'
  BY <1>2, <1>3, <1>5, <1>8, <1>9, <1>10, <1>12, <1>13, <1>15, <1>16 DEF SendReplconf, Fresh
<1>18. QED
  BY <1>2, <1>3, <1>17, SlaveAlone

\* The answer to a heartbeat.
LEMMA AckConn ==
  ASSUME TypeOK, ConnInv, commandReplACKProc
  PROVE  ConnInv'
<1>1. MasterReads("REPLACK") /\ peer' = Reply(peer, "OK")
  BY DEF commandReplACKProc
<1>2. /\ link = "up" /\ peer.writeBuf = <<>> /\ toMaster # <<>>
      /\ UNCHANGED <<backlog, link, status, reading, replState, slaveConn, slaveData>>
      /\ \A ops : OpsIn(toMaster, ops) => "REPLACK" \in ops /\ OpsIn(toMaster', ops)
  BY <1>1, ReadsOps
<1>3. replState = "CONNECTED" /\ InSync
  <2>1. ~OpsIn(toMaster, {"PING"}) /\ ~OpsIn(toMaster, {"REPLCONF"}) /\ ~OpsIn(toMaster, {"SYNC"})
    BY <1>2
  <2>2. QED
    BY <1>2, <2>1
    DEF ConnInv, Phase, Connecting, SendReplconf, SendSync, ReceivingRdb, ReceivingAppendsync, Awaits
<1>4. PICK t, l : t = <<Msg("OK")>> /\ l = backlog.last
  OBVIOUS
<1>5. l \in Nat /\ l <= l /\ executed \in Seq(Nat)
  BY <1>4 DEF TypeOK, BacklogState
<1>6. t \in Seq(ToSlave) /\ OpsIn(t, {"OK", "BYTE"}) /\ Newer(t, l, l)
  BY <1>4, <1>5, WordIs
<1>7. peer'.writeBuf = peer.writeBuf \o t /\ peer'.sync = peer.sync
  BY <1>1, <1>4, ReplyIs DEF TypeOK
<1>8. PICK s, q : s = Pipe /\ q = Pipe'
  OBVIOUS
<1>9. UNCHANGED <<readBuf, toSlave, reader, executed, backlog>>
  BY <1>1, <1>2 DEF MasterReads, slaveConn, slaveData
<1>10. s \in Seq(ToSlave) /\ q \in Seq(ToSlave) /\ Joined(q, s, t)
  BY <1>6, <1>7, <1>8, <1>9, ReplyAppends, PipeIs
<1>11. Clean(s, executed, l) => Clean(q, executed, l)
  BY <1>5, <1>6, <1>10, JoinClean
<1>12. Blocked(s, 0, link) => Blocked(q, 0, link)
  BY <1>2, <1>6, <1>10, JoinBlocked
<1>13. InSync'
  BY <1>2, <1>3, <1>4, <1>7, <1>8, <1>9, <1>11, <1>12 DEF InSync
<1>14. QED
  BY <1>2, <1>3, <1>13, SlaveAlone

\* An answer that the master ignores.
LEMMA OkConn ==
  ASSUME TypeOK, ConnInv, MasterIgnoresOk
  PROVE  ConnInv'
<1>1. MasterReads("OK") /\ peer' = peer
  BY DEF MasterIgnoresOk
<1>2. /\ link = "up" /\ toMaster # <<>>
      /\ UNCHANGED <<backlog, link, status, reading, replState, slaveConn, slaveData>>
      /\ \A ops : OpsIn(toMaster, ops) => "OK" \in ops /\ OpsIn(toMaster', ops)
  BY <1>1, ReadsOps
<1>3. replState = "CONNECTED" /\ InSync
  <2>1. ~OpsIn(toMaster, {"PING"}) /\ ~OpsIn(toMaster, {"REPLCONF"}) /\ ~OpsIn(toMaster, {"SYNC"})
    BY <1>2
  <2>2. QED
    BY <1>2, <2>1
    DEF ConnInv, Phase, Connecting, SendReplconf, SendSync, ReceivingRdb, ReceivingAppendsync, Awaits
<1>4. UNCHANGED <<readBuf, toSlave, reader, executed, backlog>>
  BY <1>1, <1>2 DEF MasterReads, slaveConn, slaveData
<1>5. Pipe' = Pipe
  BY <1>1, <1>4 DEF Pipe
<1>6. InSync'
  BY <1>1, <1>2, <1>3, <1>4, <1>5 DEF InSync
<1>7. QED
  BY <1>2, <1>3, <1>6, SlaveAlone

\* The answer to SYNC, from the backlog or a snapshot.
LEMMA SyncConn ==
  ASSUME TypeOK, ConnInv, RingHoldsTail, commandSyncProc
  PROVE  ConnInv'
<1> DEFINE Answers == {"FULLSYNC", "APPENDSYNC"}
           All == {"FULLSYNC", "APPENDSYNC", "LEN", "RDB", "BYTE"}
<1>1. MasterReads("SYNC")
  BY DEF commandSyncProc
<1>2. /\ link = "up" /\ peer.writeBuf = <<>> /\ toMaster # <<>>
      /\ UNCHANGED <<backlog, link, status, reading, replState, slaveConn, slaveData>>
      /\ \A ops : OpsIn(toMaster, ops) => "SYNC" \in ops
      /\ Len(toMaster) <= 1 => toMaster' = <<>>
  BY <1>1, ReadsOps
<1>3. replState = "SEND_SYNC" /\ SendSync
  <2>1. ~OpsIn(toMaster, {"PING"}) /\ ~OpsIn(toMaster, {"REPLCONF"}) /\ ~OpsIn(toMaster, {"REPLACK", "OK"})
    BY <1>2
  <2>2. QED
    BY <1>2, <2>1
    DEF ConnInv, Phase, Connecting, SendReplconf, InSync, ReceivingRdb, ReceivingAppendsync, Awaits
<1>4. PICK a, b, c, l, s, q : /\ a = readBuf /\ b = toSlave /\ c = peer.writeBuf
                              /\ l = backlog.last /\ s = Pipe /\ q = Pipe'
  OBVIOUS
<1>5. /\ a \in Seq(ToSlave) /\ b \in Seq(ToSlave) /\ c \in Seq(ToSlave) /\ s \in Seq(ToSlave)
      /\ s = PipeOf(a, b, c) /\ l \in Nat /\ peer \in Peer
  BY <1>4, PipeIs DEF TypeOK, BacklogState
<1>6. UNCHANGED <<readBuf, toSlave, writeBuf, reader, writer, watch, executed, backlog>>
  BY <1>1, <1>2 DEF MasterReads, slaveConn, slaveData
<1>7. q = PipeOf(a, b, peer'.writeBuf)
  BY <1>4, <1>6 DEF Pipe, PipeOf
<1>8. /\ Awaits("SYNC", Answers, s, toMaster, watch, "up") /\ OpsIn(s, All)
      /\ Framed(s, "up") /\ Answered(s, l, "up")
  BY <1>2, <1>3, <1>4 DEF SendSync
<1>9. toMaster' = <<>> /\ NoneOf(s, Answers)
  BY <1>2, <1>8 DEF Awaits
<1>10. PICK from : from = Head(toMaster).n
  OBVIOUS
<1>11. from \in Int
  <2>1. toMaster \in Seq(ToMaster)
    BY DEF TypeOK
  <2>2. Head(toMaster) \in ToMaster
    BY <1>2, <2>1, TailRests
  <2>3. QED
    BY <1>10, <2>2, MessagesAre
<1>12. ASSUME NEW op \in Answers, NEW t, t = <<Msg(op)>>, NEW w, w = PipeOf(a, b, c \o t)
       PROVE  /\ t \in Seq(ToSlave) /\ w \in Seq(ToSlave) /\ Joined(w, s, t) /\ OpsIn(w, All)
              /\ Framed(w, "up") /\ Awaits("SYNC", Answers, w, <<>>, watch, "up")
  <2>1. /\ t \in Seq(ToSlave) /\ OpsIn(t, All) /\ Once(t, Answers) /\ NoneOf(t, {"LEN", "RDB"})
        /\ Len(t) = 1 /\ t[1].op = op
    BY <1>12, WordIs
  <2>2. ~NoneOf(t, Answers)
    BY <2>1 DEF NoneOf
  <2>3. w \in Seq(ToSlave) /\ Joined(w, s, t)
    BY <1>5, <1>12, <2>1, PipeAppends
  <2>4. OpsIn(w, All)
    BY <1>5, <1>8, <2>1, <2>3, JoinOps
  <2>5. Framed(w, "up")
    BY <1>5, <1>8, <2>1, <2>3, JoinFramed
  <2>6. Awaits("SYNC", Answers, w, <<>>, watch, "up")
    BY <1>2, <1>5, <1>8, <2>1, <2>2, <2>3, AwaitsReply
  <2>7. QED
    BY <2>1, <2>3, <2>4, <2>5, <2>6
<1>13. ASSUME q \in Seq(ToSlave), Awaits("SYNC", Answers, q, <<>>, watch, "up"), OpsIn(q, All),
              Framed(q, "up"), Answered(q, l, "up"), NoneOf(q, {"LEN"}),
              peer'.sync = "SEND_FULLSYNC" => ~NoneOf(peer'.writeBuf, {"FULLSYNC"})
       PROVE  ConnInv'
  <2>1. SendSync'
    BY <1>2, <1>3, <1>4, <1>6, <1>9, <1>13 DEF SendSync, Fresh
  <2>2. QED
    BY <1>2, <1>3, <2>1, SlaveAlone
<1>14. CASE Covers(backlog, from)
  <2>1. PICK u : u = [j \in DOMAIN Missing(backlog, from) |-> Byte(Missing(backlog, from)[j])]
    OBVIOUS
  <2>2. /\ u \in Seq(ToSlave) /\ OpsIn(u, {"BYTE"})
        /\ Newer(u, 0, l) \/ (l >= Size /\ \E i \in 1 .. Len(u) : u[i] = Byte(0))
    <3>1. backlog \in BacklogState /\ HoldsTail(backlog)
      BY DEF TypeOK, RingHoldsTail
    <3>2. QED
      BY <1>4, <1>11, <1>14, <2>1, <3>1, MissingBytes
  <2>3. PICK t, w, p : t = <<Msg("APPENDSYNC")>> /\ w = PipeOf(a, b, c \o t) /\ p = Reply(peer, "APPENDSYNC")
    OBVIOUS
  <2>4. p \in Peer /\ p.writeBuf = c \o t
    BY <1>4, <1>5, <2>3, ReplyIs
  <2>5. peer' = [p EXCEPT !.sync = "SEND_APPENDSYNC", !.writeBuf = @ \o u]
    BY <1>10, <1>14, <2>1, <2>3 DEF commandSyncProc
  <2>6. peer'.sync = "SEND_APPENDSYNC" /\ peer'.writeBuf = (c \o t) \o u
    BY <2>4, <2>5 DEF Peer
  <2>7. /\ t \in Seq(ToSlave) /\ w \in Seq(ToSlave) /\ Joined(w, s, t) /\ OpsIn(w, All)
        /\ Framed(w, "up") /\ Awaits("SYNC", Answers, w, <<>>, watch, "up")
    BY <1>12, <2>3
  <2>8. c \o t \in Seq(ToSlave)
    BY <1>5, <2>7, ConcatProperties
  <2>9. q \in Seq(ToSlave) /\ Joined(q, w, u)
    BY <1>5, <1>7, <2>2, <2>3, <2>6, <2>8, PipeAppends
  <2>10. NoneOf(u, {"LEN", "RDB"}) /\ NoneOf(u, Answers) /\ OpsIn(u, All)
    BY <2>2 DEF OpsIn, NoneOf
  <2>11. OpsIn(q, All) /\ Once(q, Answers) /\ (NoneOf(q, Answers) <=> NoneOf(w, Answers))
    BY <2>2, <2>7, <2>9, <2>10, JoinOps DEF Awaits
  <2>12. Framed(q, "up")
    BY <2>2, <2>7, <2>9, <2>10, JoinFramed
  <2>13. Awaits("SYNC", Answers, q, <<>>, watch, "up")
    BY <2>7, <2>11 DEF Awaits
  <2>14. Answered(q, l, "up") /\ NoneOf(q, {"LEN"})
    BY <1>5, <1>8, <1>9, <2>2, <2>3, <2>7, <2>9, AppendsyncAnswers
  <2>15. QED
    BY <1>13, <2>6, <2>9, <2>11, <2>12, <2>13, <2>14
<1>15. CASE ~Covers(backlog, from)
  <2>1. PICK t, p : t = <<Msg("FULLSYNC")>> /\ p = Reply(peer, "FULLSYNC")
    OBVIOUS
  <2>2. p \in Peer /\ p.writeBuf = c \o t
    BY <1>4, <1>5, <2>1, ReplyIs
  <2>3. peer' = [p EXCEPT !.sync = "SEND_FULLSYNC"]
    BY <1>10, <1>15, <2>1 DEF commandSyncProc
  <2>4. peer'.writeBuf = c \o t
    BY <2>2, <2>3 DEF Peer
  <2>5. q = PipeOf(a, b, c \o t)
    BY <1>7, <2>4
  <2>6. /\ t \in Seq(ToSlave) /\ q \in Seq(ToSlave) /\ Joined(q, s, t) /\ OpsIn(q, All)
        /\ Framed(q, "up") /\ Awaits("SYNC", Answers, q, <<>>, watch, "up")
    BY <1>12, <2>1, <2>5
  <2>7. Answered(q, l, "up") /\ NoneOf(q, {"LEN"})
    BY <1>5, <1>8, <1>9, <2>1, <2>6, FullsyncAnswers
  <2>8. ~NoneOf(peer'.writeBuf, {"FULLSYNC"})
    <3>1. peer'.writeBuf = t
      BY <1>2, <1>4, <2>4, <2>6, ConcatEmptySeq
    <3>2. Len(t) = 1 /\ t[1].op = "FULLSYNC"
      BY <2>1, WordIs
    <3>3. QED
      BY <3>1, <3>2 DEF NoneOf
  <2>9. QED
    BY <1>13, <2>6, <2>7, <2>8
<1>16. QED
  BY <1>14, <1>15

\* What the master has in its buffer goes onto the connection, and the snapshot
\* behind +FULLSYNC.
LEMMA SendsConn ==
  ASSUME TypeOK, ConnInv, MasterSends
  PROVE  ConnInv'
<1> DEFINE Answers == {"FULLSYNC", "APPENDSYNC"}
           All == {"FULLSYNC", "APPENDSYNC", "LEN", "RDB", "BYTE"}
<1>1. /\ link = "up"
      /\ UNCHANGED <<backlog, toMaster, link, breaks,
                     status, reading, replState, slaveConn, slaveData>>
  BY DEF MasterSends
<1>2. UNCHANGED <<readBuf, writeBuf, reader, writer, watch, executed, backlog, toMaster>>
  BY <1>1 DEF slaveConn, slaveData
<1>3. PICK a, b, c, l, s, q : /\ a = readBuf /\ b = toSlave /\ c = peer.writeBuf
                              /\ l = backlog.last /\ s = Pipe /\ q = Pipe'
  OBVIOUS
<1>4. /\ a \in Seq(ToSlave) /\ b \in Seq(ToSlave) /\ c \in Seq(ToSlave) /\ s \in Seq(ToSlave)
      /\ s = PipeOf(a, b, c) /\ l \in Nat /\ peer \in Peer
  BY <1>3, PipeIs DEF TypeOK, BacklogState
<1>5. peer'.writeBuf = <<>> /\ peer'.slave = peer.slave
  <2>1. PICK y : peer' = [peer EXCEPT !.writeBuf = <<>>, !.sync = y]
    BY DEF MasterSends
  <2>2. QED
    BY <1>4, <2>1 DEF Peer
<1>6. q = PipeOf(a, toSlave', <<>>)
  BY <1>2, <1>3, <1>5 DEF Pipe, PipeOf
<1>7. CASE peer.sync = "SEND_FULLSYNC"
  <2>1. PICK t : t = <<Msg("LEN"), Msg("RDB")>>
    OBVIOUS
  <2>2. toSlave' = b \o c \o t /\ peer' = [peer EXCEPT !.writeBuf = <<>>, !.sync = "SEND_RDB"]
    BY <1>3, <1>7, <2>1 DEF MasterSends
  <2>3. peer'.sync = "SEND_RDB"
    BY <1>4, <2>2 DEF Peer
  <2>4. replState = "SEND_SYNC" /\ SendSync
    BY <1>1, <1>7
    DEF ConnInv, Phase, Connecting, SendReplconf, InSync, ReceivingRdb, ReceivingAppendsync
  <2>5. /\ Awaits("SYNC", Answers, s, toMaster, watch, "up") /\ OpsIn(s, All)
        /\ Framed(s, "up") /\ Answered(s, l, "up")
        /\ ~NoneOf(c, {"FULLSYNC"}) /\ NoneOf(s, {"LEN"})
    BY <1>1, <1>3, <1>7, <2>4 DEF SendSync
  <2>6. t \in Seq(ToSlave) /\ OpsIn(t, All) /\ NoneOf(t, Answers)
    BY <2>1, SnapshotIs
  <2>7. Joined(q, s, t)
    BY <1>4, <1>6, <2>2, <2>6, PipeSends
  <2>8. q \in Seq(ToSlave)
    <3>1. b \o c \in Seq(ToSlave)
      BY <1>4, ConcatProperties
    <3>2. (b \o c) \o t \in Seq(ToSlave)
      BY <2>6, <3>1, ConcatProperties
    <3>3. QED
      BY <1>4, <1>6, <2>2, <3>2, EmptyTypes, PipeParts
  <2>9. ~NoneOf(s, {"FULLSYNC"})
    <3>1. a \o b \in Seq(ToSlave) /\ Joined(s, a \o b, c)
      BY <1>4, PipeParts
    <3>2. QED
      BY <1>4, <2>5, <3>1, JoinOps
  <2>10. Once(s, Answers)
    BY <2>5 DEF Awaits
  <2>11. OpsIn(q, All) /\ Once(q, Answers) /\ (NoneOf(q, Answers) <=> NoneOf(s, Answers))
    BY <1>4, <2>5, <2>6, <2>7, <2>8, <2>10, JoinOps
  <2>12. Awaits("SYNC", Answers, q, toMaster, watch, "up")
    BY <2>5, <2>11 DEF Awaits
  <2>13. Answered(q, l, "up") /\ Framed(q, "up")
    BY <1>4, <2>1, <2>5, <2>7, <2>8, <2>9, <2>10, SnapshotAnswers
  <2>14. SendSync'
    BY <1>1, <1>2, <1>3, <2>3, <2>4, <2>11, <2>12, <2>13 DEF SendSync, Fresh
  <2>15. QED
    BY <1>1, <2>4, <2>14, SlaveAlone
<1>8. CASE peer.sync # "SEND_FULLSYNC"
  <2>1. toSlave' = b \o c \o <<>> /\ peer' = [peer EXCEPT !.writeBuf = <<>>, !.sync = peer.sync]
    BY <1>3, <1>8 DEF MasterSends
  <2>2. peer'.sync = peer.sync
    BY <1>4, <2>1 DEF Peer
  <2>3. q = s
    BY <1>4, <1>6, <2>1, EmptyTypes, PipeSends
  <2>4. link' = "up" /\ replState' = replState
    BY <1>1
  <2>5. \/ replState = "CONNECTING" /\ Connecting'
        \/ replState = "SEND_REPLCONF" /\ SendReplconf'
        \/ replState = "SEND_SYNC" /\ SendSync'
        \/ replState = "RECEIVE_RDB" /\ ReceivingRdb'
        \/ replState = "RECEIVE_APPENDSYNC" /\ ReceivingAppendsync'
        \/ replState = "CONNECTED" /\ InSync'
    <3>1. Connecting => Connecting'
      BY <1>1, <1>2, <1>3, <1>5, <2>2, <2>3 DEF Connecting, Fresh
    <3>2. SendReplconf => SendReplconf'
      BY <1>1, <1>2, <1>3, <1>5, <2>2, <2>3 DEF SendReplconf, Fresh
    <3>3. SendSync => SendSync'
      BY <1>1, <1>2, <1>3, <1>8, <2>2, <2>3 DEF SendSync, Fresh
    <3>4. ReceivingRdb => ReceivingRdb'
      BY <1>1, <1>2, <1>3, <2>2, <2>3 DEF ReceivingRdb, Fresh
    <3>5. ReceivingAppendsync => ReceivingAppendsync'
      BY <1>1, <1>2, <1>3, <2>2, <2>3 DEF ReceivingAppendsync, Fresh
    <3>6. InSync => InSync'
      BY <1>1, <1>2, <1>3, <2>2, <2>3 DEF InSync
    <3>7. QED
      BY <1>1, <3>1, <3>2, <3>3, <3>4, <3>5, <3>6 DEF ConnInv, Phase
  <2>6. QED
    BY <1>1, <2>5, SlaveAlone
<1>9. QED
  BY <1>7, <1>8

-----------------------------------------------------------------------------
(***************************************************************************)
(* The connection ends or begins.                                          *)
(***************************************************************************)
\* Of what was sent some still arrives, and nothing is pending any more.
LEMMA EndConn ==
  ASSUME TypeOK, ConnInv, NEW how \in {"closed", "reset"}, ConnectionEnds(how)
  PROVE  ConnInv'
<1>1. /\ link = "up" /\ link' = how /\ how # "up" /\ how # "none"
      /\ peer' = NewPeer /\ toMaster' = <<>>
      /\ UNCHANGED <<backlog, status, reading, replState, slaveConn, slaveData>>
  BY DEF ConnectionEnds
<1>2. UNCHANGED <<readBuf, writeBuf, reader, writer, watch, executed>>
  BY <1>1 DEF slaveConn, slaveData
<1>3. PICK a, b, c, l, s, q : /\ a = readBuf /\ b = toSlave /\ c = peer.writeBuf
                              /\ l = backlog.last /\ s = Pipe /\ q = Pipe'
  OBVIOUS
<1>4. /\ a \in Seq(ToSlave) /\ b \in Seq(ToSlave) /\ c \in Seq(ToSlave) /\ s \in Seq(ToSlave)
      /\ s = PipeOf(a, b, c) /\ 0 \in Nat
  BY <1>3, PipeIs
<1>5. PICK k : k \in {0} \cup Ends(toSlave) /\ toSlave' = SubSeq(toSlave, 1, k)
  BY DEF ConnectionEnds
<1>6. k \in 0 .. Len(b)
  BY <1>3, <1>4, <1>5, SeqIs DEF Ends
<1>7. peer'.writeBuf = <<>> /\ peer'.sync = "NONE" /\ ~peer'.slave
  BY <1>1 DEF NewPeer
<1>8. q = PipeOf(a, SubSeq(b, 1, k), <<>>)
  BY <1>2, <1>3, <1>5, <1>7 DEF Pipe, PipeOf
<1>9. q \in Seq(ToSlave) /\ Begins(q, s)
  BY <1>4, <1>6, <1>8, PipeCut
<1>10. /\ \A ops : OpsIn(s, ops) => OpsIn(q, ops)
       /\ \A ops : NoneOf(s, ops) => NoneOf(q, ops)
       /\ \A ops : Once(s, ops) => Once(q, ops)
  BY <1>4, <1>9, CutOps
<1>11. /\ Rising(s, 0, l) => Rising(q, 0, l)
       /\ Blocked(s, 0, "up") => Blocked(q, 0, how)
       /\ Framed(s, "up") => Framed(q, how)
  BY <1>1, <1>4, <1>9, CutOrder
<1>12. Answered(s, l, "up") => Answered(q, l, how)
  BY <1>1, <1>4, <1>9, CutAnswered
<1>13. Clean(s, executed, l) => Clean(q, executed, l)
  BY <1>4, <1>9, CutClean
<1>14. \A op, replies : Awaits(op, replies, s, toMaster, watch, "up")
                          => Awaits(op, replies, q, <<>>, watch, how)
  BY <1>1, <1>10, EmptyIs DEF Awaits
<1>15. Phase'
  <2>1. CASE replState = "CONNECTING" /\ Connecting
    <3>1. Connecting'
      BY <1>1, <1>2, <1>3, <1>7, <1>10, <1>14, <2>1 DEF Connecting, Fresh
    <3>2. QED
      BY <1>1, <2>1, <3>1 DEF Phase
  <2>2. CASE replState = "SEND_REPLCONF" /\ SendReplconf
    <3>1. SendReplconf'
      BY <1>1, <1>2, <1>3, <1>7, <1>10, <1>11, <1>14, <2>2 DEF SendReplconf, Fresh
    <3>2. QED
      BY <1>1, <2>2, <3>1 DEF Phase
  <2>3. CASE replState = "SEND_SYNC" /\ SendSync
    <3>1. SendSync'
      BY <1>1, <1>2, <1>3, <1>7, <1>10, <1>11, <1>12, <1>14, <2>3 DEF SendSync, Fresh
    <3>2. QED
      BY <1>1, <2>3, <3>1 DEF Phase
  <2>4. CASE replState = "RECEIVE_RDB" /\ ReceivingRdb
    <3>1. ReceivingRdb'
      BY <1>1, <1>2, <1>3, <1>7, <1>10, <1>11, <2>4 DEF ReceivingRdb, Fresh
    <3>2. QED
      BY <1>1, <2>4, <3>1 DEF Phase
  <2>5. CASE replState = "RECEIVE_APPENDSYNC" /\ ReceivingAppendsync
    <3>1. ReceivingAppendsync'
      BY <1>1, <1>2, <1>3, <1>7, <1>10, <1>11, <2>5 DEF ReceivingAppendsync, Fresh
    <3>2. QED
      BY <1>1, <2>5, <3>1 DEF Phase
  <2>6. CASE replState = "CONNECTED" /\ InSync
    <3>1. InSync'
      BY <1>1, <1>2, <1>3, <1>7, <1>11, <1>13, <2>6, EmptyIs DEF InSync
    <3>2. QED
      BY <1>1, <2>6, <3>1 DEF Phase
  <2>7. QED
    BY <1>1, <2>1, <2>2, <2>3, <2>4, <2>5, <2>6 DEF ConnInv, Phase
<1>16. Ended'
  BY <1>1 DEF Ended
<1>17. SpinsOnWriteOnly' /\ OpsIn(writeBuf', {"OK"}) /\ \E n \in Nat : backlog'.last = 2 * n
  BY <1>1, <1>2 DEF ConnInv, SpinsOnWriteOnly, HeadIs
<1>18. QED
  BY <1>15, <1>16, <1>17 DEF ConnInv

\* A slave that has just connected has the write event pending.
LEMMA ConnectConn ==
  ASSUME ConnInv, Connected \/ ConnectFailed, reading' = FALSE,
         status' # "spins", backlog' = backlog
  PROVE  ConnInv'
<1>1. PICK n \in Nat : backlog'.last = 2 * n
  BY DEF ConnInv
<1>2. /\ peer' = NewPeer /\ toSlave' = <<>> /\ toMaster' = <<>> /\ readBuf' = <<>>
      /\ writeBuf' = <<>> /\ executed' = <<>>
  BY DEF Connected, ConnectFailed
<1>3. OpsIn(writeBuf', {"OK"})
  BY <1>2, EmptyIs
<1>4. CASE Connected
  <2>1. /\ link' = "up" /\ replState' = "CONNECTING" /\ watch' = "write"
        /\ reader' = "repliReadHandler" /\ writer' = "repliWriteHandler"
    BY <1>4 DEF Connected
  <2>2. NewPeer.writeBuf = <<>> /\ NewPeer.sync = "NONE" /\ ~NewPeer.slave
    BY DEF NewPeer
  <2>3. Pipe' = <<>>
    BY <1>2, <2>2, EmptyIs DEF Pipe, PipeOf
  <2>4. Awaits("PING", {"PONG"}, <<>>, <<>>, "write", "up")
    BY EmptyIs DEF Awaits
  <2>5. Connecting'
    BY <1>2, <2>1, <2>2, <2>3, <2>4, EmptyIs DEF Connecting, Fresh
  <2>6. Phase' /\ Ended'
    BY <2>1, <2>5 DEF Phase, Ended
  <2>7. SpinsOnWriteOnly'
    BY DEF SpinsOnWriteOnly
  <2>8. QED
    BY <1>1, <1>3, <2>6, <2>7 DEF ConnInv
<1>5. CASE ConnectFailed
  <2>1. link' = "none" /\ watch' = "none"
    BY <1>5 DEF ConnectFailed
  <2>2. Phase' /\ Ended'
    BY <1>2, <2>1 DEF Phase, NoConnection, Ended
  <2>3. SpinsOnWriteOnly'
    BY DEF SpinsOnWriteOnly
  <2>4. QED
    BY <1>1, <1>3, <2>2, <2>3 DEF ConnInv
<1>6. QED
  BY <1>4, <1>5

\* The slave ends, starts again or connects again.
LEMMA DiesConn ==
  ASSUME ConnInv, Dies
  PROVE  ConnInv'
BY ConnectConn DEF Dies

\* reconnectMaster gives up the old connection with all that was on its way.
LEMMA ReconnectConn ==
  ASSUME ConnInv, Idle, reconnectMaster
  PROVE  ConnInv'
<1>1. reading' = FALSE /\ status' # "spins" /\ backlog' = backlog
  BY DEF Idle, reconnectMaster
<1>2. QED
  BY <1>1, ConnectConn DEF reconnectMaster

\* A slave that starts again has a fresh connection or none.
LEMMA RestartConn ==
  ASSUME ConnInv, Restart
  PROVE  ConnInv'
BY ConnectConn DEF Restart

-----------------------------------------------------------------------------
(***************************************************************************)
(* What the slave writes, and its timer.                                   *)
(***************************************************************************)
\* A connection that has ended stays so.
LEMMA StillEnded ==
  ASSUME NEW s \in Seq(ToSlave), NEW c, NEW d, c = d \/ d # "up"
  PROVE  /\ Framed(s, c) => Framed(s, d)
         /\ \A l : Answered(s, l, c) => Answered(s, l, d)
         /\ Blocked(s, 0, c) => Blocked(s, 0, d)
         /\ \A op, replies, t, event :
              Awaits(op, replies, s, t, event, c) => Awaits(op, replies, s, t, event, d)
<1>1. CASE c = d
  BY <1>1
<1>2. CASE d # "up"
  <2>1. Begins(s, s) /\ 0 \in Nat
    BY SeqIs DEF Begins
  <2>2. (Framed(s, c) => Framed(s, d)) /\ (Blocked(s, 0, c) => Blocked(s, 0, d))
    BY <1>2, <2>1, CutOrder
  <2>3. \A l : Answered(s, l, c) => Answered(s, l, d)
    BY <1>2, <2>1, CutAnswered
  <2>4. \A op, replies, t, event :
          Awaits(op, replies, s, t, event, c) => Awaits(op, replies, s, t, event, d)
    BY <1>2 DEF Awaits
  <2>5. QED
    BY <2>2, <2>3, <2>4
<1>3. QED
  BY <1>1, <1>2

\* The message of the state takes the place of the write event.
LEMMA AwaitsSent ==
  ASSUME NEW op, NEW replies, NEW s, NEW t, NEW c, Awaits(op, replies, s, t, "write", c),
         NEW msg \in ToMaster, msg.op = op
  PROVE  /\ Awaits(op, replies, s, <<msg>>, "read", "up")
         /\ Awaits(op, replies, s, <<>>, "read", "reset")
<1>1. PICK u : u = <<msg>>
  OBVIOUS
<1>2. Len(u) = 1 /\ u[1] = msg /\ u # <<>>
  BY <1>1
<1>3. OpsIn(u, {op})
  <2>1. 1 .. Len(u) = {1}
    BY <1>2
  <2>2. QED
    BY <1>2, <2>1 DEF OpsIn
<1>4. NoneOf(s, replies) /\ Once(s, replies)
  BY DEF Awaits
<1>5. Awaits(op, replies, s, u, "read", "up")
  BY <1>2, <1>3, <1>4 DEF Awaits
<1>6. Awaits(op, replies, s, <<>>, "read", "reset")
  BY <1>4, EmptyIs DEF Awaits
<1>7. QED
  BY <1>1, <1>5, <1>6

\* Messages to the master, one behind the other.
LEMMA OpsJoin ==
  ASSUME NEW s \in Seq(ToMaster), NEW t \in Seq(ToMaster), NEW ops, OpsIn(s, ops), OpsIn(t, ops)
  PROVE  s \o t \in Seq(ToMaster) /\ OpsIn(s \o t, ops)
<1>1. PICK q, m, n : q = s \o t /\ m = Len(s) /\ n = Len(t)
  OBVIOUS
<1>2. m \in Nat /\ n \in Nat
  BY <1>1, SeqIs
<1>3. /\ q \in Seq(ToMaster) /\ Len(q) = m + n
      /\ \A i \in 1 .. m + n : q[i] = IF i <= m THEN s[i] ELSE t[i - m]
  BY <1>1, ConcatProperties
<1>4. ASSUME NEW i \in 1 .. m + n PROVE q[i].op \in ops
  <2>1. CASE i <= m
    <3>1. i \in 1 .. m
      BY <1>2, <2>1
    <3>2. QED
      BY <1>1, <1>3, <2>1, <3>1 DEF OpsIn
  <2>2. CASE ~(i <= m)
    <3>1. i - m \in 1 .. n
      BY <1>2, <2>2
    <3>2. QED
      BY <1>1, <1>3, <2>2, <3>1 DEF OpsIn
  <2>3. QED
    BY <2>1, <2>2
<1>5. QED
  BY <1>1, <1>3, <1>4 DEF OpsIn

\* The write handlers of the slave.
LEMMA SlaveWritesConn ==
  ASSUME TypeOK, ConnInv, SlaveWrites
  PROVE  ConnInv'
<1>1. PICK out :
        /\ Sends(out) /\ Idle /\ watch = "write"
        /\ \/ writer = "repliWriteHandler" /\ out = writeBuf \o Greeting
           \/ writer = "sendToClient" /\ out = writeBuf
  BY DEF SlaveWrites, repliWriteHandler, sendToClient
<1>2. CASE Dies
  BY <1>2, DiesConn
<1>3. CASE ~Dies
  <2>1. /\ link \in {"up", "closed"}
        /\ toMaster' = IF link = "up" THEN toMaster \o out ELSE <<>>
        /\ link' = IF link = "up" THEN "up" ELSE "reset"
        /\ writeBuf' = <<>>
        /\ watch' = WatchAgain
        /\ UNCHANGED <<masterVars, toSlave, breaks, status, reading, replState,
                       readBuf, reader, writer, slaveData>>
    BY <1>1, <1>3 DEF Sends
  <2>2. UNCHANGED <<backlog, peer, toSlave, status, replState, readBuf, reader, writer, executed>>
    BY <2>1 DEF masterVars, slaveData
  <2>3. PICK s, l : s = Pipe /\ l = backlog.last
    OBVIOUS
  <2>4. s \in Seq(ToSlave) /\ Pipe' = s
    BY <2>2, <2>3, PipeIs DEF Pipe
  <2>5. link = link' \/ link' # "up"
    BY <2>1
  <2>6. /\ Framed(s, link) => Framed(s, link')
        /\ Answered(s, l, link) => Answered(s, l, link')
        /\ Blocked(s, 0, link) => Blocked(s, 0, link')
    BY <2>4, <2>5, StillEnded
  <2>7. toMaster \in Seq(ToMaster) /\ writeBuf \in Seq(ToMaster) /\ offset \in Int
    BY DEF TypeOK
  <2>8. ASSUME NEW msg \in ToMaster, Greeting = <<msg>>, NEW replies, Fresh,
               Awaits(msg.op, replies, s, toMaster, watch, link)
        PROVE  Fresh' /\ Awaits(msg.op, replies, s, toMaster', watch', link')
    <3>1. Fresh'
      BY <2>1, <2>2, <2>8 DEF Fresh
    <3>2. watch' = "read"
      BY <2>1, <2>8 DEF Fresh, WatchAgain
    <3>3. toMaster = <<>> /\ Awaits(msg.op, replies, s, toMaster, "write", link)
      BY <1>1, <2>8 DEF Awaits
    <3>4. out = <<msg>>
      <4>1. <<msg>> \in Seq(ToMaster)
        OBVIOUS
      <4>2. <<>> \o <<msg>> = <<msg>>
        BY <4>1, ConcatEmptySeq
      <4>3. QED
        BY <1>1, <2>8, <4>2 DEF Fresh
    <3>5. /\ Awaits(msg.op, replies, s, <<msg>>, "read", "up")
          /\ Awaits(msg.op, replies, s, <<>>, "read", "reset")
      BY <3>3, AwaitsSent
    <3>6. CASE link = "up"
      <4>1. <<msg>> \in Seq(ToMaster)
        OBVIOUS
      <4>2. toMaster' = <<msg>>
        BY <2>1, <3>3, <3>4, <3>6, <4>1, ConcatEmptySeq
      <4>3. QED
        BY <2>1, <3>1, <3>2, <3>5, <3>6, <4>2
    <3>7. CASE link # "up"
      BY <2>1, <3>1, <3>2, <3>5, <3>7
    <3>8. QED
      BY <3>6, <3>7
  <2>9. Phase'
    <3>1. link # "none" /\ link' # "none"
      BY <2>1
    <3>2. CASE replState = "CONNECTING" /\ Connecting
      <4>1. Greeting = <<Msg("PING")>> /\ Msg("PING") \in ToMaster /\ Msg("PING").op = "PING"
        BY <3>2, MessagesAre DEF Greeting
      <4>2. Fresh' /\ Awaits("PING", {"PONG"}, s, toMaster', watch', link')
        BY <2>3, <2>8, <3>2, <4>1 DEF Connecting
      <4>3. Connecting'
        BY <2>2, <2>3, <2>4, <3>2, <4>2 DEF Connecting
      <4>4. QED
        BY <2>2, <3>1, <3>2, <4>3 DEF Phase
    <3>3. CASE replState = "SEND_REPLCONF" /\ SendReplconf
      <4>1. Greeting = <<Msg("REPLCONF")>> /\ Msg("REPLCONF") \in ToMaster /\ Msg("REPLCONF").op = "REPLCONF"
        BY <3>3, MessagesAre DEF Greeting
      <4>2. Fresh' /\ Awaits("REPLCONF", {"OK"}, s, toMaster', watch', link')
        BY <2>3, <2>8, <3>3, <4>1 DEF SendReplconf
      <4>3. SendReplconf'
        BY <2>2, <2>3, <2>4, <3>3, <4>2 DEF SendReplconf
      <4>4. QED
        BY <2>2, <3>1, <3>3, <4>3 DEF Phase
    <3>4. CASE replState = "SEND_SYNC" /\ SendSync
      <4>1. PICK msg : msg = [op |-> "SYNC", n |-> offset]
        OBVIOUS
      <4>2. Greeting = <<msg>> /\ msg \in ToMaster /\ msg.op = "SYNC"
        BY <2>7, <3>4, <4>1, MessagesAre DEF Greeting
      <4>3. Fresh' /\ Awaits("SYNC", {"FULLSYNC", "APPENDSYNC"}, s, toMaster', watch', link')
        BY <2>3, <2>8, <3>4, <4>2 DEF SendSync
      <4>4. SendSync'
        BY <2>2, <2>3, <2>4, <2>6, <3>4, <4>3 DEF SendSync
      <4>5. QED
        BY <2>2, <3>1, <3>4, <4>4 DEF Phase
    <3>5. CASE replState = "CONNECTED" /\ InSync
      <4>1. OpsIn(toMaster', {"REPLACK", "OK"})
        <5>1. CASE link = "up"
          <6>1. Greeting = <<Msg("REPLACK")>>
            BY <3>5 DEF Greeting
          <6>2. <<Msg("REPLACK")>> \in Seq(ToMaster) /\ Msg("REPLACK").op = "REPLACK"
            BY MessagesAre
          <6>3. OpsIn(<<Msg("REPLACK")>>, {"REPLACK", "OK"})
            BY <6>2 DEF OpsIn
          <6>4. OpsIn(writeBuf, {"REPLACK", "OK"})
            BY DEF ConnInv, OpsIn
          <6>5. out \in Seq(ToMaster) /\ OpsIn(out, {"REPLACK", "OK"})
            BY <1>1, <2>7, <6>1, <6>2, <6>3, <6>4, OpsJoin
          <6>6. OpsIn(toMaster \o out, {"REPLACK", "OK"})
            BY <2>7, <3>5, <6>5, OpsJoin DEF InSync
          <6>7. QED
            BY <2>1, <5>1, <6>6
        <5>2. CASE link # "up"
          BY <2>1, <5>2, EmptyIs
        <5>3. QED
          BY <5>1, <5>2
      <4>2. InSync'
        BY <2>2, <2>3, <2>4, <2>6, <3>5, <4>1 DEF InSync
      <4>3. QED
        BY <2>2, <3>1, <3>5, <4>2 DEF Phase
    <3>6. QED
      BY <1>1, <3>1, <3>2, <3>3, <3>4, <3>5 DEF ConnInv, Phase, ReceivingRdb, ReceivingAppendsync
  <2>10. Ended'
    BY <2>1, <2>2 DEF ConnInv, Ended
  <2>11. OpsIn(writeBuf', {"OK"}) /\ SpinsOnWriteOnly' /\ \E n \in Nat : backlog'.last = 2 * n
    BY <2>1, <2>2, EmptyIs DEF ConnInv, SpinsOnWriteOnly, HeadIs
  <2>12. QED
    BY <2>9, <2>10, <2>11 DEF ConnInv
<1>4. QED
  BY <1>2, <1>3

\* The timer of the slave.
LEMMA CronConn ==
  ASSUME TypeOK, ConnInv, SlaveCron \/ MasterTimeout
  PROVE  ConnInv'
<1>1. CASE Heartbeat
  <2>1. /\ replState = "CONNECTED" /\ link # "none"
        /\ UNCHANGED <<backlog, peer, toSlave, toMaster, link, status, replState, readBuf, writeBuf,
                       reader, executed>>
    BY <1>1 DEF Heartbeat, masterVars, netVars, slaveData
  <2>2. InSync
    BY <2>1 DEF ConnInv, Phase
  <2>3. Pipe' = Pipe
    BY <2>1 DEF Pipe
  <2>4. InSync'
    BY <2>1, <2>2, <2>3 DEF InSync
  <2>5. Phase'
    BY <2>1, <2>4 DEF Phase
  <2>6. QED
    BY <2>1, <2>5 DEF ConnInv, Ended, SpinsOnWriteOnly, HeadIs
<1>2. CASE HeartbeatReconnects
  BY <1>2, ReconnectConn DEF HeartbeatReconnects
<1>3. CASE HeartbeatDies
  BY <1>3, DiesConn DEF HeartbeatDies
<1>4. CASE MasterTimeout
  BY <1>4, ReconnectConn DEF MasterTimeout
<1>5. QED
  BY <1>1, <1>2, <1>3, <1>4 DEF SlaveCron

-----------------------------------------------------------------------------
(***************************************************************************)
(* What the slave reads.                                                   *)
(***************************************************************************)
\* The command at the head is executed; what is behind it is newer.
LEMMA CleanExecutes ==
  ASSUME NEW q \in Seq(ToSlave), NEW s \in Seq(ToSlave), NEW k, Drops(q, s, k), k >= 2,
         NEW x \in Seq(Nat), NEW l \in Nat, Clean(s, x, l),
         NEW c \in Nat, s[2] = Byte(2 * c)
  PROVE  Clean(q, Append(x, c), l)
<1>0. PICK p, m \in Nat : TakenTo(q, s, k, p, m)
  BY TakenPlaces
<1>1. /\ p = Len(q) /\ m = Len(s) /\ k \in 0 .. m
      /\ \A i \in 1 .. p : i + k \in 1 .. m /\ q[i] = s[i + k]
  BY <1>0 DEF TakenTo
<1>2. PICK y, n : y = Append(x, c) /\ n = Len(x)
  OBVIOUS
<1>3. n \in Nat /\ \A i \in 1 .. n : x[i] \in Nat
  BY <1>2, SeqIs
<1>4. /\ y \in Seq(Nat) /\ Len(y) = n + 1 /\ DOMAIN y = 1 .. n + 1
      /\ \A i \in 1 .. n : y[i] = x[i]
      /\ y[n + 1] = c
  BY <1>2, AppendProperties, SeqIs
<1>5. s[2].op = "BYTE" /\ s[2].n = 2 * c /\ 2 \in 1 .. m
  BY <1>1 DEF Byte
<1>6. /\ 2 * c <= l
      /\ \A j \in 1 .. m : j > 2 /\ s[j].op = "BYTE" => 2 * c < s[j].n
  <2>1. Rising(s, 0, l)
    BY DEF Clean
  <2>2. s[2].n <= l /\ \A j \in 1 .. m : j > 2 /\ s[j].op = "BYTE" => s[2].n < s[j].n
    <3>1. \A i \in 1 .. m : i > 0 /\ s[i].op = "BYTE" =>
            s[i].n <= l /\ \A j \in 1 .. m : j > i /\ s[j].op = "BYTE" => s[i].n < s[j].n
      BY <1>1, <2>1 DEF Rising
    <3>2. PICK i : i = 2
      OBVIOUS
    <3>3. i \in 1 .. m /\ i > 0 /\ s[i].op = "BYTE"
      BY <1>5, <3>2
    <3>4. s[i].n <= l /\ \A j \in 1 .. m : j > i /\ s[j].op = "BYTE" => s[i].n < s[j].n
      BY <3>1, <3>3
    <3>5. QED
      BY <3>2, <3>4
  <2>3. QED
    BY <1>5, <2>2
<1>7. \A i \in 1 .. n : x[i] < c
  <2>1. ASSUME NEW i \in 1 .. n PROVE x[i] < c
    <3>1. 2 * x[i] < 2 * c
      BY <1>1, <1>2, <1>5 DEF Clean
    <3>2. QED
      BY <1>3, <3>1
  <2>2. QED
    BY <2>1
<1>8. Clean(q, x, l)
  BY TakenClean
<1>9. Ordered(y)
  <2>1. ASSUME NEW i \in 1 .. n + 1, NEW j \in 1 .. n + 1, i < j PROVE y[i] < y[j]
    <3>1. i \in 1 .. n /\ y[i] = x[i]
      BY <1>3, <1>4, <2>1
    <3>2. CASE j \in 1 .. n
      <4>1. \A a, b \in 1 .. n : a < b => x[a] < x[b]
        BY <1>2, SeqIs DEF Clean, Ordered
      <4>2. QED
        BY <1>4, <2>1, <3>1, <3>2, <4>1
    <3>3. CASE j = n + 1
      BY <1>4, <1>7, <3>1, <3>3
    <3>4. QED
      BY <1>3, <3>2, <3>3
  <2>2. QED
    BY <1>4, <2>1 DEF Ordered
<1>10. ASSUME NEW i \in 1 .. n + 1
       PROVE  2 * y[i] <= l /\ \A j \in 1 .. p : q[j].op = "BYTE" => 2 * y[i] < q[j].n
  <2>1. CASE i \in 1 .. n
    BY <1>1, <1>2, <1>4, <1>8, <2>1 DEF Clean
  <2>2. CASE i = n + 1
    <3>1. ASSUME NEW j \in 1 .. p, q[j].op = "BYTE" PROVE 2 * c < q[j].n
      <4>1. j + k \in 1 .. m /\ j + k > 2 /\ q[j] = s[j + k]
        BY <1>1
      <4>2. QED
        BY <1>6, <3>1, <4>1
    <3>2. QED
      BY <1>4, <1>6, <2>2, <3>1
  <2>3. QED
    BY <1>3, <2>1, <2>2
<1>11. Clean(q, y, l)
  BY <1>1, <1>4, <1>8, <1>9, <1>10 DEF Clean
<1>12. QED
  BY <1>2, <1>11

\* The slave reads on, and what it has not looked at is the same.
LEMMA RepliReadConn ==
  ASSUME TypeOK, ConnInv, RepliRead
  PROVE  ConnInv'
<1>1. PICK k \in Ends(toSlave) : Receives(k) /\ readBuf' = readBuf \o SubSeq(toSlave, 1, k)
  BY DEF RepliRead
<1>2. /\ Idle /\ watch = "read" /\ toSlave' = Rest(toSlave, k)
      /\ UNCHANGED <<backlog, peer, toMaster, status, replState, writeBuf, reader, writer, watch, executed>>
  BY <1>1 DEF Receives, RepliRead, masterVars, slaveData
<1>3. link' = Polled /\ (link = link' \/ link' # "up") /\ (link' = "up" <=> link = "up")
      /\ (link' = "none" <=> link = "none")
  BY <1>1 DEF Receives, Polled
<1>4. PICK a, b, c, l, s : a = readBuf /\ b = toSlave /\ c = peer.writeBuf /\ l = backlog.last /\ s = Pipe
  OBVIOUS
<1>5. /\ a \in Seq(ToSlave) /\ b \in Seq(ToSlave) /\ c \in Seq(ToSlave) /\ s \in Seq(ToSlave)
      /\ s = PipeOf(a, b, c)
  BY <1>4, PipeIs
<1>6. k \in 0 .. Len(b)
  BY <1>4, PieceTypes
<1>7. Pipe' = s
  <2>1. readBuf' = a \o SubSeq(b, 1, k) /\ toSlave' = Rest(b, k) /\ peer'.writeBuf = c
    BY <1>1, <1>2, <1>4
  <2>2. Pipe' = PipeOf(a \o SubSeq(b, 1, k), Rest(b, k), c)
    BY <2>1 DEF Pipe, PipeOf
  <2>3. PipeOf(a \o SubSeq(b, 1, k), Rest(b, k), c) = PipeOf(a, b, c)
    BY <1>5, <1>6, PipeReads
  <2>4. QED
    BY <1>5, <2>2, <2>3
<1>8. /\ Framed(s, link) => Framed(s, link')
      /\ Answered(s, l, link) => Answered(s, l, link')
      /\ Blocked(s, 0, link) => Blocked(s, 0, link')
      /\ \A op, replies, t, event :
           Awaits(op, replies, s, t, event, link) => Awaits(op, replies, s, t, event, link')
  BY <1>3, <1>5, StillEnded
<1>9. link # "none" /\ link' # "none"
  BY <1>2, <1>3 DEF ConnInv, Phase, NoConnection
<1>10. Phase'
  <2>1. CASE replState = "CONNECTING" /\ Connecting
    <3>1. Connecting'
      BY <1>2, <1>4, <1>7, <1>8, <2>1 DEF Connecting, Fresh
    <3>2. QED
      BY <1>2, <1>9, <2>1, <3>1 DEF Phase
  <2>2. CASE replState = "SEND_REPLCONF" /\ SendReplconf
    <3>1. SendReplconf'
      BY <1>2, <1>4, <1>7, <1>8, <2>2 DEF SendReplconf, Fresh
    <3>2. QED
      BY <1>2, <1>9, <2>2, <3>1 DEF Phase
  <2>3. CASE replState = "SEND_SYNC" /\ SendSync
    <3>1. SendSync'
      BY <1>2, <1>4, <1>7, <1>8, <2>3 DEF SendSync, Fresh
    <3>2. QED
      BY <1>2, <1>9, <2>3, <3>1 DEF Phase
  <2>4. CASE replState = "RECEIVE_RDB" /\ ReceivingRdb
    <3>1. ReceivingRdb'
      BY <1>2, <1>4, <1>7, <1>8, <2>4 DEF ReceivingRdb, Fresh
    <3>2. QED
      BY <1>2, <1>9, <2>4, <3>1 DEF Phase
  <2>5. CASE replState = "RECEIVE_APPENDSYNC" /\ ReceivingAppendsync
    <3>1. ReceivingAppendsync'
      BY <1>2, <1>4, <1>7, <1>8, <2>5 DEF ReceivingAppendsync, Fresh
    <3>2. QED
      BY <1>2, <1>9, <2>5, <3>1 DEF Phase
  <2>6. CASE replState = "CONNECTED" /\ InSync
    <3>1. InSync'
      BY <1>2, <1>4, <1>7, <1>8, <2>6 DEF InSync
    <3>2. QED
      BY <1>2, <1>9, <2>6, <3>1 DEF Phase
  <2>7. QED
    BY <1>9, <2>1, <2>2, <2>3, <2>4, <2>5, <2>6 DEF ConnInv, Phase
<1>11. Ended'
  BY <1>2, <1>3 DEF ConnInv, Ended
<1>12. SpinsOnWriteOnly' /\ OpsIn(writeBuf', {"OK"}) /\ \E n \in Nat : backlog'.last = 2 * n
  BY <1>2 DEF ConnInv, SpinsOnWriteOnly, Idle
<1>13. QED
  BY <1>10, <1>11, <1>12 DEF ConnInv

\* A slave that reads its master as any client has executed the history in its
\* order, and what is on its way is behind it.
LEMMA SteadyIsClean ==
  ASSUME ConnInv, reader = "readFromClient", watch = "read"
  PROVE  /\ link # "none" /\ replState = "CONNECTED"
         /\ OpsIn(toMaster, {"REPLACK", "OK"}) /\ peer.sync # "SEND_FULLSYNC"
         /\ Clean(Pipe, executed, backlog.last)
<1>1. link # "none"
  BY DEF ConnInv, Phase, NoConnection
<1>2. replState = "CONNECTED" /\ InSync
  BY <1>1
  DEF ConnInv, Phase, Connecting, SendReplconf, SendSync, ReceivingRdb, ReceivingAppendsync, Fresh
<1>3. QED
  BY <1>1, <1>2 DEF InSync

\* A step of the steady state that leaves it clean.
LEMMA SteadyStays ==
  ASSUME ConnInv, link # "none", replState = "CONNECTED", OpsIn(toMaster, {"REPLACK", "OK"}),
         peer.sync # "SEND_FULLSYNC", Idle,
         UNCHANGED <<backlog, peer, toMaster, status, replState>>, link' = Polled,
         Clean(Pipe', executed', backlog.last), OpsIn(writeBuf', {"OK"})
  PROVE  ConnInv'
<1>1. link' # "none" /\ (link' = "up" <=> link = "up")
  BY DEF Polled
<1>2. Phase'
  BY <1>1 DEF Phase, InSync
<1>3. Ended'
  BY <1>1 DEF ConnInv, Ended
<1>4. SpinsOnWriteOnly' /\ \E n \in Nat : backlog'.last = 2 * n
  BY DEF ConnInv, SpinsOnWriteOnly, Idle
<1>5. QED
  BY <1>2, <1>3, <1>4 DEF ConnInv

\* The read handlers of the slave.
LEMMA SlaveReadsConn ==
  ASSUME TypeOK, ConnInv, SlaveReads
  PROVE  ConnInv'
<1>1. CASE RepliRead
  BY <1>1, RepliReadConn
<1>2. CASE RepliReadEnd
  BY <1>2, DiesConn DEF RepliReadEnd
<1>3. PICK a, b, c, l, s : a = readBuf /\ b = toSlave /\ c = peer.writeBuf /\ l = backlog.last /\ s = Pipe
  OBVIOUS
<1>4. /\ a \in Seq(ToSlave) /\ b \in Seq(ToSlave) /\ c \in Seq(ToSlave) /\ s \in Seq(ToSlave)
      /\ s = PipeOf(a, b, c) /\ l \in Nat /\ executed \in Seq(Nat) /\ writeBuf \in Seq(ToMaster)
  BY <1>3, PipeIs DEF TypeOK, BacklogState
<1>5. CASE SlaveExecutes \/ SlaveIgnores
  <2>1. PICK k \in Ends(toSlave) :
          LET buf == readBuf \o SubSeq(toSlave, 1, k) IN
          /\ Receives(k)
          /\ \/ HoldsCommand(buf) /\ executed' = Append(executed, buf[2].n \div 2)
                /\ writeBuf' = Append(writeBuf, Msg("OK"))
             \/ executed' = executed /\ writeBuf' = writeBuf
    BY <1>5 DEF SlaveExecutes, SlaveIgnores, CmdLen
  <2>2. PICK buf, d : buf = readBuf \o SubSeq(toSlave, 1, k) /\ d = Len(a) + k
    OBVIOUS
  <2>3. /\ reader = "readFromClient" /\ watch = "read" /\ Idle /\ link' = Polled
        /\ readBuf' = <<>> /\ toSlave' = Rest(toSlave, k)
        /\ UNCHANGED <<backlog, peer, toMaster, status, replState>>
    BY <1>5, <2>1 DEF SlaveExecutes, SlaveIgnores, Receives, masterVars
  <2>4. k \in 0 .. Len(b) /\ Len(buf) = d /\ buf \in Seq(ToSlave)
    BY <1>3, <2>2, PieceTypes
  <2>5. PICK q : q = PipeOf(<<>>, Rest(b, k), c)
    OBVIOUS
  <2>6. Pipe' = q
    BY <1>3, <2>3, <2>5 DEF Pipe, PipeOf
  <2>7. /\ q \in Seq(ToSlave) /\ Drops(q, s, d)
        /\ \A i \in 1 .. d : i \in 1 .. Len(s) /\ s[i] = buf[i]
    <3>1. buf = a \o SubSeq(b, 1, k) /\ Rest(b, k) \in Seq(ToSlave)
      BY <1>3, <1>4, <2>2, <2>4, RestIs
    <3>2. q \in Seq(ToSlave)
      BY <1>4, <2>5, <3>1, EmptyTypes, PipeParts
    <3>3. Drops(q, s, Len(buf)) /\ Begins(buf, s)
      BY <1>4, <2>4, <2>5, <3>1, PipeTaken
    <3>4. PICK m, n : m = Len(s) /\ n = Len(buf)
      OBVIOUS
    <3>5. m \in Nat /\ n \in Nat /\ n <= m /\ \A i \in 1 .. n : s[i] = buf[i]
      BY <1>4, <2>4, <3>3, <3>4, SeqIs DEF Begins
    <3>6. \A i \in 1 .. n : i \in 1 .. m
      BY <3>5
    <3>7. QED
      BY <2>4, <3>2, <3>3, <3>4, <3>5, <3>6
  <2>8. /\ link # "none" /\ replState = "CONNECTED"
        /\ OpsIn(toMaster, {"REPLACK", "OK"}) /\ peer.sync # "SEND_FULLSYNC"
        /\ Clean(s, executed, l)
    BY <1>3, <2>3, SteadyIsClean
  <2>9. CASE executed' = executed /\ writeBuf' = writeBuf
    <3>1. Clean(q, executed, l)
      BY <1>4, <2>7, <2>8, TakenClean
    <3>2. Clean(Pipe', executed', backlog.last)
      BY <1>3, <2>6, <2>9, <3>1
    <3>3. OpsIn(writeBuf', {"OK"})
      BY <2>9 DEF ConnInv
    <3>4. QED
      BY <2>3, <2>8, <3>2, <3>3, SteadyStays
  <2>10. CASE /\ HoldsCommand(buf) /\ executed' = Append(executed, buf[2].n \div 2)
              /\ writeBuf' = Append(writeBuf, Msg("OK"))
    <3>1. Len(buf) >= 2
      BY <2>4, <2>10, HeldCommand
    <3>2. PICK e \in Nat \ {0} : buf[2] = Byte(2 * e)
      BY <2>4, <2>10, HeldCommand
    <3>3. buf[2].n = 2 * e
      BY <3>2 DEF Byte
    <3>4. buf[2].n \div 2 = e
      BY <3>3
    <3>5. d >= 2 /\ d \in 0 .. Len(s)
      BY <2>4, <2>7, <3>1 DEF Drops
    <3>6. 2 \in 1 .. d
      BY <1>4, <3>5, SeqIs
    <3>7. s[2] = Byte(2 * e)
      BY <2>7, <3>2, <3>6
    <3>8. Clean(q, Append(executed, e), l)
      BY <1>4, <2>7, <2>8, <3>5, <3>7, CleanExecutes
    <3>9. Clean(Pipe', executed', backlog.last)
      BY <1>3, <2>6, <2>10, <3>4, <3>8
    <3>10. OpsIn(writeBuf', {"OK"})
      <4>1. <<Msg("OK")>> \in Seq(ToMaster) /\ Msg("OK").op = "OK" /\ Msg("OK") \in ToMaster
        BY MessagesAre
      <4>2. OpsIn(<<Msg("OK")>>, {"OK"})
        BY <4>1 DEF OpsIn
      <4>3. writeBuf' = writeBuf \o <<Msg("OK")>>
        BY <1>4, <2>10, <4>1, AppendIsConcat
      <4>4. QED
        BY <1>4, <4>1, <4>2, <4>3, OpsJoin DEF ConnInv
    <3>11. QED
      BY <2>3, <2>8, <3>9, <3>10, SteadyStays
  <2>11. QED
    BY <2>1, <2>2, <2>9, <2>10
<1>6. CASE SlaveReadEnd
  <2>1. /\ reader = "readFromClient" /\ watch = "read" /\ Idle /\ link' = Polled
        /\ UNCHANGED <<backlog, peer, toMaster, toSlave, status, replState, readBuf, writeBuf, executed>>
    BY <1>6 DEF SlaveReadEnd, masterVars, slaveData
  <2>2. /\ link # "none" /\ replState = "CONNECTED"
        /\ OpsIn(toMaster, {"REPLACK", "OK"}) /\ peer.sync # "SEND_FULLSYNC"
        /\ Clean(s, executed, l)
    BY <1>3, <2>1, SteadyIsClean
  <2>3. Pipe' = s
    BY <1>3, <2>1 DEF Pipe
  <2>4. OpsIn(writeBuf', {"OK"})
    BY <2>1 DEF ConnInv
  <2>5. QED
    BY <1>3, <2>1, <2>2, <2>3, <2>4, SteadyStays
<1>7. QED
  BY <1>1, <1>2, <1>5, <1>6 DEF SlaveReads

-----------------------------------------------------------------------------
(***************************************************************************)
(* The turns of the read loop.                                             *)
(***************************************************************************)
\* What is behind the first place is the tail.
LEMMA TailIsRest ==
  ASSUME NEW s \in Seq(ToSlave), s # <<>>
  PROVE  Tail(s) = Rest(s, 1) /\ 1 \in 0 .. Len(s)
<1>1. PICK q, r, m : q = Tail(s) /\ r = Rest(s, 1) /\ m = Len(s)
  OBVIOUS
<1>2. q \in Seq(ToSlave) /\ Drops(q, s, 1)
  BY <1>1, TailRests
<1>3. 1 \in 0 .. Len(s)
  BY <1>2 DEF Drops
<1>4. r \in Seq(ToSlave) /\ Drops(r, s, 1)
  BY <1>1, <1>3, RestIs
<1>5. Len(q) = Len(r) /\ \A i \in 1 .. Len(q) : q[i] = r[i]
  BY <1>2, <1>4 DEF Drops
<1>6. q = r
  BY <1>2, <1>4, <1>5, SeqEqual
<1>7. QED
  BY <1>1, <1>3, <1>6

\* A turn takes from the buffer and leaves the rest of the pipe.
LEMMA TurnPipe ==
  ASSUME TypeOK, NEW k \in 0 .. Len(readBuf), Turn(Rest(readBuf, k))
  PROVE  Pipe' \in Seq(ToSlave) /\ Drops(Pipe', Pipe, k)
<1>1. PICK a, b, c : a = readBuf /\ b = toSlave /\ c = peer.writeBuf
  OBVIOUS
<1>2. /\ a \in Seq(ToSlave) /\ b \in Seq(ToSlave) /\ c \in Seq(ToSlave) /\ k \in 0 .. Len(a)
      /\ Pipe = PipeOf(a, b, c)
  BY <1>1, PipeIs
<1>3. readBuf' = Rest(a, k) /\ toSlave' = b /\ peer'.writeBuf = c
  BY <1>1 DEF Turn, masterVars, netVars
<1>4. Pipe' = PipeOf(Rest(a, k), b, c)
  BY <1>3 DEF Pipe, PipeOf
<1>5. QED
  BY <1>2, <1>4, PipeTurn

\* The buffer is the beginning of the pipe.
LEMMA BufferIsFirst ==
  ASSUME TypeOK
  PROVE  /\ Len(readBuf) \in Nat /\ Len(Pipe) \in Nat /\ Len(readBuf) <= Len(Pipe)
         /\ \A i \in 1 .. Len(readBuf) : i \in 1 .. Len(Pipe) /\ Pipe[i] = readBuf[i]
<1>1. PICK a, s, m, n : a = readBuf /\ s = Pipe /\ m = Len(readBuf) /\ n = Len(Pipe)
  OBVIOUS
<1>2. a \in Seq(ToSlave) /\ s \in Seq(ToSlave) /\ Begins(a, s)
  BY <1>1, PipeIs, PipeHead
<1>3. m \in Nat /\ n \in Nat
  BY <1>1, <1>2, SeqIs
<1>4. m <= n /\ \A i \in 1 .. m : s[i] = a[i]
  BY <1>1, <1>2 DEF Begins
<1>5. \A i \in 1 .. m : i \in 1 .. n
  BY <1>3, <1>4
<1>6. QED
  BY <1>1, <1>3, <1>4, <1>5

\* The head of the buffer is the head of the pipe.
LEMMA HeadOfPipe ==
  ASSUME TypeOK, NEW op, HeadIs(readBuf, op)
  PROVE  /\ readBuf # <<>> /\ 1 \in 1 .. Len(readBuf) /\ 1 \in 1 .. Len(Pipe)
         /\ Pipe[1].op = op /\ 1 \in 0 .. Len(readBuf) /\ Tail(readBuf) = Rest(readBuf, 1)
<1>1. readBuf # <<>> /\ readBuf[1].op = op /\ readBuf \in Seq(ToSlave)
  BY TailTypes DEF TypeOK
<1>2. 1 \in 0 .. Len(readBuf) /\ Tail(readBuf) = Rest(readBuf, 1) /\ 1 \in 1 .. Len(readBuf)
  BY <1>1, TailIsRest, SeqIs
<1>3. QED
  BY <1>1, <1>2, BufferIsFirst

\* A slave in its read loop has a connection.
LEMMA ReadingConn ==
  ASSUME ConnInv, reading = TRUE
  PROVE  link # "none"
BY DEF ConnInv, Phase, NoConnection

\* A step of the slave that keeps what belongs to the state it leads to.
LEMMA TurnKeeps ==
  ASSUME ConnInv, link # "none", status = "runs",
         UNCHANGED <<backlog, peer, toMaster, link, status, writeBuf>>,
         \/ replState' = "CONNECTING" /\ Connecting'
         \/ replState' = "SEND_REPLCONF" /\ SendReplconf'
         \/ replState' = "SEND_SYNC" /\ SendSync'
         \/ replState' = "RECEIVE_RDB" /\ ReceivingRdb'
         \/ replState' = "RECEIVE_APPENDSYNC" /\ ReceivingAppendsync'
         \/ replState' = "CONNECTED" /\ InSync'
  PROVE  ConnInv'
<1>1. Phase'
  BY DEF Phase
<1>2. Ended'
  BY DEF ConnInv, Ended
<1>3. SpinsOnWriteOnly' /\ OpsIn(writeBuf', {"OK"}) /\ \E n \in Nat : backlog'.last = 2 * n
  BY DEF ConnInv, SpinsOnWriteOnly
<1>4. QED
  BY <1>1, <1>2, <1>3 DEF ConnInv

\* A reply that is there is the one thing pending; without it nothing is.
LEMMA AwaitsTaken ==
  ASSUME NEW q \in Seq(ToSlave), NEW s \in Seq(ToSlave), Drops(q, s, 1), 1 \in 1 .. Len(s),
         NEW op, NEW replies, s[1].op \in replies, NEW t, NEW event, NEW c,
         Awaits(op, replies, s, t, event, c)
  PROVE  t = <<>> /\ event # "write" /\ NoneOf(q, replies)
<1>1. ~NoneOf(s, replies)
  BY DEF NoneOf
<1>2. QED
  BY <1>1, TakenOps DEF Awaits

\* The next message of the handshake, when no answer to it is there.
LEMMA AwaitsNext ==
  ASSUME NEW q, NEW op, NEW replies, NoneOf(q, replies), NEW c
  PROVE  Awaits(op, replies, q, <<>>, "write", c)
BY EmptyIs DEF Awaits, Once, NoneOf

\* The slave takes +PONG: its write event is what is pending next.
LEMMA PongConn ==
  ASSUME TypeOK, ConnInv, ReceivePong
  PROVE  ConnInv'
<1>1. /\ replState = "CONNECTING" /\ HeadIs(readBuf, "PONG") /\ Turn(Tail(readBuf))
      /\ replState' = "SEND_REPLCONF" /\ WriteRegistered /\ UNCHANGED slaveData
  BY DEF ReceivePong
<1>2. /\ UNCHANGED <<backlog, peer, toMaster, link, status, writeBuf, reader, executed>>
      /\ watch' = "write" /\ writer' = "repliWriteHandler" /\ status = "runs" /\ reading
  BY <1>1 DEF Turn, masterVars, netVars, slaveData, WriteRegistered
<1>3. PICK s, q, l : s = Pipe /\ q = Pipe' /\ l = backlog.last
  OBVIOUS
<1>4. 1 \in 1 .. Len(s) /\ s[1].op = "PONG" /\ 1 \in 0 .. Len(readBuf) /\ Tail(readBuf) = Rest(readBuf, 1)
  BY <1>1, <1>3, HeadOfPipe
<1>5. q \in Seq(ToSlave) /\ s \in Seq(ToSlave) /\ Drops(q, s, 1)
  BY <1>1, <1>3, <1>4, TurnPipe, PipeIs
<1>6. link # "none"
  BY <1>2, ReadingConn
<1>7. Connecting
  BY <1>1, <1>6 DEF ConnInv, Phase
<1>8. toMaster = <<>> /\ NoneOf(q, {"PONG"})
  BY <1>3, <1>4, <1>5, <1>7, AwaitsTaken DEF Connecting
<1>9. OpsIn(q, {"PONG"})
  BY <1>3, <1>5, <1>7, TakenOps DEF Connecting
<1>10. \A i \in 1 .. Len(q) : FALSE
  BY <1>8, <1>9 DEF OpsIn, NoneOf
<1>11. NoneOf(q, {"OK"}) /\ OpsIn(q, {"OK", "BYTE"}) /\ Rising(q, 0, l)
  BY <1>10 DEF NoneOf, OpsIn, Rising
<1>12. Awaits("REPLCONF", {"OK"}, q, <<>>, "write", link)
  BY <1>11, AwaitsNext
<1>13. SendReplconf'
  BY <1>2, <1>3, <1>7, <1>8, <1>11, <1>12 DEF SendReplconf, Connecting, Fresh
<1>14. QED
  BY <1>1, <1>2, <1>6, <1>13, TurnKeeps

\* The slave takes the +OK to REPLCONF: its write event, for SYNC, is next.
LEMMA ReplconfOkConn ==
  ASSUME TypeOK, ConnInv, ReceiveReplconfOk
  PROVE  ConnInv'
<1>1. /\ replState = "SEND_REPLCONF" /\ HeadIs(readBuf, "OK") /\ Turn(Tail(readBuf))
      /\ replState' = "SEND_SYNC" /\ WriteRegistered /\ UNCHANGED slaveData
  BY DEF ReceiveReplconfOk
<1>2. /\ UNCHANGED <<backlog, peer, toMaster, link, status, writeBuf, reader, executed>>
      /\ watch' = "write" /\ writer' = "repliWriteHandler" /\ status = "runs" /\ reading
  BY <1>1 DEF Turn, masterVars, netVars, slaveData, WriteRegistered
<1>3. PICK s, q, l : s = Pipe /\ q = Pipe' /\ l = backlog.last
  OBVIOUS
<1>4. 1 \in 1 .. Len(s) /\ s[1].op = "OK" /\ 1 \in 0 .. Len(readBuf) /\ Tail(readBuf) = Rest(readBuf, 1)
  BY <1>1, <1>3, HeadOfPipe
<1>5. q \in Seq(ToSlave) /\ s \in Seq(ToSlave) /\ Drops(q, s, 1)
  BY <1>1, <1>3, <1>4, TurnPipe, PipeIs
<1>6. link # "none"
  BY <1>2, ReadingConn
<1>7. SendReplconf
  BY <1>1, <1>6 DEF ConnInv, Phase
<1>8. toMaster = <<>> /\ NoneOf(q, {"OK"})
  BY <1>3, <1>4, <1>5, <1>7, AwaitsTaken DEF SendReplconf
<1>9. OpsIn(q, {"OK", "BYTE"})
  BY <1>3, <1>5, <1>7, TakenOps DEF SendReplconf
<1>10. Rising(q, 0, l)
  <2>1. 0 \in Nat /\ 0 <= 1
    OBVIOUS
  <2>2. QED
    BY <1>3, <1>5, <1>7, <2>1, TakenOrder DEF SendReplconf
<1>11. \A i \in 1 .. Len(q) : q[i].op = "BYTE"
  BY <1>8, <1>9 DEF OpsIn, NoneOf
<1>12. /\ NoneOf(q, {"FULLSYNC", "APPENDSYNC"})
       /\ OpsIn(q, {"FULLSYNC", "APPENDSYNC", "LEN", "RDB", "BYTE"})
  BY <1>11 DEF NoneOf, OpsIn
<1>13. Framed(q, link) /\ Answered(q, l, link)
  BY <1>10, <1>11 DEF Framed, Once, Answered
<1>14. Awaits("SYNC", {"FULLSYNC", "APPENDSYNC"}, q, <<>>, "write", link)
  BY <1>12, AwaitsNext
<1>15. SendSync'
  BY <1>2, <1>3, <1>7, <1>8, <1>12, <1>13, <1>14 DEF SendSync, SendReplconf, Fresh
<1>16. QED
  BY <1>1, <1>2, <1>6, <1>15, TurnKeeps

\* The answer to SYNC is taken from the pipe; what is behind it belongs to it.
LEMMA SyncAnswerConn ==
  ASSUME TypeOK, ConnInv, ReceiveSyncAnswer
  PROVE  ConnInv'
<1> DEFINE Answers == {"FULLSYNC", "APPENDSYNC"}
<1>1. PICK op \in Answers :
        /\ replState = "SEND_SYNC" /\ HeadIs(readBuf, op) /\ Turn(Tail(readBuf))
        /\ replState' = (IF op = "FULLSYNC" THEN "RECEIVE_RDB" ELSE "RECEIVE_APPENDSYNC")
        /\ EventsUnchanged /\ UNCHANGED slaveData
  <2>1. CASE HeadIs(readBuf, "FULLSYNC") /\ replState' = "RECEIVE_RDB"
    BY <2>1 DEF ReceiveSyncAnswer
  <2>2. CASE HeadIs(readBuf, "APPENDSYNC") /\ replState' = "RECEIVE_APPENDSYNC"
    BY <2>2 DEF ReceiveSyncAnswer
  <2>3. QED
    BY <2>1, <2>2 DEF ReceiveSyncAnswer
<1>2. /\ UNCHANGED <<backlog, peer, toMaster, link, status, writeBuf, reader, writer, watch, executed>>
      /\ status = "runs" /\ reading
  BY <1>1 DEF Turn, masterVars, netVars, slaveData, EventsUnchanged
<1>3. PICK a, b, c, s, q, l : /\ a = readBuf /\ b = toSlave /\ c = peer.writeBuf
                              /\ s = Pipe /\ q = Pipe' /\ l = backlog.last
  OBVIOUS
<1>4. /\ 1 \in 1 .. Len(s) /\ s[1].op = op /\ 1 \in 0 .. Len(a) /\ 1 \in 1 .. Len(a)
      /\ Tail(readBuf) = Rest(readBuf, 1)
  BY <1>1, <1>3, HeadOfPipe
<1>5. q \in Seq(ToSlave) /\ s \in Seq(ToSlave) /\ Drops(q, s, 1)
  BY <1>1, <1>3, <1>4, TurnPipe, PipeIs
<1>6. link # "none"
  BY <1>2, ReadingConn
<1>7. SendSync
  BY <1>1, <1>6 DEF ConnInv, Phase
<1>8. toMaster = <<>> /\ watch # "write" /\ NoneOf(q, Answers)
  BY <1>3, <1>4, <1>5, <1>7, AwaitsTaken DEF SendSync
<1>9. /\ OpsIn(s, {"FULLSYNC", "APPENDSYNC", "LEN", "RDB", "BYTE"}) /\ Framed(s, link)
      /\ Answered(s, l, link) /\ Once(s, Answers)
  BY <1>3, <1>7 DEF SendSync, Awaits
<1>10. peer.sync # "SEND_FULLSYNC"
  <2>1. SUFFICES ASSUME peer.sync = "SEND_FULLSYNC" PROVE FALSE
    OBVIOUS
  <2>2. PICK j \in 1 .. Len(c) : c[j].op = "FULLSYNC"
    BY <1>3, <1>7, <2>1 DEF SendSync, NoneOf
  <2>3. a \in Seq(ToSlave) /\ b \in Seq(ToSlave) /\ c \in Seq(ToSlave) /\ s = PipeOf(a, b, c)
    BY <1>3, PipeIs
  <2>4. PICK d : d = b \o c
    OBVIOUS
  <2>5. d \in Seq(ToSlave) /\ Joined(s, a, d) /\ Joined(d, b, c)
    BY <2>3, <2>4, PipeParts
  <2>6. PICK p, m, n \in Nat : Halves(s, a, d, p, m, n)
    BY <1>5, <2>3, <2>5, Places
  <2>7. PICK p2, m2, n2 \in Nat : Halves(d, b, c, p2, m2, n2)
    BY <2>3, <2>5, Places
  <2>8. m2 + j \in 1 .. n /\ d[m2 + j] = c[j]
    BY <2>6, <2>7 DEF Halves
  <2>9. m + (m2 + j) \in 1 .. p /\ s[m + (m2 + j)] = c[j]
    BY <2>6, <2>8 DEF Halves
  <2>10. m >= 1 /\ p = Len(s)
    BY <1>4, <2>6 DEF Halves
  <2>11. m + (m2 + j) # 1
    BY <2>10
  <2>12. s[m + (m2 + j)].op \in Answers /\ s[1].op \in Answers
    BY <1>4, <2>2, <2>9
  <2>13. QED
    BY <1>4, <1>9, <2>9, <2>10, <2>11, <2>12 DEF Once
<1>11. OpsIn(q, {"FULLSYNC", "APPENDSYNC", "LEN", "RDB", "BYTE"})
  BY <1>5, <1>9, TakenOps
<1>12. CASE op = "FULLSYNC"
  <2>1. OpsIn(q, {"LEN", "RDB", "BYTE"})
    BY <1>8, <1>11 DEF OpsIn, NoneOf
  <2>2. Framed(q, link)
    BY <1>4, <1>5, <1>9, <1>12, TakenFramed
  <2>3. Rising(s, 0, l)
    BY <1>4, <1>9, <1>12 DEF Answered, NoneOf
  <2>4. Rising(q, 0, l)
    <3>1. 0 \in Nat /\ 0 <= 1
      OBVIOUS
    <3>2. QED
      BY <1>5, <2>3, <3>1, TakenOrder
  <2>5. ReceivingRdb'
    BY <1>2, <1>3, <1>7, <1>8, <1>10, <2>1, <2>2, <2>4 DEF ReceivingRdb, SendSync, Fresh
  <2>6. QED
    BY <1>1, <1>2, <1>6, <1>12, <2>5, TurnKeeps
<1>13. CASE op = "APPENDSYNC"
  <2>1. /\ \A i \in 1 .. Len(s) : i > 1 => s[i].op = "BYTE"
        /\ Rising(s, 1, l) \/ (l >= Size /\ Blocked(s, 1, link))
    BY <1>4, <1>9, <1>13 DEF Answered
  <2>2. OpsIn(q, {"BYTE"})
    <3>1. PICK p, m \in Nat : TakenTo(q, s, 1, p, m)
      BY <1>5, TakenPlaces
    <3>2. /\ p = Len(q) /\ m = Len(s)
          /\ \A i \in 1 .. p : i + 1 \in 1 .. m /\ q[i] = s[i + 1]
      BY <3>1 DEF TakenTo
    <3>3. \A i \in 1 .. p : i + 1 > 1
      OBVIOUS
    <3>4. QED
      BY <2>1, <3>2, <3>3 DEF OpsIn
  <2>3. Rising(q, 0, l) \/ (l >= Size /\ Blocked(q, 0, link))
    <3>1. 1 \in Nat /\ 1 <= 1 /\ \A i \in 1 .. 1 : i > 1 => s[i] # Byte(0)
      OBVIOUS
    <3>2. Rising(s, 1, l) => Rising(q, 0, l)
      BY <1>5, <3>1, TakenOrder
    <3>3. Blocked(s, 1, link) => Blocked(q, 0, link)
      BY <1>5, <3>1, TakenOrder
    <3>4. QED
      BY <2>1, <3>2, <3>3
  <2>4. ReceivingAppendsync'
    BY <1>2, <1>3, <1>7, <1>8, <1>10, <2>2, <2>3 DEF ReceivingAppendsync, SendSync, Fresh
  <2>5. QED
    BY <1>1, <1>2, <1>6, <1>13, <2>4, TurnKeeps
<1>14. QED
  BY <1>12, <1>13

\* What doAppendSync executes is in order when the bytes are.
LEMMA LeadingIsClean ==
  ASSUME NEW q \in Seq(ToSlave), NEW s \in Seq(ToSlave), NEW m \in Nat, Drops(q, s, 2 * m),
         NEW l \in Nat, OpsIn(s, {"BYTE"}), Rising(s, 0, l),
         NEW x \in Seq(Nat), Len(x) = m, \A i \in 1 .. m : s[2 * i] = Byte(2 * x[i])
  PROVE  Clean(q, x, l)
<1>1. PICK p, n \in Nat : TakenTo(q, s, 2 * m, p, n)
  BY TakenPlaces
<1>2. /\ p = Len(q) /\ n = Len(s) /\ 2 * m \in 0 .. n
      /\ \A i \in 1 .. p : i + 2 * m \in 1 .. n /\ q[i] = s[i + 2 * m]
  BY <1>1 DEF TakenTo
<1>3. \A i \in 1 .. m : 2 * i \in 1 .. n
  BY <1>2
<1>4. \A i \in 1 .. n : s[i].op = "BYTE"
  BY <1>2 DEF OpsIn
<1>5. \A i \in 1 .. n : s[i].n <= l /\ \A j \in 1 .. n : j > i => s[i].n < s[j].n
  BY <1>2, <1>4 DEF Rising
<1>6. \A i \in 1 .. m : x[i] \in Nat /\ s[2 * i].n = 2 * x[i]
  <2>1. \A i \in 1 .. m : x[i] \in Nat
    BY SeqIs
  <2>2. \A e : Byte(e).n = e
    BY DEF Byte
  <2>3. \A i \in 1 .. m : s[2 * i].n = 2 * x[i]
    BY <2>2
  <2>4. QED
    BY <2>1, <2>3
<1>7. Ordered(x)
  <2>1. ASSUME NEW i \in 1 .. m, NEW j \in 1 .. m, i < j PROVE x[i] < x[j]
    <3>1. 2 * i \in 1 .. n /\ 2 * j \in 1 .. n /\ 2 * j > 2 * i
      BY <1>3, <2>1
    <3>2. s[2 * i].n < s[2 * j].n
      BY <1>5, <3>1
    <3>3. 2 * x[i] < 2 * x[j]
      BY <1>6, <3>2
    <3>4. x[i] \in Nat /\ x[j] \in Nat
      BY <1>6
    <3>5. QED
      BY <3>3, <3>4
  <2>2. DOMAIN x = 1 .. m
    BY SeqIs
  <2>3. QED
    BY <2>1, <2>2 DEF Ordered
<1>8. ASSUME NEW i \in 1 .. m
      PROVE  2 * x[i] <= l /\ \A j \in 1 .. p : q[j].op = "BYTE" => 2 * x[i] < q[j].n
  <2>1. 2 * i \in 1 .. n /\ s[2 * i].n = 2 * x[i]
    BY <1>3, <1>6
  <2>2. s[2 * i].n <= l /\ \A j \in 1 .. n : j > 2 * i => s[2 * i].n < s[j].n
    BY <1>5, <2>1
  <2>3. ASSUME NEW j \in 1 .. p PROVE 2 * x[i] < q[j].n
    <3>1. j + 2 * m \in 1 .. n /\ j + 2 * m > 2 * i /\ q[j] = s[j + 2 * m]
      BY <1>2
    <3>2. QED
      BY <2>1, <2>2, <3>1
  <2>4. QED
    BY <2>1, <2>2, <2>3
<1>9. OpsIn(q, {"OK", "BYTE"})
  <2>1. OpsIn(s, {"OK", "BYTE"})
    BY DEF OpsIn
  <2>2. QED
    BY <2>1, TakenOps
<1>10. Rising(q, 0, l)
  <2>1. 0 \in Nat /\ 0 <= 2 * m
    OBVIOUS
  <2>2. QED
    BY <2>1, TakenOrder
<1>11. QED
  BY <1>2, <1>7, <1>8, <1>9, <1>10 DEF Clean

\* doAppendSync ends the handshake.
LEMMA AppendsyncConn ==
  ASSUME TypeOK, ConnInv, ReceiveAppendsync
  PROVE  ConnInv'
<1>1. PICK m, f, k : /\ m = Leading(readBuf) /\ f = [i \in 1 .. m |-> (readBuf[2 * i].n) \div 2]
                     /\ k = 2 * m
  OBVIOUS
<1>2. /\ replState = "RECEIVE_APPENDSYNC" /\ replState' = "CONNECTED" /\ EventsUnchanged
      /\ executed' = executed \o f /\ Turn(Rest(readBuf, k))
  BY <1>1 DEF ReceiveAppendsync, doAppendSync, CmdLen
<1>3. /\ UNCHANGED <<backlog, peer, toMaster, link, status, writeBuf, reader, writer, watch>>
      /\ status = "runs" /\ reading
  BY <1>2 DEF Turn, masterVars, netVars, EventsUnchanged
<1>4. PICK s, q, l : s = Pipe /\ q = Pipe' /\ l = backlog.last
  OBVIOUS
<1>5. /\ m \in Nat /\ k \in 0 .. Len(readBuf)
      /\ \A i \in 1 .. m : \E c \in Nat \ {0} :
           readBuf[2 * i - 1] = Byte(2 * c - 1) /\ readBuf[2 * i] = Byte(2 * c)
  BY <1>1, LeadingIs DEF TypeOK
<1>6. q \in Seq(ToSlave) /\ s \in Seq(ToSlave) /\ Drops(q, s, k) /\ l \in Nat
  BY <1>2, <1>4, <1>5, TurnPipe, PipeIs DEF TypeOK, BacklogState
<1>7. link # "none"
  BY <1>3, ReadingConn
<1>8. ReceivingAppendsync
  BY <1>2, <1>7 DEF ConnInv, Phase
<1>9. /\ Len(readBuf) \in Nat
      /\ \A i \in 1 .. Len(readBuf) : i \in 1 .. Len(s) /\ s[i] = readBuf[i]
  BY <1>4, BufferIsFirst
<1>10. ASSUME NEW i \in 1 .. m
       PROVE  \E c \in Nat \ {0} : /\ s[2 * i - 1] = Byte(2 * c - 1) /\ s[2 * i] = Byte(2 * c)
                                   /\ f[i] = c
  <2>1. PICK c \in Nat \ {0} : readBuf[2 * i - 1] = Byte(2 * c - 1) /\ readBuf[2 * i] = Byte(2 * c)
    BY <1>5
  <2>2. 2 * i - 1 \in 1 .. Len(readBuf) /\ 2 * i \in 1 .. Len(readBuf)
    BY <1>1, <1>5, <1>9
  <2>3. s[2 * i - 1] = Byte(2 * c - 1) /\ s[2 * i] = Byte(2 * c)
    BY <1>9, <2>1, <2>2
  <2>4. f[i] = (readBuf[2 * i].n) \div 2
    BY <1>1
  <2>5. readBuf[2 * i].n = 2 * c
    BY <2>1 DEF Byte
  <2>6. f[i] = c
    BY <2>4, <2>5
  <2>7. QED
    BY <2>3, <2>6
<1>11. f \in Seq(Nat) /\ Len(f) = m
  <2>1. \A i \in 1 .. m : f[i] \in Nat
    BY <1>10
  <2>2. m \in Nat
    BY <1>5
  <2>3. f \in [1 .. m -> Nat]
    BY <1>1, <2>1
  <2>4. f \in Seq(Nat)
    BY <2>2, <2>3, SeqDef
  <2>5. DOMAIN f = 1 .. m
    BY <2>3
  <2>6. QED
    BY <2>2, <2>4, <2>5, LenProperties
<1>12. executed' = f
  BY <1>2, <1>8, <1>11, ConcatEmptySeq DEF ReceivingAppendsync, Fresh
<1>13. toMaster = <<>> /\ peer.sync # "SEND_FULLSYNC" /\ reader = "repliReadHandler"
  BY <1>8 DEF ReceivingAppendsync, Fresh
<1>14. Clean(q, f, l) \/ (Blocked(q, 0, link) /\ l >= Size)
  <2>1. CASE Rising(s, 0, l)
    <3>1. OpsIn(s, {"BYTE"}) /\ Drops(q, s, 2 * m)
      BY <1>1, <1>4, <1>6, <1>8 DEF ReceivingAppendsync
    <3>2. \A i \in 1 .. m : s[2 * i] = Byte(2 * f[i])
      BY <1>10
    <3>3. QED
      BY <1>5, <1>6, <1>11, <2>1, <3>1, <3>2, LeadingIsClean
  <2>2. CASE l >= Size /\ Blocked(s, 0, link)
    <3>1. ASSUME NEW j \in 1 .. k PROVE s[j] # Byte(0)
      <4>1. PICK i \in 1 .. m : j = 2 * i - 1 \/ j = 2 * i
        <5>1. j = 2 * ((j + 1) \div 2) \/ j = 2 * ((j + 1) \div 2) - 1
          OBVIOUS
        <5>2. (j + 1) \div 2 \in 1 .. m
          BY <1>1, <1>5
        <5>3. QED
          BY <5>1, <5>2
      <4>2. PICK c \in Nat \ {0} : s[2 * i - 1] = Byte(2 * c - 1) /\ s[2 * i] = Byte(2 * c)
        BY <1>10
      <4>3. 2 * c # 0 /\ 2 * c - 1 # 0
        OBVIOUS
      <4>4. \A e : Byte(e).n = e
        BY DEF Byte
      <4>5. QED
        BY <4>1, <4>2, <4>3, <4>4
    <3>2. 0 \in Nat /\ 0 <= k
      BY <1>5
    <3>3. Blocked(q, 0, link)
      BY <1>6, <2>2, <3>1, <3>2, TakenOrder
    <3>4. QED
      BY <2>2, <3>3
  <2>3. QED
    BY <1>4, <1>8, <2>1, <2>2 DEF ReceivingAppendsync
<1>15. OpsIn(toMaster, {"REPLACK", "OK"})
  BY <1>13, EmptyIs
<1>16. InSync'
  BY <1>3, <1>4, <1>12, <1>13, <1>14, <1>15 DEF InSync
<1>17. QED
  BY <1>2, <1>3, <1>7, <1>16, TurnKeeps

\* The snapshot is taken from the pipe; what is behind it is in order.
LEMMA RdbConn ==
  ASSUME TypeOK, ConnInv, ReceiveRdb
  PROVE  ConnInv'
<1>1. /\ replState = "RECEIVE_RDB" /\ HeadIs(readBuf, "LEN") /\ Len(readBuf) > 1
      /\ Turn(Rest(readBuf, 2)) /\ replState' = "CONNECTED"
      /\ WriteRegistered /\ UNCHANGED executed
  BY DEF ReceiveRdb
<1>2. /\ UNCHANGED <<backlog, peer, toMaster, link, status, writeBuf, reader, executed>>
      /\ status = "runs" /\ reading
  BY <1>1 DEF Turn, masterVars, netVars, WriteRegistered
<1>3. PICK s, q, l : s = Pipe /\ q = Pipe' /\ l = backlog.last
  OBVIOUS
<1>4. 1 \in 1 .. Len(s) /\ s[1].op = "LEN" /\ 2 \in 0 .. Len(readBuf) /\ Len(s) >= 2
  <2>1. 1 \in 1 .. Len(s) /\ s[1].op = "LEN"
    BY <1>1, <1>3, HeadOfPipe
  <2>2. Len(readBuf) \in Nat /\ Len(s) \in Nat /\ Len(readBuf) <= Len(s)
    BY <1>3, BufferIsFirst
  <2>3. QED
    BY <1>1, <2>1, <2>2
<1>5. q \in Seq(ToSlave) /\ s \in Seq(ToSlave) /\ Drops(q, s, 2)
  BY <1>1, <1>3, <1>4, TurnPipe, PipeIs
<1>6. link # "none"
  BY <1>2, ReadingConn
<1>7. ReceivingRdb
  BY <1>1, <1>6 DEF ConnInv, Phase
<1>8. OpsIn(s, {"LEN", "RDB", "BYTE"}) /\ Framed(s, link) /\ Rising(s, 0, l)
  BY <1>3, <1>7 DEF ReceivingRdb
<1>9. /\ toMaster = <<>> /\ peer.sync # "SEND_FULLSYNC" /\ executed = <<>>
  BY <1>7 DEF ReceivingRdb, Fresh
<1>10. NoneOf(q, {"LEN"}) /\ OpsIn(q, {"LEN", "RDB", "BYTE"})
  <2>1. Once(s, {"LEN"}) /\ 2 >= 1 /\ s[1].op \in {"LEN"}
    BY <1>4, <1>8 DEF Framed
  <2>2. QED
    BY <1>5, <1>8, <2>1, TakenOps
<1>11. OpsIn(q, {"OK", "BYTE"})
  <2>1. PICK p, n \in Nat : TakenTo(q, s, 2, p, n)
    BY <1>5, TakenPlaces
  <2>2. p = Len(q) /\ n = Len(s) /\ \A i \in 1 .. p : i + 2 \in 1 .. n /\ q[i] = s[i + 2]
    BY <2>1 DEF TakenTo
  <2>3. ASSUME NEW j \in 1 .. p, q[j].op = "RDB" PROVE FALSE
    <3>1. PICK i : i = j + 2
      OBVIOUS
    <3>2. i \in 1 .. n /\ s[i].op = "RDB"
      BY <2>2, <2>3, <3>1
    <3>3. s[i - 1].op = "LEN"
      BY <1>8, <2>2, <3>2 DEF Framed
    <3>4. i - 1 \in 1 .. n /\ i - 1 # 1
      BY <3>1, <3>2
    <3>5. \A a, b \in 1 .. n : s[a].op = "LEN" /\ s[b].op = "LEN" => a = b
      BY <1>8, <2>2 DEF Framed, Once
    <3>6. 1 \in 1 .. n
      BY <1>4, <2>2
    <3>7. QED
      BY <1>4, <3>3, <3>4, <3>5, <3>6
  <2>4. QED
    BY <1>10, <2>2, <2>3 DEF OpsIn, NoneOf
<1>12. Rising(q, 0, l)
  <2>1. 0 \in Nat /\ 0 <= 2
    OBVIOUS
  <2>2. QED
    BY <1>5, <1>8, <2>1, TakenOrder
<1>13. Clean(q, <<>>, l)
  BY <1>11, <1>12, EmptyIs DEF Clean, Ordered
<1>14. OpsIn(toMaster, {"REPLACK", "OK"})
  BY <1>9, EmptyIs
<1>15. InSync'
  BY <1>2, <1>3, <1>9, <1>13, <1>14 DEF InSync
<1>16. QED
  BY <1>1, <1>2, <1>6, <1>15, TurnKeeps

\* A command that is cut within stays at the head of the pipe.
LEMMA MangledConn ==
  ASSUME TypeOK, ConnInv, ReceiveRdbMangled
  PROVE  ConnInv'
<1>1. /\ replState = "RECEIVE_RDB" /\ HeadIs(readBuf, "BYTE")
      /\ Turn(<<Byte(0)>> \o Tail(readBuf)) /\ replState' = "CONNECTED"
      /\ WriteRegistered /\ UNCHANGED executed
  BY DEF ReceiveRdbMangled
<1>2. /\ UNCHANGED <<backlog, peer, toMaster, toSlave, link, status, writeBuf, reader, executed>>
      /\ status = "runs" /\ reading
  BY <1>1 DEF Turn, masterVars, netVars, WriteRegistered
<1>3. PICK z, t, e : z = <<Byte(0)>> /\ t = Tail(readBuf) /\ e = z \o t
  OBVIOUS
<1>4. Byte(0) \in ToSlave /\ Byte(0).op = "BYTE"
  BY MessagesAre
<1>5. z \in Seq(ToSlave) /\ Len(z) = 1 /\ z[1] = Byte(0)
  BY <1>3, <1>4
<1>6. t \in Seq(ToSlave)
  BY <1>1, <1>3, TailTypes
<1>7. e \in Seq(ToSlave) /\ Joined(e, z, t)
  BY <1>3, <1>5, <1>6, JoinedIs
<1>8. e[1] = Byte(0) /\ 1 \in 1 .. Len(e)
  <2>1. PICK p, m, n \in Nat : Halves(e, z, t, p, m, n)
    BY <1>5, <1>6, <1>7, Places
  <2>2. m = 1 /\ p = Len(e) /\ \A i \in 1 .. m : i \in 1 .. p /\ e[i] = z[i]
    BY <1>5, <2>1 DEF Halves
  <2>3. QED
    BY <1>5, <2>2
<1>9. PICK q : q = Pipe'
  OBVIOUS
<1>10. readBuf' = e
  BY <1>1, <1>3 DEF Turn
<1>11. q = PipeOf(e, toSlave, peer.writeBuf)
  BY <1>2, <1>9, <1>10 DEF Pipe, PipeOf
<1>12. q \in Seq(ToSlave) /\ Begins(e, q)
  BY <1>7, <1>11, PipeIs, PipeParts, PipeHead
<1>13. q[1] = Byte(0) /\ 1 \in 1 .. Len(q)
  <2>1. PICK m, n : m = Len(e) /\ n = Len(q)
    OBVIOUS
  <2>2. m \in Nat /\ n \in Nat /\ m <= n /\ \A i \in 1 .. m : q[i] = e[i]
    BY <1>7, <1>12, <2>1, SeqIs DEF Begins
  <2>3. QED
    BY <1>8, <2>1, <2>2
<1>14. Blocked(q, 0, link)
  <2>1. ASSUME NEW j \in 1 .. Len(q), q[j].op # "BYTE" PROVE 1 < j
    BY <1>4, <1>13, <2>1
  <2>2. QED
    BY <1>13, <2>1 DEF Blocked
<1>15. link # "none"
  BY <1>2, ReadingConn
<1>16. ReceivingRdb
  BY <1>1, <1>15 DEF ConnInv, Phase
<1>17. toMaster = <<>> /\ peer.sync # "SEND_FULLSYNC" /\ executed = <<>> /\ reader = "repliReadHandler"
  BY <1>16 DEF ReceivingRdb, Fresh
<1>18. OpsIn(toMaster, {"REPLACK", "OK"})
  BY <1>17, EmptyIs
<1>19. InSync'
  BY <1>2, <1>9, <1>14, <1>17, <1>18 DEF InSync
<1>20. QED
  BY <1>1, <1>2, <1>15, <1>19, TurnKeeps

\* The slave that finds the answer to its heartbeat has got past everything else.
LEMMA ReceiveOkConn ==
  ASSUME TypeOK, ConnInv, ReceiveOk
  PROVE  ConnInv'
<1>1. /\ replState = "CONNECTED" /\ HeadIs(readBuf, "OK") /\ Turn(Tail(readBuf))
      /\ replState' = replState /\ UNCHANGED slaveData
  BY DEF ReceiveOk
<1>2. /\ UNCHANGED <<backlog, peer, toMaster, link, status, writeBuf, executed>>
      /\ status = "runs" /\ reading
  BY <1>1 DEF Turn, masterVars, netVars, slaveData
<1>3. PICK s, q, l : s = Pipe /\ q = Pipe' /\ l = backlog.last
  OBVIOUS
<1>4. 1 \in 1 .. Len(s) /\ s[1].op = "OK" /\ 1 \in 0 .. Len(readBuf) /\ Tail(readBuf) = Rest(readBuf, 1)
  BY <1>1, <1>3, HeadOfPipe
<1>5. q \in Seq(ToSlave) /\ s \in Seq(ToSlave) /\ Drops(q, s, 1)
  BY <1>1, <1>3, <1>4, TurnPipe, PipeIs
<1>6. link # "none"
  BY <1>2, ReadingConn
<1>7. InSync
  BY <1>1, <1>6 DEF ConnInv, Phase
<1>8. ~Blocked(s, 0, link)
  <2>1. ~\E i \in 1 .. Len(s) : 0 < i /\ i < 1 /\ s[i] = Byte(0)
    OBVIOUS
  <2>2. QED
    BY <1>4, <2>1 DEF Blocked
<1>9. Clean(q, executed, l)
  <2>1. Clean(s, executed, l)
    BY <1>3, <1>7, <1>8 DEF InSync
  <2>2. QED
    BY <1>5, <2>1, TakenClean
<1>10. InSync'
  BY <1>2, <1>3, <1>7, <1>9 DEF InSync
<1>11. QED
  BY <1>1, <1>2, <1>6, <1>10, TurnKeeps

\* At a response of the protocol the loop goes on: only a byte is in the way.
LEMMA NothingAwaitedConn ==
  ASSUME TypeOK, ConnInv, NothingAwaited
  PROVE  ConnInv'
<1>1. /\ status = "runs" /\ reading /\ Unawaited
      /\ UNCHANGED <<masterVars, netVars, replState, slaveConn, slaveData>>
      /\ status' = status \/ (status' = "spins" /\ TRUE \in Parses(readBuf))
  BY DEF NothingAwaited
<1>2. UNCHANGED <<backlog, peer, toMaster, toSlave, link, replState, readBuf, writeBuf,
                  reader, writer, watch, executed>>
  BY <1>1 DEF masterVars, netVars, slaveConn, slaveData
<1>3. link # "none"
  BY <1>1, ReadingConn
<1>4. Pipe' = Pipe
  BY <1>2 DEF Pipe
<1>5. Phase'
  BY <1>2, <1>3, <1>4
  DEF ConnInv, Phase, Connecting, SendReplconf, SendSync, ReceivingRdb, ReceivingAppendsync, InSync, Fresh
<1>6. ASSUME TRUE \in Parses(readBuf) PROVE HeadIs(readBuf, "BYTE")
  <2>1. readBuf # <<>>
    BY <1>6 DEF Parses
  <2>2. PICK op : op = Head(readBuf).op
    OBVIOUS
  <2>3. HeadIs(readBuf, op)
    BY <2>1, <2>2 DEF HeadIs
  <2>4. PICK s, l : s = Pipe /\ l = backlog.last
    OBVIOUS
  <2>5. 1 \in 1 .. Len(s) /\ s[1].op = op
    BY <2>3, <2>4, HeadOfPipe
  <2>6. ~\E i \in 1 .. Len(s) : i < 1
    OBVIOUS
  <2>7. \A ops : OpsIn(s, ops) => op \in ops
    BY <2>5 DEF OpsIn
  <2>8. CASE replState = "CONNECTING" /\ Connecting
    BY <1>1, <2>3, <2>4, <2>7, <2>8 DEF Connecting, Unawaited
  <2>9. CASE replState = "SEND_REPLCONF" /\ SendReplconf
    <3>1. op \in {"OK", "BYTE"}
      BY <2>4, <2>7, <2>9 DEF SendReplconf
    <3>2. QED
      BY <1>1, <2>3, <2>9, <3>1 DEF Unawaited
  <2>10. CASE replState = "SEND_SYNC" /\ SendSync
    <3>1. op \in {"FULLSYNC", "APPENDSYNC", "LEN", "RDB", "BYTE"}
      BY <2>4, <2>7, <2>10 DEF SendSync
    <3>2. op # "LEN"
      <4>1. Answered(s, l, link)
        BY <2>4, <2>10 DEF SendSync
      <4>2. QED
        BY <2>5, <2>6, <4>1 DEF Answered
    <3>3. op # "RDB"
      <4>1. Framed(s, link)
        BY <2>4, <2>10 DEF SendSync
      <4>2. QED
        BY <2>5, <4>1 DEF Framed
    <3>4. QED
      BY <1>1, <2>3, <2>10, <3>1, <3>2, <3>3 DEF Unawaited
  <2>11. CASE replState = "CONNECTED" /\ InSync
    <3>1. CASE Clean(s, executed, l)
      <4>1. op \in {"OK", "BYTE"}
        BY <2>7, <3>1 DEF Clean
      <4>2. QED
        BY <1>1, <2>3, <2>11, <4>1 DEF Unawaited
    <3>2. CASE Blocked(s, 0, link)
      <4>1. op = "BYTE"
        BY <2>5, <2>6, <3>2 DEF Blocked
      <4>2. QED
        BY <2>3, <4>1
    <3>3. QED
      BY <2>4, <2>11, <3>1, <3>2 DEF InSync
  <2>12. QED
    BY <1>1, <1>3, <2>8, <2>9, <2>10, <2>11 DEF ConnInv, Phase, Unawaited
<1>7. SpinsOnWriteOnly'
  <2>1. HeadIs(readBuf, "BYTE") => HeadIs(readBuf, "BYTE")'
    BY <1>2 DEF HeadIs
  <2>2. QED
    BY <1>1, <1>6, <2>1 DEF SpinsOnWriteOnly
<1>8. QED
  BY <1>2, <1>5, <1>7 DEF ConnInv, Ended

\* The turns of the read loop.
LEMMA LoopTurnConn ==
  ASSUME TypeOK, ConnInv, LoopTurn
  PROVE  ConnInv'
<1>1. CASE ReceiveRdbPart
  BY <1>1, DiesConn DEF ReceiveRdbPart
<1>2. QED
  BY <1>1, PongConn, ReplconfOkConn, SyncAnswerConn, AppendsyncConn, RdbConn, MangledConn,
     ReceiveOkConn, NothingAwaitedConn DEF LoopTurn

-----------------------------------------------------------------------------
(***************************************************************************)
(* The invariant of a connection holds, and what follows from it.          *)
(***************************************************************************)
\* The handlers of the master for what its slave sends.
LEMMA MasterConn ==
  ASSUME TypeOK, ConnInv, RingHoldsTail, Master
  PROVE  ConnInv'
BY PingConn, ReplconfConn, AckConn, OkConn, SyncConn, SendsConn DEF Master

\* The slave has connected, and has its write event to send PING with.
LEMMA InitConn ==
  ASSUME Init
  PROVE  ConnInv
<1>1. /\ peer = NewPeer /\ toSlave = <<>> /\ toMaster = <<>> /\ readBuf = <<>>
      /\ writeBuf = <<>> /\ executed = <<>> /\ link = "up" /\ status = "runs"
      /\ replState = "CONNECTING" /\ watch = "write"
      /\ reader = "repliReadHandler" /\ writer = "repliWriteHandler"
  BY DEF Init
<1>2. NewPeer.writeBuf = <<>> /\ NewPeer.sync = "NONE" /\ ~NewPeer.slave
  BY DEF NewPeer
<1>3. Pipe = <<>>
  BY <1>1, <1>2, EmptyIs DEF Pipe, PipeOf
<1>4. Awaits("PING", {"PONG"}, <<>>, <<>>, "write", "up")
  BY EmptyIs DEF Awaits
<1>5. Connecting
  BY <1>1, <1>2, <1>3, <1>4, EmptyIs DEF Connecting, Fresh
<1>6. \E q \in Nat : backlog.last = 2 * q
  <2>1. 0 \in Nat /\ 0 = 2 * 0
    OBVIOUS
  <2>2. backlog.last = 0
    BY DEF Init, EmptyBacklog
  <2>3. QED
    BY <2>1, <2>2
<1>7. OpsIn(writeBuf, {"OK"})
  BY <1>1, EmptyIs
<1>8. Ended /\ Phase /\ SpinsOnWriteOnly
  BY <1>1, <1>5 DEF Ended, Phase, SpinsOnWriteOnly
<1>9. QED
  BY <1>6, <1>7, <1>8 DEF ConnInv

\* Nothing of it is about a variable that is not of the module.
LEMMA StutterConn ==
  ASSUME ConnInv, UNCHANGED vars
  PROVE  ConnInv'
<1>1. /\ UNCHANGED <<backlog, peer, toSlave, toMaster, link, status, reading, replState>>
      /\ UNCHANGED <<readBuf, writeBuf, reader, writer, watch, executed>>
  BY DEF vars, masterVars, netVars, slaveConn, slaveData
<1>2. Pipe' = Pipe
  BY <1>1 DEF Pipe
<1>3. Fresh' = Fresh
  BY <1>1 DEF Fresh
<1>4. Connecting' = Connecting /\ SendReplconf' = SendReplconf /\ SendSync' = SendSync
  BY <1>1, <1>2, <1>3 DEF Connecting, SendReplconf, SendSync
<1>5. /\ ReceivingRdb' = ReceivingRdb /\ ReceivingAppendsync' = ReceivingAppendsync
      /\ InSync' = InSync /\ NoConnection' = NoConnection
  BY <1>1, <1>2, <1>3 DEF ReceivingRdb, ReceivingAppendsync, InSync, NoConnection
<1>6. Phase' = Phase
  BY <1>1, <1>4, <1>5 DEF Phase
<1>7. Ended' = Ended /\ SpinsOnWriteOnly' = SpinsOnWriteOnly
  BY <1>1 DEF Ended, SpinsOnWriteOnly
<1>8. QED
  BY <1>1, <1>6, <1>7 DEF ConnInv

\* Whatever the two processes and the network do, and in whatever order.
LEMMA ConnStep ==
  ASSUME TypeOK, RingHoldsTail, ConnInv, [Next]_vars
  PROVE  ConnInv'
<1>1. CASE MasterWrite
  BY <1>1, MasterWriteConn
<1>2. CASE Master
  BY <1>2, MasterConn
<1>3. CASE masterCheckSlave \/ LinkBreaks
  BY <1>3, EndConn DEF masterCheckSlave, LinkBreaks
<1>4. CASE LoopTurn
  BY <1>4, LoopTurnConn
<1>5. CASE SlaveReads
  BY <1>5, SlaveReadsConn
<1>6. CASE SlaveWrites
  BY <1>6, SlaveWritesConn
<1>7. CASE SlaveCron \/ MasterTimeout
  BY <1>7, CronConn
<1>8. CASE Restart
  BY <1>8, RestartConn
<1>9. CASE UNCHANGED vars
  BY <1>9, StutterConn
<1>10. QED
  BY <1>1, <1>2, <1>3, <1>4, <1>5, <1>6, <1>7, <1>8, <1>9 DEF Next

\* The invariant of a connection, for every size of the ring, any number of
\* writes, of lost connections and of heartbeats under way.
THEOREM ConnectionInvariant == Spec => [](TypeOK /\ ConnInv)
<1>1. Init => ConnInv
  BY InitConn
<1>2. TypeOK /\ RingHoldsTail /\ ConnInv /\ [Next]_vars => ConnInv'
  BY ConnStep
<1>3. QED
  BY <1>1, <1>2, ReplicationTypeCorrect, RingKeepsTail, PTL DEF Spec

\* An empty list of commands is in order.
LEMMA EmptyOrdered == Ordered(<<>>)
BY DEF Ordered

\* Commands that the slave executes on a connection come in the order of the
\* master's history, none twice: with what was merged, lost or sent again from
\* the backlog, in the steady state always, and before it unless the ring has
\* gone round.
THEOREM ReplicationInOrder == Spec => []InOrder
<1>1. TypeOK /\ ConnInv => InOrder
  <2> SUFFICES ASSUME TypeOK, ConnInv PROVE InOrder
    OBVIOUS
  <2>1. CASE executed = <<>>
    BY <2>1, EmptyOrdered DEF InOrder
  <2>2. CASE executed # <<>>
    <3>1. replState = "CONNECTED" /\ InSync
      BY <2>2 DEF ConnInv, Phase, NoConnection, Connecting, SendReplconf, SendSync,
           ReceivingRdb, ReceivingAppendsync, Fresh
    <3>2. CASE Clean(Pipe, executed, backlog.last)
      BY <3>2 DEF Clean, InOrder
    <3>3. CASE ~Clean(Pipe, executed, backlog.last)
      <4>1. reader = "repliReadHandler" /\ backlog.last >= Size
        BY <2>2, <3>1, <3>3 DEF InSync
      <4>2. backlog.last \in Nat /\ Size \in Nat
        BY SizeAssumption DEF TypeOK, BacklogState
      <4>3. ~(backlog.last < Size)
        BY <4>1, <4>2
      <4>4. QED
        BY <4>1, <4>3 DEF InOrder
    <3>4. QED
      BY <3>2, <3>3
  <2>3. QED
    BY <2>1, <2>2
<1>2. QED
  BY <1>1, ConnectionInvariant, PTL

\* The read loop of the slave, once it spins, does so over a byte of a propagated
\* command, and never over +PONG, +OK, an answer to SYNC or a snapshot.
THEOREM ReplicationSpinsOnWriteOnly == Spec => []SpinsOnWriteOnly
<1>1. ConnInv => SpinsOnWriteOnly
  BY DEF ConnInv
<1>2. QED
  BY <1>1, ConnectionInvariant, PTL

\* A set any two members of which are the same has one at most.
LEMMA AtMostOne ==
  ASSUME NEW S, \A x, y \in S : x = y
  PROVE  Cardinality(S) <= 1
<1>1. CASE S = {}
  BY <1>1, FS_EmptySet
<1>2. CASE S # {}
  <2>1. PICK x \in S : TRUE
    BY <1>2
  <2>2. S = {x}
    BY <2>1
  <2>3. QED
    BY <2>2, FS_Singleton
<1>3. QED
  BY <1>1, <1>2

\* What Awaits says of the pipe and of what goes to the master, as the one thing
\* that is pending.
LEMMA PendingOne ==
  ASSUME TypeOK, NEW op, NEW replies,
         Awaits(op, replies, Pipe, toMaster, watch, link)
  PROVE  /\ Cardinality(Pending(op, replies)) <= 1
         /\ link = "up" => Pending(op, replies) # {}
<1> DEFINE Sent  == {i \in DOMAIN toMaster : toMaster[i].op = op}
           Come  == {i \in DOMAIN Pipe : Pipe[i].op \in replies}
           Event == IF watch = "write" THEN {<<"event", 0>>} ELSE {}
<1>1. PICK s, t : s = Pipe /\ t = toMaster
  OBVIOUS
<1>2. s \in Seq(ToSlave) /\ t \in Seq(ToMaster)
  BY <1>1, PipeIs DEF TypeOK
<1>3. DOMAIN s = 1 .. Len(s) /\ DOMAIN t = 1 .. Len(t) /\ Len(s) \in Nat /\ Len(t) \in Nat
  BY <1>2, LenProperties
<1>4. Pending(op, replies) = Event \cup ({"sent"} \X Sent) \cup ({"reply"} \X Come)
  BY DEF Pending
<1>5. Awaits(op, replies, s, t, watch, link)
  BY <1>1
<1>6. CASE watch = "write"
  <2>1. Len(t) = 0 /\ NoneOf(s, replies)
    BY <1>5, <1>6, EmptyIs DEF Awaits
  <2>2. Sent = {}
    BY <1>1, <1>3, <2>1
  <2>3. Come = {}
    BY <1>1, <1>3, <2>1 DEF NoneOf
  <2>4. Pending(op, replies) = {<<"event", 0>>}
    BY <1>4, <1>6, <2>2, <2>3
  <2>5. QED
    BY <2>4, AtMostOne
<1>7. CASE watch # "write" /\ t # <<>>
  <2>1. Len(t) = 1 /\ t[1].op = op /\ NoneOf(s, replies)
    <3>1. Len(t) # 0
      BY <1>2, <1>7, EmptySeq
    <3>2. Len(t) = 1
      BY <1>3, <1>5, <3>1 DEF Awaits
    <3>3. t[1].op \in {op}
      BY <1>5, <3>2 DEF Awaits, OpsIn
    <3>4. QED
      BY <1>5, <1>7, <3>2, <3>3 DEF Awaits
  <2>2. Sent = {1}
    BY <1>1, <1>3, <2>1
  <2>3. Come = {}
    BY <1>1, <1>3, <2>1 DEF NoneOf
  <2>4. Pending(op, replies) = {<<"sent", 1>>}
    BY <1>4, <1>7, <2>2, <2>3
  <2>5. QED
    BY <2>4, AtMostOne
<1>8. CASE watch # "write" /\ t = <<>>
  <2>1. Len(t) = 0
    BY <1>8, EmptyIs
  <2>2. Sent = {}
    BY <1>1, <1>3, <2>1
  <2>3. \A i, j \in Come : i = j
    BY <1>1, <1>3, <1>5 DEF Awaits, Once
  <2>4. Pending(op, replies) = {"reply"} \X Come
    BY <1>4, <1>8, <2>2
  <2>5. \A x, y \in Pending(op, replies) : x = y
    BY <2>3, <2>4
  <2>6. link = "up" => Come # {}
    BY <1>1, <1>3, <1>5, <1>8 DEF Awaits, NoneOf
  <2>7. link = "up" => Pending(op, replies) # {}
    <3>1. SUFFICES ASSUME link = "up" PROVE Pending(op, replies) # {}
      OBVIOUS
    <3>2. PICK i \in Come : TRUE
      BY <2>6, <3>1
    <3>3. <<"reply", i>> \in {"reply"} \X Come
      BY <3>2
    <3>4. QED
      BY <2>4, <3>3
  <2>8. QED
    BY <2>5, <2>7, AtMostOne
<1>9. QED
  BY <1>6, <1>7, <1>8

\* The handshake is never under way twice, so that no second PING, REPLCONF or
\* SYNC meets a state that does not wait for its answer; and on a connection that
\* stands it is never lost, so that there is always something to go on from.
THEOREM ReplicationHandshakeToken == Spec => []HandshakeToken
<1>1. TypeOK /\ ConnInv => HandshakeToken
  <2> SUFFICES ASSUME TypeOK, ConnInv PROVE HandshakeToken
    OBVIOUS
  <2>1. link # "none" /\ replState = "CONNECTING" =>
          Awaits("PING", {"PONG"}, Pipe, toMaster, watch, link)
    BY DEF ConnInv, Phase, Connecting
  <2>2. link # "none" /\ replState = "SEND_REPLCONF" =>
          Awaits("REPLCONF", {"OK"}, Pipe, toMaster, watch, link)
    BY DEF ConnInv, Phase, SendReplconf
  <2>3. link # "none" /\ replState = "SEND_SYNC" =>
          Awaits("SYNC", {"FULLSYNC", "APPENDSYNC"}, Pipe, toMaster, watch, link)
    BY DEF ConnInv, Phase, SendSync
  <2> DEFINE Steps == {<<"CONNECTING", "PING", {"PONG"}>>,
                       <<"SEND_REPLCONF", "REPLCONF", {"OK"}>>,
                       <<"SEND_SYNC", "SYNC", {"FULLSYNC", "APPENDSYNC"}>>}
  <2>4. SUFFICES ASSUME NEW step \in Steps, link # "none", replState = step[1]
                 PROVE  /\ Cardinality(Pending(step[2], step[3])) <= 1
                        /\ link = "up" => Pending(step[2], step[3]) # {}
    BY DEF HandshakeToken
  <2>5. PICK st, op, replies : step = <<st, op, replies>>
    BY <2>4
  <2>6. st = step[1] /\ op = step[2] /\ replies = step[3]
    BY <2>5
  <2>7. Awaits(op, replies, Pipe, toMaster, watch, link)
    BY <2>1, <2>2, <2>3, <2>4, <2>6
  <2>8. QED
    BY <2>6, <2>7, PendingOne
<1>2. QED
  BY <1>1, ConnectionInvariant, PTL
-----------------------------------------------------------------------------
(***************************************************************************)
(* The stream of a connection has no gap.                                  *)
(***************************************************************************)
\* Byte n of the history is on its way to the slave, or in a command that it has
\* executed; from the first such byte on all of the first l are.
InBytes(n, s)    == \E i \in 1 .. Len(s) : s[i] = Byte(n)
InCommands(n, x) == \E i \in 1 .. Len(x) : n = 2 * x[i] - 1 \/ n = 2 * x[i]
Held(n, s, x)    == InBytes(n, s) \/ InCommands(n, x)

Closed(s, x, l) ==
  \A n \in Nat : Held(n, s, x) => n \in 1 .. l /\ (n # l => Held(n + 1, s, x))

\* The second byte of a command follows its first, or +APPENDSYNC, or nothing.
Paired(s) ==
  \A c \in Nat \ {0} : \A i \in 1 .. Len(s) :
    s[i] = Byte(2 * c) /\ i # 1 => s[i - 1] = Byte(2 * c - 1) \/ s[i - 1].op = "APPENDSYNC"

\* No command begins in front of s, and none at the end of a goes on in b.
StartsWhole(s) == s # <<>> => \A c \in Nat \ {0} : s[1] # Byte(2 * c)
Unsplit(a, b) ==
  a # <<>> /\ b # <<>> => \A c \in Nat \ {0} : b[1] = Byte(2 * c) => a[Len(a)] # Byte(2 * c - 1)

\* The read loop can never get past its buffer.
Stuck ==
  /\ reader = "repliReadHandler"
  /\ \/ /\ replState = "SEND_SYNC"
        /\ \E j \in 1 .. Len(Pipe) : Pipe[j].op = "APPENDSYNC" /\ (j # 1 \/ Blocked(Pipe, j, "up"))
     \/ replState # "SEND_SYNC" /\ Blocked(Pipe, 0, "up")

Whole ==
  /\ Closed(Pipe, executed, backlog.last) /\ Paired(Pipe)
  /\ Unsplit(readBuf, toSlave)
  /\ reader = "readFromClient" => StartsWhole(toSlave)

Gapless ==
  link = "up" =>
    /\ StartsWhole(peer.writeBuf)
    /\ ~peer.slave => NoneOf(Pipe, {"BYTE"}) /\ executed = <<>>
    /\ replState = "SEND_REPLCONF" /\ ~NoneOf(Pipe, {"OK"}) => peer.slave
    /\ replState \notin {"CONNECTING", "SEND_REPLCONF"} => peer.slave
    /\ ~merged => Whole \/ Stuck

\* A byte is known by its number.
LEMMA ByteIs ==
  /\ \A a : Byte(a).op = "BYTE" /\ Byte(a).n = a
  /\ \A a, b : Byte(a) = Byte(b) => a = b
<1>1. \A a : Byte(a).op = "BYTE" /\ Byte(a).n = a
  BY DEF Byte
<1>2. ASSUME NEW a, NEW b, Byte(a) = Byte(b) PROVE a = b
  BY <1>1, <1>2
<1>3. QED
  BY <1>1, <1>2

\* Two pipes that hold the same bytes, executed commands included.
LEMMA SameClosed ==
  ASSUME NEW s, NEW x, NEW q, NEW y, NEW l, \A n \in Nat : Held(n, q, y) <=> Held(n, s, x),
         Closed(s, x, l)
  PROVE  Closed(q, y, l)
<1>1. \A n \in Nat : n + 1 \in Nat
  OBVIOUS
<1>2. QED
  BY <1>1 DEF Closed

\* Words of the protocol behind a pipe.
LEMMA WordsJoin ==
  ASSUME NEW q \in Seq(ToSlave), NEW s \in Seq(ToSlave), NEW t \in Seq(ToSlave), Joined(q, s, t),
         NoneOf(t, {"BYTE"})
  PROVE  /\ \A x, l : Closed(s, x, l) => Closed(q, x, l)
         /\ Paired(s) => Paired(q)
<1>0. PICK p, m, n \in Nat : Halves(q, s, t, p, m, n)
  BY Places
<1>1. p = Len(q) /\ m = Len(s) /\ n = Len(t)
  BY <1>0 DEF Halves
<1>2. /\ \A i \in 1 .. m : i \in 1 .. p /\ q[i] = s[i]
      /\ \A i \in 1 .. p :
              \/ i \in 1 .. m /\ q[i] = s[i]
              \/ i - m \in 1 .. n /\ q[i] = t[i - m] /\ i > m
  BY <1>0 DEF Halves
<1>3. \A k : \A i \in 1 .. n : t[i] # Byte(k)
  BY <1>1, ByteIs DEF NoneOf
<1>4. \A k : \A i \in 1 .. p : q[i] = Byte(k) => i \in 1 .. m /\ q[i] = s[i]
  BY <1>2, <1>3
<1>5. \A k : InBytes(k, q) <=> InBytes(k, s)
  BY <1>1, <1>2, <1>4 DEF InBytes
<1>6. ASSUME NEW x, NEW l, Closed(s, x, l) PROVE Closed(q, x, l)
  <2>1. \A k \in Nat : Held(k, q, x) <=> Held(k, s, x)
    BY <1>5 DEF Held
  <2>2. QED
    BY <1>6, <2>1, SameClosed
<1>7. ASSUME Paired(s) PROVE Paired(q)
  <2>1. ASSUME NEW c \in Nat \ {0}, NEW i \in 1 .. p, q[i] = Byte(2 * c), i # 1
        PROVE  q[i - 1] = Byte(2 * c - 1) \/ q[i - 1].op = "APPENDSYNC"
    <3>1. i \in 1 .. m /\ s[i] = Byte(2 * c)
      BY <1>4, <2>1
    <3>2. s[i - 1] = Byte(2 * c - 1) \/ s[i - 1].op = "APPENDSYNC"
      BY <1>1, <1>7, <2>1, <3>1 DEF Paired
    <3>3. i - 1 \in 1 .. m
      BY <2>1, <3>1
    <3>4. QED
      BY <1>2, <3>2, <3>3
  <2>2. QED
    BY <1>1, <2>1 DEF Paired
<1>8. QED
  BY <1>6, <1>7

\* The next command of the history behind a pipe.
LEMMA CommandJoins ==
  ASSUME NEW q \in Seq(ToSlave), NEW s \in Seq(ToSlave), NEW t \in Seq(ToSlave), Joined(q, s, t),
         NEW c \in Nat, t = Command(c + 1)
  PROVE  /\ \A x : Closed(s, x, 2 * c) => Closed(q, x, 2 * c + 2)
         /\ Paired(s) => Paired(q)
         /\ StartsWhole(t)
<1>0. PICK p, m, n \in Nat : Halves(q, s, t, p, m, n)
  BY Places
<1>1. p = Len(q) /\ m = Len(s) /\ n = Len(t)
  BY <1>0 DEF Halves
<1>2. /\ m \in Nat /\ p = m + n
      /\ \A i \in 1 .. m : i \in 1 .. p /\ q[i] = s[i]
      /\ \A j \in 1 .. n : m + j \in 1 .. p /\ q[m + j] = t[j]
      /\ \A i \in 1 .. p :
              \/ i \in 1 .. m /\ q[i] = s[i]
              \/ i - m \in 1 .. n /\ q[i] = t[i - m] /\ i > m
  BY <1>0 DEF Halves
<1>3. n = 2 /\ t[1] = Byte(2 * c + 1) /\ t[2] = Byte(2 * c + 2)
  <2>1. PICK d \in Nat \ {0} : d = c + 1
    OBVIOUS
  <2>2. n = 2 /\ t[1] = Byte(2 * d - 1) /\ t[2] = Byte(2 * d)
    BY <1>1, <2>1, CommandIs
  <2>3. 2 * d - 1 = 2 * c + 1 /\ 2 * d = 2 * c + 2
    BY <2>1
  <2>4. QED
    BY <2>2, <2>3
<1>4. m + 1 \in 1 .. p /\ m + 2 \in 1 .. p /\ q[m + 1] = Byte(2 * c + 1) /\ q[m + 2] = Byte(2 * c + 2)
  BY <1>2, <1>3
<1>5. \A i \in 1 .. p : (i \in 1 .. m /\ q[i] = s[i]) \/ i = m + 1 \/ i = m + 2
  BY <1>2, <1>3
<1>6. ASSUME NEW k
      PROVE  InBytes(k, q) <=> InBytes(k, s) \/ k = 2 * c + 1 \/ k = 2 * c + 2
  <2>1. InBytes(k, s) => InBytes(k, q)
    BY <1>1, <1>2 DEF InBytes
  <2>2. k = 2 * c + 1 \/ k = 2 * c + 2 => InBytes(k, q)
    BY <1>1, <1>4 DEF InBytes
  <2>3. ASSUME InBytes(k, q) PROVE InBytes(k, s) \/ k = 2 * c + 1 \/ k = 2 * c + 2
    <3>1. PICK i \in 1 .. p : q[i] = Byte(k)
      BY <1>1, <2>3 DEF InBytes
    <3>2. CASE i \in 1 .. m /\ q[i] = s[i]
      BY <1>1, <3>1, <3>2 DEF InBytes
    <3>3. CASE i = m + 1
      BY <1>4, <3>1, <3>3, ByteIs
    <3>4. CASE i = m + 2
      BY <1>4, <3>1, <3>4, ByteIs
    <3>5. QED
      BY <1>5, <3>2, <3>3, <3>4
  <2>4. QED
    BY <2>1, <2>2, <2>3
<1>7. ASSUME NEW x, Closed(s, x, 2 * c) PROVE Closed(q, x, 2 * c + 2)
  <2>1. ASSUME NEW k \in Nat, Held(k, q, x)
        PROVE  k \in 1 .. 2 * c + 2 /\ (k # 2 * c + 2 => Held(k + 1, q, x))
    <3>1. CASE Held(k, s, x)
      <4>1. k \in 1 .. 2 * c /\ (k # 2 * c => Held(k + 1, s, x))
        BY <1>7, <3>1 DEF Closed
      <4>2. CASE k # 2 * c
        BY <1>6, <4>1, <4>2 DEF Held
      <4>3. CASE k = 2 * c
        <5>1. k + 1 = 2 * c + 1
          BY <4>3
        <5>2. Held(k + 1, q, x)
          BY <1>6, <5>1 DEF Held
        <5>3. QED
          BY <4>1, <5>2
      <4>4. QED
        BY <4>2, <4>3
    <3>2. CASE k = 2 * c + 1
      <4>1. k + 1 = 2 * c + 2
        BY <3>2
      <4>2. Held(k + 1, q, x)
        BY <1>6, <4>1 DEF Held
      <4>3. QED
        BY <3>2, <4>2
    <3>3. CASE k = 2 * c + 2
      BY <3>3
    <3>4. QED
      BY <1>6, <2>1, <3>1, <3>2, <3>3 DEF Held
  <2>2. QED
    BY <2>1 DEF Closed
<1>8. ASSUME Paired(s) PROVE Paired(q)
  <2>1. ASSUME NEW d \in Nat \ {0}, NEW i \in 1 .. p, q[i] = Byte(2 * d), i # 1
        PROVE  q[i - 1] = Byte(2 * d - 1) \/ q[i - 1].op = "APPENDSYNC"
    <3>1. CASE i \in 1 .. m /\ q[i] = s[i]
      <4>1. s[i - 1] = Byte(2 * d - 1) \/ s[i - 1].op = "APPENDSYNC"
        BY <1>1, <1>8, <2>1, <3>1 DEF Paired
      <4>2. i - 1 \in 1 .. m
        BY <2>1, <3>1
      <4>3. QED
        BY <1>2, <4>1, <4>2
    <3>2. CASE i = m + 1
      <4>1. 2 * d = 2 * c + 1
        BY <1>4, <2>1, <3>2, ByteIs
      <4>2. QED
        BY <4>1
    <3>3. CASE i = m + 2
      <4>1. 2 * d = 2 * c + 2
        BY <1>4, <2>1, <3>3, ByteIs
      <4>2. i - 1 = m + 1 /\ 2 * d - 1 = 2 * c + 1
        BY <1>2, <3>3, <4>1
      <4>3. QED
        BY <1>4, <4>2
    <3>4. QED
      BY <1>5, <3>1, <3>2, <3>3
  <2>2. QED
    BY <1>1, <2>1 DEF Paired
<1>9. StartsWhole(t)
  <2>1. ASSUME NEW d \in Nat \ {0}, t[1] = Byte(2 * d) PROVE FALSE
    <3>1. 2 * d = 2 * c + 1
      BY <1>3, <2>1, ByteIs
    <3>2. QED
      BY <3>1
  <2>2. QED
    BY <2>1 DEF StartsWhole
<1>10. QED
  BY <1>7, <1>8, <1>9

\* What is left of a pipe: its commands are still whole.
LEMMA PairedTaken ==
  ASSUME NEW q \in Seq(ToSlave), NEW s \in Seq(ToSlave), NEW k, Drops(q, s, k), Paired(s)
  PROVE  Paired(q)
<1>0. PICK p, m \in Nat : TakenTo(q, s, k, p, m)
  BY TakenPlaces
<1>1. p = Len(q) /\ m = Len(s) /\ k \in 0 .. m /\ \A i \in 1 .. p : i + k \in 1 .. m /\ q[i] = s[i + k]
  BY <1>0 DEF TakenTo
<1>2. ASSUME NEW c \in Nat \ {0}, NEW i \in 1 .. p, q[i] = Byte(2 * c), i # 1
      PROVE  q[i - 1] = Byte(2 * c - 1) \/ q[i - 1].op = "APPENDSYNC"
  <2>1. PICK j : j = i + k
    OBVIOUS
  <2>2. j \in 1 .. m /\ j # 1 /\ s[j] = Byte(2 * c)
    BY <1>1, <1>2, <2>1
  <2>3. s[j - 1] = Byte(2 * c - 1) \/ s[j - 1].op = "APPENDSYNC"
    BY <1>1, <2>2 DEF Paired
  <2>4. i - 1 \in 1 .. p /\ j - 1 = (i - 1) + k
    BY <1>1, <1>2, <2>1
  <2>5. q[i - 1] = s[j - 1]
    BY <1>1, <2>4
  <2>6. QED
    BY <2>3, <2>5
<1>3. QED
  BY <1>1, <1>2 DEF Paired

\* Words of the protocol taken from a pipe.
LEMMA WordsTaken ==
  ASSUME NEW q \in Seq(ToSlave), NEW s \in Seq(ToSlave), NEW k, Drops(q, s, k),
         \A i \in 1 .. k : s[i].op # "BYTE", NEW x, NEW l, Closed(s, x, l)
  PROVE  Closed(q, x, l)
<1>0. PICK p, m \in Nat : TakenTo(q, s, k, p, m)
  BY TakenPlaces
<1>1. /\ p = Len(q) /\ m = Len(s) /\ k \in 0 .. m
      /\ \A i \in 1 .. p : i + k \in 1 .. m /\ q[i] = s[i + k]
      /\ \A i \in 1 .. m : i > k => i - k \in 1 .. p /\ q[i - k] = s[i]
  BY <1>0 DEF TakenTo
<1>2. ASSUME NEW n PROVE InBytes(n, q) <=> InBytes(n, s)
  <2>1. InBytes(n, q) => InBytes(n, s)
    BY <1>1 DEF InBytes
  <2>2. ASSUME NEW i \in 1 .. m, s[i] = Byte(n) PROVE InBytes(n, q)
    <3>1. s[i].op = "BYTE"
      BY <2>2, ByteIs
    <3>2. i > k
      BY <1>1, <3>1
    <3>3. QED
      BY <1>1, <2>2, <3>2 DEF InBytes
  <2>3. QED
    BY <1>1, <2>1, <2>2 DEF InBytes
<1>3. \A n \in Nat : Held(n, q, x) <=> Held(n, s, x)
  BY <1>2 DEF Held
<1>4. QED
  BY <1>3, SameClosed

\* The commands at the head of a pipe, taken from it and executed.
LEMMA CommandsTaken ==
  ASSUME NEW q \in Seq(ToSlave), NEW s \in Seq(ToSlave), NEW m \in Nat, Drops(q, s, 2 * m),
         NEW y \in Seq(Nat), Len(y) = m,
         \A i \in 1 .. m : s[2 * i - 1] = Byte(2 * y[i] - 1) /\ s[2 * i] = Byte(2 * y[i]),
         NEW n
  PROVE  InBytes(n, s) <=> InBytes(n, q) \/ InCommands(n, y)
<1>0. PICK p, r \in Nat : TakenTo(q, s, 2 * m, p, r)
  BY TakenPlaces
<1>1. /\ p = Len(q) /\ r = Len(s) /\ 2 * m \in 0 .. r
      /\ \A i \in 1 .. p : i + 2 * m \in 1 .. r /\ q[i] = s[i + 2 * m]
      /\ \A i \in 1 .. r : i > 2 * m => i - 2 * m \in 1 .. p /\ q[i - 2 * m] = s[i]
  BY <1>0 DEF TakenTo
<1>2. InBytes(n, q) => InBytes(n, s)
  BY <1>1 DEF InBytes
<1>3. ASSUME NEW i \in 1 .. m, n = 2 * y[i] - 1 \/ n = 2 * y[i] PROVE InBytes(n, s)
  <2>1. 2 * i - 1 \in 1 .. r /\ 2 * i \in 1 .. r
    BY <1>1
  <2>2. QED
    BY <1>1, <1>3, <2>1 DEF InBytes
<1>4. ASSUME NEW j \in 1 .. r, s[j] = Byte(n) PROVE InBytes(n, q) \/ InCommands(n, y)
  <2>1. CASE j > 2 * m
    BY <1>1, <1>4, <2>1 DEF InBytes
  <2>2. CASE ~(j > 2 * m)
    <3>1. \E i \in 1 .. m : j = 2 * i - 1 \/ j = 2 * i
      <4>1. CASE j % 2 = 0
        <5>1. j \div 2 \in 1 .. m /\ j = 2 * (j \div 2)
          BY <2>2, <4>1
        <5>2. QED
          BY <5>1
      <4>2. CASE j % 2 = 1
        <5>1. PICK e : e = j \div 2
          OBVIOUS
        <5>2. e \in Nat /\ j = 2 * e + 1
          BY <4>2, <5>1
        <5>3. e + 1 \in 1 .. m /\ j = 2 * (e + 1) - 1
          BY <2>2, <5>2
        <5>4. QED
          BY <5>3
      <4>3. j % 2 = 0 \/ j % 2 = 1
        OBVIOUS
      <4>4. QED
        BY <4>1, <4>2, <4>3
    <3>2. PICK i \in 1 .. m : j = 2 * i - 1 \/ j = 2 * i
      BY <3>1
    <3>3. s[j] = Byte(2 * y[i] - 1) \/ s[j] = Byte(2 * y[i])
      BY <3>2
    <3>4. n = 2 * y[i] - 1 \/ n = 2 * y[i]
      BY <1>4, <3>3, ByteIs
    <3>5. QED
      BY <3>4 DEF InCommands
  <2>3. QED
    BY <1>1, <2>1, <2>2
<1>5. QED
  BY <1>1, <1>2, <1>3, <1>4 DEF InBytes, InCommands

\* readFromClient executes the command at the head of the pipe.
LEMMA CommandTaken ==
  ASSUME NEW q \in Seq(ToSlave), NEW s \in Seq(ToSlave), Drops(q, s, 2), NEW c \in Nat,
         s[1] = Byte(2 * c - 1), s[2] = Byte(2 * c),
         NEW x \in Seq(Nat), NEW l, Closed(s, x, l)
  PROVE  Closed(q, Append(x, c), l)
<1>1. PICK y, z, m : y = <<c>> /\ m = 1 /\ z = Append(x, c)
  OBVIOUS
<1>2. y \in Seq(Nat) /\ Len(y) = m /\ y[1] = c /\ m \in Nat /\ 2 * m = 2
  BY <1>1
<1>3. \A i \in 1 .. m : s[2 * i - 1] = Byte(2 * y[i] - 1) /\ s[2 * i] = Byte(2 * y[i])
  <2>1. \A i \in 1 .. m : i = 1
    BY <1>1
  <2>2. QED
    BY <1>2, <2>1
<1>4. Drops(q, s, 2 * m)
  BY <1>2
<1>5. \A n : InBytes(n, s) <=> InBytes(n, q) \/ InCommands(n, y)
  BY <1>2, <1>3, <1>4, CommandsTaken
<1>6. PICK r : r = Len(x)
  OBVIOUS
<1>7. r \in Nat /\ Len(z) = r + 1 /\ z[r + 1] = c /\ \A i \in 1 .. r : z[i] = x[i]
  <2>1. r \in Nat
    BY <1>6, SeqIs
  <2>2. QED
    BY <1>1, <1>6, <2>1, AppendProperties
<1>8. ASSUME NEW n PROVE InCommands(n, z) <=> InCommands(n, x) \/ InCommands(n, y)
  <2>1. InCommands(n, y) <=> n = 2 * c - 1 \/ n = 2 * c
    <3>1. 1 \in 1 .. 1 /\ \A i \in 1 .. 1 : i = 1
      OBVIOUS
    <3>2. QED
      BY <1>1, <1>2, <3>1 DEF InCommands
  <2>2. InCommands(n, x) => InCommands(n, z)
    BY <1>6, <1>7 DEF InCommands
  <2>3. n = 2 * c - 1 \/ n = 2 * c => InCommands(n, z)
    <3>1. r + 1 \in 1 .. r + 1
      BY <1>7
    <3>2. QED
      BY <1>7, <3>1 DEF InCommands
  <2>4. ASSUME InCommands(n, z) PROVE InCommands(n, x) \/ n = 2 * c - 1 \/ n = 2 * c
    <3>1. PICK i \in 1 .. r + 1 : n = 2 * z[i] - 1 \/ n = 2 * z[i]
      BY <1>7, <2>4 DEF InCommands
    <3>2. CASE i \in 1 .. r
      BY <1>6, <1>7, <3>1, <3>2 DEF InCommands
    <3>3. CASE i = r + 1
      BY <1>7, <3>1, <3>3
    <3>4. QED
      BY <1>7, <3>2, <3>3
  <2>5. QED
    BY <2>1, <2>2, <2>3, <2>4
<1>9. \A n \in Nat : Held(n, q, z) <=> Held(n, s, x)
  BY <1>5, <1>8 DEF Held
<1>10. Closed(q, z, l)
  BY <1>9, SameClosed
<1>11. QED
  BY <1>1, <1>10

\* What SYNC is answered with from the backlog: all up to the end of the history,
\* or a read past the ring.
LEMMA MissingIsWhole ==
  ASSUME NEW b \in BacklogState, HoldsTail(b), NEW from \in Int, Covers(b, from),
         NEW u, u = [j \in DOMAIN Missing(b, from) |-> Byte(Missing(b, from)[j])]
  PROVE  \/ \E i \in 1 .. Len(u) : u[i] = Byte(0)
         \/ /\ from \in Nat /\ Len(u) = b.last - from /\ b.last \in Nat /\ from < b.last
            /\ \A j \in 1 .. Len(u) : u[j] = Byte(from + j)
<1>1. PICK l, n : l = b.last /\ n = b.last - from
  OBVIOUS
<1>2. l \in Nat /\ from \in Nat /\ n \in Nat \ {0} /\ n = l - from /\ Size \in Nat \ {0}
  BY <1>1, SizeAssumption DEF BacklogState, Covers
<1>3. PICK f : f = Missing(b, from)
  OBVIOUS
<1>4. u \in Seq(ToSlave) /\ Len(u) = n /\ \A j \in 1 .. n : u[j] = Byte(f[j])
  BY <1>1, <1>3, MissingIs
<1>5. CASE l < Size
  <2>1. f = [j \in 1 .. n |-> from + j]
    BY <1>1, <1>3, <1>5, MissingExact
  <2>2. \A j \in 1 .. n : u[j] = Byte(from + j)
    BY <1>4, <2>1
  <2>3. from < l
    BY <1>2
  <2>4. QED
    BY <1>1, <1>2, <1>4, <2>2, <2>3
<1>6. CASE ~(l < Size)
  <2>1. f = [j \in 1 .. n |-> IF from + j < Size THEN b.ring[from + j] ELSE 0]
    BY <1>1, <1>3 DEF Missing
  <2>2. n \in 1 .. n /\ ~(from + n < Size)
    BY <1>2, <1>6
  <2>3. f[n] = 0
    BY <2>1, <2>2
  <2>4. u[n] = Byte(0)
    BY <1>4, <2>2, <2>3
  <2>5. QED
    BY <1>4, <2>2, <2>4
<1>7. QED
  BY <1>5, <1>6

\* +APPENDSYNC and the rest of the history, in an empty pipe.
LEMMA SyncIsWhole ==
  ASSUME NEW q \in Seq(ToSlave), NEW u \in Seq(ToSlave), NEW t, t = <<Msg("APPENDSYNC")>>,
         Joined(q, t, u), NEW from \in Nat, NEW l \in Nat, Len(u) = l - from, from < l,
         \A j \in 1 .. Len(u) : u[j] = Byte(from + j)
  PROVE  Closed(q, <<>>, l) /\ Paired(q)
<1>1. PICK n : n = l - from
  OBVIOUS
<1>2. n \in Nat /\ n = Len(u)
  BY <1>1
<1>3. t \in Seq(ToSlave) /\ Len(t) = 1 /\ t[1].op = "APPENDSYNC"
  BY WordIs
<1>4. Len(q) = n + 1 /\ q[1].op = "APPENDSYNC" /\ \A j \in 1 .. n : q[1 + j] = u[j]
  <2>1. 1 \in 1 .. 1
    OBVIOUS
  <2>2. Len(q) = 1 + n /\ q[1] = t[1]
    BY <1>2, <1>3, <2>1 DEF Joined
  <2>3. \A j \in 1 .. n : q[1 + j] = u[j]
    BY <1>2, <1>3 DEF Joined
  <2>4. QED
    BY <1>2, <1>3, <2>2, <2>3
<1>5. \A j \in 1 .. n : q[1 + j] = Byte(from + j)
  BY <1>2, <1>4
<1>6. ASSUME NEW i \in 1 .. n + 1, i # 1 PROVE i - 1 \in 1 .. n /\ q[i] = Byte(from + i - 1)
  <2>1. PICK j : j = i - 1
    OBVIOUS
  <2>2. j \in 1 .. n /\ 1 + j = i /\ from + j = from + i - 1
    BY <1>2, <1>6, <2>1
  <2>3. q[i] = Byte(from + j)
    BY <1>5, <2>2
  <2>4. QED
    BY <2>1, <2>2, <2>3
<1>7. ASSUME NEW k PROVE InBytes(k, q) <=> k \in from + 1 .. l
  <2>1. ASSUME NEW i \in 1 .. n + 1, q[i] = Byte(k) PROVE k \in from + 1 .. l
    <3>1. i # 1
      BY <1>4, <2>1, ByteIs
    <3>2. k = from + i - 1
      BY <1>6, <2>1, <3>1, ByteIs
    <3>3. QED
      BY <1>1, <3>1, <3>2
  <2>2. ASSUME k \in from + 1 .. l PROVE InBytes(k, q)
    <3>1. PICK j : j = k - from
      OBVIOUS
    <3>2. j \in 1 .. n /\ from + j = k /\ 1 + j \in 1 .. n + 1
      BY <1>1, <2>2, <3>1
    <3>3. q[1 + j] = Byte(k)
      BY <1>5, <3>2
    <3>4. QED
      BY <1>4, <3>2, <3>3 DEF InBytes
  <2>3. QED
    BY <1>4, <2>1, <2>2 DEF InBytes
<1>8. \A k : Held(k, q, <<>>) <=> k \in from + 1 .. l
  <2>1. \A k : ~InCommands(k, <<>>)
    <3>1. ~ \E i \in 1 .. 0 : TRUE
      OBVIOUS
    <3>2. QED
      BY <3>1, EmptyIs DEF InCommands
  <2>2. QED
    BY <1>7, <2>1 DEF Held
<1>9. Closed(q, <<>>, l)
  <2>1. ASSUME NEW k \in Nat, Held(k, q, <<>>)
        PROVE  k \in 1 .. l /\ (k # l => Held(k + 1, q, <<>>))
    <3>1. k \in from + 1 .. l
      BY <1>8, <2>1
    <3>2. k # l => k + 1 \in from + 1 .. l
      BY <3>1
    <3>3. k \in 1 .. l
      BY <3>1
    <3>4. QED
      BY <1>8, <3>2, <3>3
  <2>2. QED
    BY <2>1 DEF Closed
<1>10. ASSUME NEW c \in Nat \ {0}, NEW i \in 1 .. n + 1, q[i] = Byte(2 * c), i # 1
       PROVE  q[i - 1] = Byte(2 * c - 1) \/ q[i - 1].op = "APPENDSYNC"
  <2>1. 2 * c = from + i - 1
    BY <1>6, <1>10, ByteIs
  <2>2. CASE i = 2
    BY <1>4, <2>2
  <2>3. CASE i # 2
    <3>1. PICK j : j = i - 1
      OBVIOUS
    <3>2. j \in 1 .. n + 1 /\ j # 1 /\ from + j - 1 = 2 * c - 1
      BY <1>2, <1>10, <2>1, <2>3, <3>1
    <3>3. q[j] = Byte(from + j - 1)
      BY <1>6, <3>2
    <3>4. QED
      BY <3>1, <3>2, <3>3
  <2>4. QED
    BY <2>2, <2>3
<1>11. QED
  BY <1>4, <1>9, <1>10 DEF Paired

\* What is appended behind does not set the slave free.
LEMMA StuckStays ==
  ASSUME TypeOK, NEW t \in Seq(ToSlave), Pipe' \in Seq(ToSlave), Joined(Pipe', Pipe, t),
         UNCHANGED <<reader, replState>>, Stuck
  PROVE  Stuck'
<1>1. PICK q, s : q = Pipe' /\ s = Pipe
  OBVIOUS
<1>2. q \in Seq(ToSlave) /\ s \in Seq(ToSlave) /\ Joined(q, s, t)
  BY <1>1, PipeIs
<1>3. \A k \in Nat : Blocked(s, k, "up") => Blocked(q, k, "up")
  BY <1>2, JoinBlocked
<1>4. ASSUME NEW j \in 1 .. Len(s) PROVE j \in 1 .. Len(q) /\ q[j] = s[j]
  <2>1. PICK p, m, n \in Nat : Halves(q, s, t, p, m, n)
    BY <1>2, Places
  <2>2. QED
    BY <2>1 DEF Halves
<1>5. CASE replState = "SEND_SYNC"
  <2>1. PICK j \in 1 .. Len(s) : s[j].op = "APPENDSYNC" /\ (j # 1 \/ Blocked(s, j, "up"))
    BY <1>1, <1>5 DEF Stuck
  <2>2. j \in Nat
    BY <1>2, SeqIs
  <2>3. j \in 1 .. Len(q) /\ q[j].op = "APPENDSYNC" /\ (j # 1 \/ Blocked(q, j, "up"))
    BY <1>3, <1>4, <2>1, <2>2
  <2>4. QED
    BY <1>1, <1>5, <2>3 DEF Stuck
<1>6. CASE replState # "SEND_SYNC"
  <2>1. 0 \in Nat
    OBVIOUS
  <2>2. Blocked(q, 0, "up")
    BY <1>1, <1>3, <1>6, <2>1 DEF Stuck
  <2>3. QED
    BY <1>1, <1>6, <2>2 DEF Stuck
<1>7. QED
  BY <1>5, <1>6

\* A write command of the master is the next of the stream.
LEMMA MasterWriteGap ==
  ASSUME TypeOK, ConnInv, Gapless, MasterWrite
  PROVE  Gapless'
<1> SUFFICES ASSUME link' = "up" PROVE Gapless'
  BY DEF Gapless
<1>1. PICK c \in Nat : backlog.last = 2 * c
  BY DEF ConnInv
<1>2. UNCHANGED <<toSlave, link, replState, readBuf, reader, executed, merged>>
  BY DEF MasterWrite, netVars, slaveConn, slaveData
<1>3. PICK t : t = Command(c + 1)
  OBVIOUS
<1>4. t \in Seq(ToSlave) /\ Len(t) = 2 /\ t # <<>>
  <2>1. c + 1 \in Nat \ {0}
    OBVIOUS
  <2>2. QED
    BY <1>3, <2>1, CommandIs, EmptyIs
<1>5. backlog'.last = 2 * c + 2
  BY <1>1 DEF MasterWrite, addRepliBuf, CmdLen
<1>6. peer' = IF peer.slave THEN [peer EXCEPT !.writeBuf = @ \o t] ELSE peer
  <2>1. backlog.last \div CmdLen + 1 = c + 1
    BY <1>1 DEF CmdLen
  <2>2. QED
    BY <1>3, <2>1 DEF MasterWrite, commandPropagate
<1>7. CASE peer.slave
  <2>1. peer'.writeBuf = peer.writeBuf \o t /\ peer'.slave = TRUE
    BY <1>4, <1>6, <1>7, PeerAppends DEF TypeOK
  <2>2. Pipe' \in Seq(ToSlave) /\ Joined(Pipe', Pipe, t)
    BY <1>2, <1>4, <2>1, ReplyAppends
  <2>3. /\ \A x : Closed(Pipe, x, 2 * c) => Closed(Pipe', x, 2 * c + 2)
        /\ Paired(Pipe) => Paired(Pipe')
        /\ StartsWhole(t)
    <3>1. PICK q, s : q = Pipe' /\ s = Pipe
      OBVIOUS
    <3>2. q \in Seq(ToSlave) /\ s \in Seq(ToSlave) /\ Joined(q, s, t)
      BY <2>2, <3>1, PipeIs
    <3>3. QED
      BY <1>3, <1>4, <3>1, <3>2, CommandJoins
  <2>4. StartsWhole(peer'.writeBuf)
    <3>1. PICK v, w : v = peer.writeBuf /\ w = peer'.writeBuf
      OBVIOUS
    <3>2. v \in Seq(ToSlave) /\ Joined(w, v, t) /\ w \in Seq(ToSlave)
      BY <1>4, <2>1, <3>1, JoinedIs, PipeIs
    <3>3. StartsWhole(v)
      BY <1>2, <3>1 DEF Gapless
    <3>4. CASE v = <<>>
      <4>1. Len(v) = 0 /\ 1 \in 1 .. Len(t) /\ 0 + 1 = 1
        BY <1>4, <3>4, SeqIs
      <4>2. w[0 + 1] = t[1]
        BY <3>2, <4>1 DEF Joined
      <4>3. QED
        BY <1>4, <2>3, <3>1, <4>1, <4>2 DEF StartsWhole
    <3>5. CASE v # <<>>
      <4>1. w[1] = v[1]
        BY <3>2, <3>5, SeqIs DEF Joined
      <4>2. QED
        BY <3>1, <3>3, <3>5, <4>1 DEF StartsWhole
    <3>6. QED
      BY <3>4, <3>5
  <2>5. Whole => Whole'
    BY <1>1, <1>2, <1>5, <2>3 DEF Whole
  <2>6. Stuck => Stuck'
    BY <1>2, <1>4, <2>2, StuckStays
  <2>7. QED
    BY <1>2, <2>1, <2>4, <2>5, <2>6 DEF Gapless
<1>8. CASE ~peer.slave
  <2>1. peer' = peer /\ Pipe' = Pipe
    BY <1>2, <1>6, <1>8 DEF Pipe
  <2>2. NoneOf(Pipe, {"BYTE"}) /\ executed = <<>>
    BY <1>2, <1>8 DEF Gapless
  <2>3. Closed(Pipe, executed, backlog'.last)
    <3>1. \A k : ~InBytes(k, Pipe)
      BY <2>2, ByteIs DEF NoneOf, InBytes
    <3>2. \A k : ~InCommands(k, executed)
      <4>1. ~ \E i \in 1 .. 0 : TRUE
        OBVIOUS
      <4>2. QED
        BY <2>2, <4>1, EmptyIs DEF InCommands
    <3>3. QED
      BY <3>1, <3>2 DEF Closed, Held
  <2>4. Whole => Whole'
    BY <1>2, <2>1, <2>3 DEF Whole
  <2>5. Stuck => Stuck'
    BY <1>2, <2>1 DEF Stuck
  <2>6. QED
    BY <1>2, <2>1, <2>4, <2>5 DEF Gapless
<1>9. QED
  BY <1>7, <1>8

\* A reply of the master's goes behind the stream.
LEMMA ReplyGap ==
  ASSUME TypeOK, Gapless, NEW t \in Seq(ToSlave), NoneOf(t, {"BYTE"}),
         peer.writeBuf = <<>>, peer'.writeBuf = t, peer'.slave = peer.slave \/ peer'.slave = TRUE,
         UNCHANGED <<backlog, toSlave, link, replState, readBuf, reader, executed, merged>>,
         replState = "SEND_REPLCONF" /\ ~NoneOf(Pipe', {"OK"}) => peer'.slave
  PROVE  Gapless'
<1> SUFFICES ASSUME link = "up" PROVE Gapless'
  BY DEF Gapless
<1>1. peer'.writeBuf = peer.writeBuf \o t
  <2>1. Joined(<<>> \o t, <<>>, t) /\ <<>> \o t = t
    BY ConcatEmptySeq, EmptyTypes, JoinedIs
  <2>2. QED
    BY <2>1
<1>2. Pipe' \in Seq(ToSlave) /\ Joined(Pipe', Pipe, t)
  BY <1>1, ReplyAppends
<1>3. PICK q, s : q = Pipe' /\ s = Pipe
  OBVIOUS
<1>4. q \in Seq(ToSlave) /\ s \in Seq(ToSlave) /\ Joined(q, s, t)
  BY <1>2, <1>3, PipeIs
<1>5. /\ \A x, l : Closed(s, x, l) => Closed(q, x, l)
      /\ Paired(s) => Paired(q)
  BY <1>4, WordsJoin
<1>6. Whole => Whole'
  BY <1>3, <1>5 DEF Whole
<1>7. Stuck => Stuck'
  BY <1>2, StuckStays
<1>8. StartsWhole(t)
  <2>1. t # <<>> => 1 \in 1 .. Len(t)
    BY SeqIs
  <2>2. QED
    BY <2>1, ByteIs DEF StartsWhole, NoneOf
<1>9. NoneOf(s, {"BYTE"}) => NoneOf(q, {"BYTE"})
  BY <1>4, JoinOps
<1>10. QED
  BY <1>3, <1>6, <1>7, <1>8, <1>9 DEF Gapless

\* commandPingProc, commandReplconfProc, commandReplACKProc: one word each.
LEMMA RepliesGap ==
  ASSUME TypeOK, ConnInv, Gapless, commandPingProc \/ commandReplconfProc \/ commandReplACKProc
  PROVE  Gapless'
<1>1. PICK op \in {"PING", "REPLCONF", "REPLACK"}, word \in {"PONG", "OK"} :
        /\ MasterReads(op)
        /\ \/ op = "PING" /\ word = "PONG" /\ peer' = Reply(peer, word)
           \/ op = "REPLCONF" /\ peer' = [Reply(peer, word) EXCEPT !.slave = TRUE]
           \/ op = "REPLACK" /\ peer' = Reply(peer, word)
  BY DEF commandPingProc, commandReplconfProc, commandReplACKProc
<1>2. /\ link = "up" /\ peer.writeBuf = <<>>
      /\ UNCHANGED <<backlog, link, status, reading, replState, slaveConn, slaveData>>
      /\ \A ops : OpsIn(toMaster, ops) => op \in ops
  BY <1>1, ReadsOps
<1>3. UNCHANGED <<backlog, toSlave, link, replState, readBuf, reader, executed, merged>>
  BY <1>1, <1>2 DEF MasterReads, slaveConn, slaveData
<1>4. PICK t : t = <<Msg(word)>>
  OBVIOUS
<1>5. t \in Seq(ToSlave) /\ Len(t) = 1 /\ t[1].op = word /\ NoneOf(t, {"BYTE"}) /\ (word # "OK" => NoneOf(t, {"OK"}))
  BY <1>1, <1>4, WordIs
<1>6. PICK p : p = Reply(peer, word)
  OBVIOUS
<1>7. p \in Peer /\ p.slave = peer.slave /\ p.writeBuf = peer.writeBuf \o t
  BY <1>4, <1>6, ReplyIs DEF TypeOK
<1>8. p.writeBuf = t
  BY <1>2, <1>5, <1>7, ConcatEmptySeq
<1>9. /\ peer'.writeBuf = t
      /\ op = "REPLCONF" => peer'.slave = TRUE
      /\ op # "REPLCONF" => peer'.slave = peer.slave
  BY <1>1, <1>6, <1>7, <1>8 DEF Peer
<1>10. ASSUME replState = "SEND_REPLCONF", ~NoneOf(Pipe', {"OK"}) PROVE peer'.slave
  <2>1. op # "REPLACK"
    <3>1. link # "none" /\ OpsIn(toMaster, {"REPLCONF"})
      BY <1>2, <1>10 DEF ConnInv, Phase, SendReplconf, Awaits
    <3>2. QED
      BY <1>2, <3>1
  <2>2. CASE op = "REPLCONF"
    BY <1>9, <2>2
  <2>3. CASE op = "PING"
    <3>1. NoneOf(t, {"OK"}) /\ peer'.slave = peer.slave
      BY <1>1, <1>5, <1>9, <2>3
    <3>2. peer'.writeBuf = peer.writeBuf \o t
      BY <1>7, <1>8, <1>9
    <3>3. Pipe' \in Seq(ToSlave) /\ Joined(Pipe', Pipe, t) /\ Pipe \in Seq(ToSlave)
      BY <1>3, <1>5, <3>2, ReplyAppends, PipeIs
    <3>4. PICK q, s : q = Pipe' /\ s = Pipe
      OBVIOUS
    <3>5. NoneOf(q, {"OK"}) <=> NoneOf(s, {"OK"})
      BY <1>5, <3>1, <3>3, <3>4, JoinOps
    <3>6. ~NoneOf(Pipe, {"OK"})
      BY <1>10, <3>4, <3>5
    <3>7. QED
      BY <1>2, <1>10, <3>1, <3>6 DEF Gapless
  <2>4. QED
    BY <2>1, <2>2, <2>3
<1>11. QED
  BY <1>2, <1>3, <1>5, <1>9, <1>10, ReplyGap

\* Nothing of the stream changes.
LEMMA SameGap ==
  ASSUME Gapless,
         UNCHANGED <<backlog, peer, toSlave, link, replState, readBuf, reader, executed, merged>>
  PROVE  Gapless'
<1>1. Pipe' = Pipe
  BY DEF Pipe
<1>2. (Whole <=> Whole') /\ (Stuck <=> Stuck')
  BY <1>1 DEF Whole, Stuck
<1>3. QED
  BY <1>1, <1>2 DEF Gapless

\* commandSyncProc answers with the rest of the history, or with something that
\* the slave never gets past.
LEMMA SyncGap ==
  ASSUME TypeOK, ConnInv, RingHoldsTail, Gapless, commandSyncProc
  PROVE  Gapless'
<1> DEFINE Answers == {"FULLSYNC", "APPENDSYNC"}
<1>1. MasterReads("SYNC")
  BY DEF commandSyncProc
<1>2. /\ link = "up" /\ peer.writeBuf = <<>> /\ toMaster # <<>>
      /\ UNCHANGED <<backlog, link, status, reading, replState, slaveConn, slaveData>>
      /\ \A ops : OpsIn(toMaster, ops) => "SYNC" \in ops
  BY <1>1, ReadsOps
<1>3. replState = "SEND_SYNC" /\ SendSync
  <2>1. ~OpsIn(toMaster, {"PING"}) /\ ~OpsIn(toMaster, {"REPLCONF"}) /\ ~OpsIn(toMaster, {"REPLACK", "OK"})
    BY <1>2
  <2>2. QED
    BY <1>2, <2>1
    DEF ConnInv, Phase, Connecting, SendReplconf, InSync, ReceivingRdb, ReceivingAppendsync, Awaits
<1>4. UNCHANGED <<backlog, toSlave, link, replState, readBuf, reader, executed, merged>>
  BY <1>1, <1>2 DEF MasterReads, slaveConn, slaveData
<1>5. reader = "repliReadHandler" /\ executed = <<>> /\ peer.slave
  BY <1>2, <1>3 DEF SendSync, Fresh, Gapless
<1>6. PICK a, b, s, q, l : a = readBuf /\ b = toSlave /\ s = Pipe /\ q = Pipe' /\ l = backlog.last
  OBVIOUS
<1>7. /\ a \in Seq(ToSlave) /\ b \in Seq(ToSlave) /\ s \in Seq(ToSlave) /\ l \in Nat
      /\ s = PipeOf(a, b, <<>>) /\ peer \in Peer
  BY <1>2, <1>6, PipeIs DEF TypeOK, BacklogState
<1>8. PICK from : from = Head(toMaster).n
  OBVIOUS
<1>9. from \in Int
  <2>1. toMaster \in Seq(ToMaster)
    BY DEF TypeOK
  <2>2. Head(toMaster) \in ToMaster
    BY <1>2, <2>1, TailRests
  <2>3. QED
    BY <1>8, <2>2, MessagesAre
<1>10. ASSUME NEW op \in Answers, NEW t, t = <<Msg(op)>>
       PROVE  /\ Reply(peer, op) \in Peer /\ Reply(peer, op).writeBuf = t
              /\ Reply(peer, op).slave = peer.slave
              /\ t \in Seq(ToSlave) /\ Len(t) = 1 /\ t[1].op = op /\ NoneOf(t, {"BYTE"})
  <2>1. t \in Seq(ToSlave) /\ Len(t) = 1 /\ t[1].op = op /\ NoneOf(t, {"BYTE"})
    BY <1>10, WordIs
  <2>2. /\ Reply(peer, op) \in Peer /\ Reply(peer, op).writeBuf = peer.writeBuf \o t
        /\ Reply(peer, op).slave = peer.slave
    BY <1>7, <1>10, ReplyIs
  <2>3. peer.writeBuf \o t = t
    BY <1>2, <2>1, ConcatEmptySeq
  <2>4. QED
    BY <2>1, <2>2, <2>3
<1>11. CASE ~Covers(backlog, from)
  <2>1. PICK t, p : t = <<Msg("FULLSYNC")>> /\ p = Reply(peer, "FULLSYNC")
    OBVIOUS
  <2>2. p \in Peer /\ p.writeBuf = t /\ p.slave = peer.slave /\ t \in Seq(ToSlave) /\ NoneOf(t, {"BYTE"})
    BY <1>10, <2>1
  <2>3. peer' = [p EXCEPT !.sync = "SEND_FULLSYNC"]
    BY <1>8, <1>11, <2>1 DEF commandSyncProc
  <2>4. peer'.writeBuf = t /\ peer'.slave = peer.slave
    BY <2>2, <2>3 DEF Peer
  <2>5. QED
    BY <1>2, <1>3, <1>4, <2>2, <2>4, ReplyGap
<1>12. CASE Covers(backlog, from)
  <2>1. PICK u : u = [j \in DOMAIN Missing(backlog, from) |-> Byte(Missing(backlog, from)[j])]
    OBVIOUS
  <2>2. backlog \in BacklogState /\ HoldsTail(backlog)
    BY DEF TypeOK, RingHoldsTail
  <2>3. u \in Seq(ToSlave) /\ OpsIn(u, {"BYTE"})
    BY <1>9, <1>12, <2>1, <2>2, MissingBytes
  <2>4. \/ \E i \in 1 .. Len(u) : u[i] = Byte(0)
        \/ /\ from \in Nat /\ Len(u) = l - from /\ from < l
           /\ \A j \in 1 .. Len(u) : u[j] = Byte(from + j)
    BY <1>6, <1>9, <1>12, <2>1, <2>2, MissingIsWhole
  <2>5. PICK t, p, w, v : /\ t = <<Msg("APPENDSYNC")>> /\ p = Reply(peer, "APPENDSYNC")
                          /\ v = t \o u /\ w = PipeOf(a, b, t)
    OBVIOUS
  <2>6. /\ p \in Peer /\ p.writeBuf = t /\ p.slave = peer.slave
        /\ t \in Seq(ToSlave) /\ Len(t) = 1 /\ t[1].op = "APPENDSYNC"
    BY <1>10, <2>5
  <2>7. peer' = [p EXCEPT !.sync = "SEND_APPENDSYNC", !.writeBuf = @ \o u]
    BY <1>8, <1>12, <2>1, <2>5 DEF commandSyncProc
  <2>8. peer'.slave = peer.slave /\ peer'.writeBuf = v
    BY <2>5, <2>6, <2>7 DEF Peer
  <2>9. v \in Seq(ToSlave) /\ Joined(v, t, u)
    BY <2>3, <2>5, <2>6, JoinedIs
  <2>10. q = PipeOf(a, b, v)
    BY <1>4, <1>6, <2>8 DEF Pipe, PipeOf
  <2>11. StartsWhole(v)
    <3>1. v[1] = t[1]
      <4>1. 1 \in 1 .. Len(t)
        BY <2>6
      <4>2. QED
        BY <2>9, <4>1 DEF Joined
    <3>2. \A c : v[1] # Byte(c)
      BY <2>6, <3>1, ByteIs
    <3>3. QED
      BY <3>2 DEF StartsWhole
  <2>12. w \in Seq(ToSlave) /\ Joined(w, s, t)
    <3>1. <<>> \o t = t /\ <<>> \in Seq(ToSlave)
      BY <2>6, ConcatEmptySeq, EmptyTypes
    <3>2. PipeOf(a, b, <<>> \o t) \in Seq(ToSlave) /\ Joined(PipeOf(a, b, <<>> \o t), PipeOf(a, b, <<>>), t)
      BY <1>7, <2>6, <3>1, PipeAppends
    <3>3. QED
      BY <1>7, <2>5, <3>1, <3>2
  <2>13. q \in Seq(ToSlave) /\ Joined(q, w, u)
    BY <1>7, <2>3, <2>5, <2>6, <2>10, PipeAppends
  <2>14. PICK m, n : m = Len(s) /\ n = Len(u)
    OBVIOUS
  <2>15. m \in Nat /\ n \in Nat /\ (m = 0 => s = <<>>)
    BY <1>7, <2>3, <2>14, SeqIs
  <2>16. /\ Len(q) = m + 1 + n /\ q[m + 1].op = "APPENDSYNC"
         /\ \A i \in 1 .. n : q[m + 1 + i] = u[i]
    <3>1. Len(w) = m + 1 /\ w[m + 1] = t[1]
      <4>1. 1 \in 1 .. Len(t)
        BY <2>6
      <4>2. QED
        BY <2>6, <2>12, <2>14, <4>1 DEF Joined
    <3>2. m + 1 \in 1 .. m + 1
      BY <2>15
    <3>3. q[m + 1] = w[m + 1] /\ Len(q) = m + 1 + n /\ \A i \in 1 .. n : q[m + 1 + i] = u[i]
      BY <2>13, <2>14, <3>1, <3>2 DEF Joined
    <3>4. QED
      BY <2>6, <3>1, <3>3
  <2>17. m + 1 \in 1 .. Len(q)
    BY <2>15, <2>16
  <2>18. CASE m # 0
    <3>1. m + 1 # 1
      BY <2>15, <2>18
    <3>2. Stuck'
      BY <1>3, <1>4, <1>5, <1>6, <2>16, <2>17, <3>1 DEF Stuck
    <3>3. QED
      BY <1>3, <1>4, <1>5, <2>8, <2>11, <3>2 DEF Gapless
  <2>19. CASE m = 0 /\ \E i \in 1 .. Len(u) : u[i] = Byte(0)
    <3>1. PICK i \in 1 .. n : u[i] = Byte(0)
      BY <2>14, <2>19
    <3>2. 1 + i \in 1 .. Len(q) /\ 1 + i > 1 /\ q[1 + i] = Byte(0)
      BY <2>15, <2>16, <2>19, <3>1
    <3>3. ASSUME NEW j \in 1 .. Len(q), j > 1 PROVE q[j].op = "BYTE"
      <4>1. PICK k : k = j - 1
        OBVIOUS
      <4>2. k \in 1 .. n /\ m + 1 + k = j
        BY <2>15, <2>16, <2>19, <3>3, <4>1
      <4>3. QED
        BY <2>3, <2>14, <2>16, <4>2 DEF OpsIn
    <3>4. Blocked(q, 1, "up")
      BY <3>2, <3>3 DEF Blocked
    <3>5. Stuck'
      BY <1>3, <1>4, <1>5, <1>6, <2>16, <2>17, <2>19, <3>4 DEF Stuck
    <3>6. QED
      BY <1>3, <1>4, <1>5, <2>8, <2>11, <3>5 DEF Gapless
  <2>20. CASE /\ m = 0
              /\ from \in Nat /\ Len(u) = l - from /\ from < l
              /\ \A j \in 1 .. Len(u) : u[j] = Byte(from + j)
    <3>1. w = t
      <4>1. s = <<>>
        BY <2>15, <2>20
      <4>2. a = <<>> /\ b = <<>>
        <5>1. a \o b \in Seq(ToSlave)
          BY <1>7, JoinedIs
        <5>2. (a \o b) \o <<>> = a \o b
          BY <5>1, ConcatEmptySeq
        <5>3. a \o b = <<>>
          BY <1>7, <4>1, <5>2 DEF PipeOf
        <5>4. QED
          BY <1>7, <5>3, ConcatEqualIffEmpty
      <4>3. <<>> \o <<>> = <<>> /\ <<>> \o t = t
        BY <2>6, EmptyTypes, ConcatEmptySeq
      <4>4. QED
        BY <2>5, <4>2, <4>3 DEF PipeOf
    <3>2. Closed(q, <<>>, l) /\ Paired(q)
      BY <1>7, <2>3, <2>5, <2>13, <2>20, <3>1, SyncIsWhole
    <3>3. Unsplit(a, b) /\ toSlave' = b /\ readBuf' = a
      <4>1. a = <<>>
        <5>1. Begins(a, s)
          BY <1>7, EmptyTypes, PipeHead
        <5>2. Len(a) <= 0
          BY <2>14, <2>20, <5>1 DEF Begins
        <5>3. Len(a) = 0
          BY <1>7, <5>2, SeqIs
        <5>4. QED
          BY <1>7, <5>3, EmptySeq
      <4>2. QED
        BY <1>4, <1>6, <4>1 DEF Unsplit
    <3>4. Whole'
      BY <1>4, <1>5, <1>6, <3>2, <3>3 DEF Whole
    <3>5. QED
      BY <1>3, <1>4, <1>5, <2>8, <2>11, <3>4 DEF Gapless
  <2>21. QED
    BY <2>4, <2>18, <2>19, <2>20
<1>13. QED
  BY <1>11, <1>12

\* The master's buffer goes onto the connection, and a snapshot behind it.
LEMMA SendsGap ==
  ASSUME TypeOK, Gapless, MasterSends
  PROVE  Gapless'
<1>1. /\ link = "up"
      /\ UNCHANGED <<backlog, link, replState, slaveConn, slaveData>>
      /\ peer.writeBuf # <<>>
  BY DEF MasterSends
<1>2. UNCHANGED <<backlog, link, replState, readBuf, reader, executed, merged>>
  BY <1>1 DEF slaveConn, slaveData
<1>3. PICK a, b, c, s, q, t :
        /\ a = readBuf /\ b = toSlave /\ c = peer.writeBuf /\ s = Pipe /\ q = Pipe'
        /\ t = IF peer.sync = "SEND_FULLSYNC" THEN <<Msg("LEN"), Msg("RDB")>> ELSE <<>>
  OBVIOUS
<1>4. /\ a \in Seq(ToSlave) /\ b \in Seq(ToSlave) /\ c \in Seq(ToSlave) /\ s \in Seq(ToSlave)
      /\ s = PipeOf(a, b, c) /\ peer \in Peer /\ c # <<>>
  BY <1>1, <1>3, PipeIs DEF TypeOK
<1>5. t \in Seq(ToSlave) /\ NoneOf(t, {"BYTE", "OK"}) /\ NoneOf(t, {"BYTE"}) /\ NoneOf(t, {"OK"})
  BY <1>3, SnapshotIs, EmptyTypes, EmptyIs
<1>6. toSlave' = (b \o c) \o t
  BY <1>3 DEF MasterSends
<1>7. peer'.writeBuf = <<>> /\ peer'.slave = peer.slave
  <2>1. PICK y : peer' = [peer EXCEPT !.writeBuf = <<>>, !.sync = y]
    BY DEF MasterSends
  <2>2. QED
    BY <1>4, <2>1 DEF Peer
<1>8. q = PipeOf(a, (b \o c) \o t, <<>>)
  BY <1>2, <1>3, <1>6, <1>7 DEF Pipe, PipeOf
<1>9. Joined(q, s, t)
  BY <1>4, <1>5, <1>8, PipeSends
<1>10. PICK d, e : d = b \o c /\ e = (b \o c) \o t
  OBVIOUS
<1>11. d \in Seq(ToSlave) /\ Joined(d, b, c) /\ e \in Seq(ToSlave) /\ Joined(e, d, t)
  BY <1>4, <1>5, <1>10, JoinedIs
<1>12. q \in Seq(ToSlave)
  BY <1>4, <1>8, <1>10, <1>11, EmptyTypes, PipeParts
<1>13. e[1] = IF b = <<>> THEN c[1] ELSE b[1]
  <2>1. PICK m, n : m = Len(b) /\ n = Len(c)
    OBVIOUS
  <2>2. m \in Nat /\ n \in Nat /\ n > 0 /\ 1 \in 1 .. n /\ (b # <<>> => 1 \in 1 .. m) /\ (b = <<>> => m = 0)
    BY <1>4, <2>1, SeqIs
  <2>3. Len(d) = m + n /\ (\A i \in 1 .. m : d[i] = b[i]) /\ (\A i \in 1 .. n : d[m + i] = c[i])
    BY <1>11, <2>1 DEF Joined
  <2>4. 1 \in 1 .. Len(d)
    BY <2>2, <2>3
  <2>5. e[1] = d[1]
    BY <1>11, <2>4 DEF Joined
  <2>6. CASE b = <<>>
    <3>1. d[0 + 1] = c[1]
      BY <2>2, <2>3, <2>6
    <3>2. QED
      BY <2>5, <2>6, <3>1
  <2>7. CASE b # <<>>
    BY <2>2, <2>3, <2>5, <2>7
  <2>8. QED
    BY <2>6, <2>7
<1>14. StartsWhole(c)
  BY <1>1, <1>3 DEF Gapless
<1>15. Unsplit(a, b) => Unsplit(a, e)
  BY <1>4, <1>13, <1>14 DEF Unsplit, StartsWhole
<1>16. StartsWhole(b) => StartsWhole(e)
  BY <1>4, <1>13, <1>14 DEF StartsWhole
<1>17. /\ \A x, l : Closed(s, x, l) => Closed(q, x, l)
       /\ Paired(s) => Paired(q)
  BY <1>4, <1>5, <1>9, <1>12, WordsJoin
<1>18. Whole => Whole'
  BY <1>2, <1>3, <1>6, <1>10, <1>15, <1>16, <1>17 DEF Whole
<1>19. Stuck => Stuck'
  BY <1>2, <1>3, <1>5, <1>9, <1>12, StuckStays
<1>20. /\ NoneOf(s, {"BYTE"}) => NoneOf(q, {"BYTE"})
       /\ NoneOf(s, {"OK"}) => NoneOf(q, {"OK"})
  BY <1>4, <1>5, <1>9, <1>12, JoinOps
<1>21. StartsWhole(peer'.writeBuf)
  BY <1>7 DEF StartsWhole
<1>22. QED
  BY <1>1, <1>2, <1>3, <1>7, <1>18, <1>19, <1>20, <1>21 DEF Gapless

\* Nothing on its way and nothing executed.
LEMMA NothingIsWhole ==
  /\ \A l : Closed(<<>>, <<>>, l)
  /\ Paired(<<>>) /\ Unsplit(<<>>, <<>>) /\ StartsWhole(<<>>)
  /\ PipeOf(<<>>, <<>>, <<>>) = <<>> /\ \A ops : NoneOf(<<>>, ops)
<1>1. Len(<<>>) = 0 /\ \A i \in 1 .. 0 : FALSE
  BY EmptyIs
<1>2. \A l : Closed(<<>>, <<>>, l)
  BY <1>1 DEF Closed, Held, InBytes, InCommands
<1>3. Paired(<<>>)
  BY <1>1 DEF Paired
<1>4. Unsplit(<<>>, <<>>) /\ StartsWhole(<<>>)
  BY DEF Unsplit, StartsWhole
<1>5. QED
  BY <1>2, <1>3, <1>4, EmptyIs

\* A connection that is new, failed or over.
LEMMA ConnectGap ==
  ASSUME Connected \/ link' # "up"
  PROVE  Gapless'
<1> SUFFICES ASSUME Connected PROVE Gapless'
  BY DEF Gapless
<1>1. /\ readBuf' = <<>> /\ toSlave' = <<>> /\ peer' = NewPeer /\ executed' = <<>>
      /\ replState' = "CONNECTING" /\ reader' = "repliReadHandler"
  BY DEF Connected
<1>2. peer'.writeBuf = <<>>
  BY <1>1 DEF NewPeer
<1>3. Pipe' = <<>>
  BY <1>1, <1>2, NothingIsWhole DEF Pipe, PipeOf
<1>4. Whole'
  BY <1>1, <1>3, NothingIsWhole DEF Whole
<1>5. QED
  BY <1>1, <1>2, <1>3, <1>4, NothingIsWhole DEF Gapless

\* The slave reads on: not within a command.
LEMMA RepliReadGap ==
  ASSUME TypeOK, Gapless, RepliRead
  PROVE  Gapless'
<1> SUFFICES ASSUME link' = "up" PROVE Gapless'
  BY DEF Gapless
<1>1. PICK k \in Ends(toSlave) : Receives(k) /\ readBuf' = readBuf \o SubSeq(toSlave, 1, k)
  BY DEF RepliRead
<1>2. /\ toSlave' = Rest(toSlave, k) /\ reader = "repliReadHandler"
      /\ UNCHANGED <<backlog, peer, replState, reader, executed, merged>>
  BY <1>1 DEF Receives, RepliRead, masterVars, slaveData
<1>3. link = "up"
  BY <1>1 DEF Receives, Polled
<1>4. PICK a, b, c, s : a = readBuf /\ b = toSlave /\ c = peer.writeBuf /\ s = Pipe
  OBVIOUS
<1>5. /\ a \in Seq(ToSlave) /\ b \in Seq(ToSlave) /\ c \in Seq(ToSlave) /\ s \in Seq(ToSlave)
      /\ s = PipeOf(a, b, c)
  BY <1>4, PipeIs
<1>6. k \in 1 .. Len(b) /\ k \in 0 .. Len(b)
  BY <1>4, PieceTypes
<1>7. PICK d, e, f : d = SubSeq(b, 1, k) /\ e = a \o d /\ f = Rest(b, k)
  OBVIOUS
<1>8. readBuf' = e /\ toSlave' = f
  BY <1>1, <1>2, <1>4, <1>7
<1>9. Pipe' = s
  <2>1. Pipe' = PipeOf(a \o SubSeq(b, 1, k), Rest(b, k), c)
    BY <1>2, <1>4, <1>7, <1>8 DEF Pipe, PipeOf
  <2>2. PipeOf(a \o SubSeq(b, 1, k), Rest(b, k), c) = PipeOf(a, b, c)
    BY <1>5, <1>6, PipeReads
  <2>3. QED
    BY <1>5, <2>1, <2>2
<1>10. Unsplit(e, f)
  <2>1. /\ d \in Seq(ToSlave) /\ Len(d) = k /\ Begins(d, b)
        /\ f \in Seq(ToSlave) /\ Drops(f, b, k)
    BY <1>5, <1>6, <1>7, BeginningIs, RestIs
  <2>2. e \in Seq(ToSlave) /\ Joined(e, a, d)
    BY <1>5, <1>7, <2>1, JoinedIs
  <2>3. e[Len(e)] = b[k]
    <3>1. Len(e) = Len(a) + k /\ k \in 1 .. Len(d)
      BY <1>6, <2>1, <2>2 DEF Joined
    <3>2. e[Len(a) + k] = d[k]
      BY <2>1, <2>2, <3>1 DEF Joined
    <3>3. d[k] = b[k]
      BY <2>1, <3>1 DEF Begins
    <3>4. QED
      BY <3>1, <3>2, <3>3
  <2>4. ASSUME f # <<>>, NEW n \in Nat \ {0}, f[1] = Byte(2 * n), e[Len(e)] = Byte(2 * n - 1)
        PROVE  FALSE
    <3>1. 1 \in 1 .. Len(f)
      BY <2>1, <2>4, SeqIs
    <3>2. f[1] = b[1 + k] /\ Len(f) = Len(b) - k
      BY <2>1, <3>1 DEF Drops
    <3>3. b[k + 1] = Byte(2 * n) /\ k < Len(b)
      <4>1. Len(b) \in Nat /\ Len(f) \in Nat /\ 1 + k = k + 1
        BY <1>5, <1>6, <2>1, SeqIs
      <4>2. QED
        BY <1>6, <2>4, <3>1, <3>2, <4>1
    <3>4. b[k].op = "BYTE" /\ b[k].n = 2 * n - 1
      BY <2>3, <2>4, ByteIs
    <3>5. (2 * n - 1) % 2 = 1 /\ (2 * n - 1) + 1 = 2 * n
      OBVIOUS
    <3>6. k \in Ends(b)
      BY <1>4
    <3>7. QED
      BY <3>3, <3>4, <3>5, <3>6 DEF Ends, CmdLen
  <2>5. QED
    BY <2>4 DEF Unsplit
<1>11. Whole => Whole'
  BY <1>2, <1>4, <1>8, <1>9, <1>10 DEF Whole
<1>12. Stuck => Stuck'
  BY <1>2, <1>4, <1>9 DEF Stuck
<1>13. QED
  BY <1>2, <1>3, <1>4, <1>9, <1>11, <1>12 DEF Gapless

\* A slave does not stand at a response of the protocol.
LEMMA BlockedAtByte ==
  ASSUME NEW s, 1 \in 1 .. Len(s), s[1].op # "BYTE", NEW c
  PROVE  ~Blocked(s, 0, c)
<1>1. ~\E i \in 1 .. Len(s) : 0 < i /\ i < 1 /\ s[i] = Byte(0)
  OBVIOUS
<1>2. QED
  BY <1>1 DEF Blocked

\* A turn of the read loop that takes from the buffer.
LEMMA TurnGap ==
  ASSUME TypeOK, NEW k \in 0 .. Len(readBuf), Turn(Rest(readBuf, k))
  PROVE  /\ UNCHANGED <<backlog, peer, toSlave, link>>
         /\ Pipe' \in Seq(ToSlave) /\ Pipe \in Seq(ToSlave) /\ Drops(Pipe', Pipe, k)
         /\ Paired(Pipe) => Paired(Pipe')
         /\ Unsplit(readBuf, toSlave) => Unsplit(readBuf', toSlave')
<1>1. UNCHANGED <<backlog, peer, toSlave, link>> /\ readBuf' = Rest(readBuf, k)
  BY DEF Turn, masterVars, netVars
<1>2. PICK a, b, e, s, q : a = readBuf /\ b = toSlave /\ e = Rest(readBuf, k) /\ s = Pipe /\ q = Pipe'
  OBVIOUS
<1>3. /\ a \in Seq(ToSlave) /\ b \in Seq(ToSlave) /\ s \in Seq(ToSlave) /\ k \in 0 .. Len(a)
      /\ q \in Seq(ToSlave) /\ Drops(q, s, k)
  BY <1>2, PipeIs, TurnPipe
<1>4. Paired(s) => Paired(q)
  BY <1>3, PairedTaken
<1>5. e # <<>> => a # <<>> /\ e[Len(e)] = a[Len(a)]
  <2>1. e \in Seq(ToSlave) /\ Drops(e, a, k)
    BY <1>2, <1>3, RestIs
  <2>2. PICK m, n : m = Len(a) /\ n = Len(e)
    OBVIOUS
  <2>3. /\ m \in Nat /\ n \in Nat /\ (e # <<>> => n > 0) /\ (a = <<>> => m = 0)
        /\ n = m - k /\ k \in Nat /\ \A i \in 1 .. n : e[i] = a[i + k]
    BY <1>3, <2>1, <2>2, SeqIs DEF Drops
  <2>4. ASSUME e # <<>> PROVE m # 0 /\ e[n] = a[m]
    <3>1. n \in 1 .. n /\ n + k = m /\ m # 0
      BY <2>3, <2>4
    <3>2. QED
      BY <2>3, <3>1
  <2>5. QED
    BY <2>2, <2>3, <2>4
<1>6. Unsplit(a, b) => Unsplit(e, b)
  BY <1>5 DEF Unsplit
<1>7. QED
  BY <1>1, <1>2, <1>3, <1>4, <1>6

\* Whole after a turn that executes nothing and takes words of the protocol only.
LEMMA TurnWhole ==
  ASSUME TypeOK, NEW k \in 0 .. Len(readBuf), Turn(Rest(readBuf, k)),
         \A i \in 1 .. k : Pipe[i].op # "BYTE",
         UNCHANGED executed, reader' = "readFromClient" => StartsWhole(toSlave),
         Whole
  PROVE  Whole'
<1>1. PICK s, q : s = Pipe /\ q = Pipe'
  OBVIOUS
<1>2. /\ UNCHANGED <<backlog, toSlave>> /\ q \in Seq(ToSlave) /\ s \in Seq(ToSlave) /\ Drops(q, s, k)
      /\ Paired(s) => Paired(q)
      /\ Unsplit(readBuf, toSlave) => Unsplit(readBuf', toSlave')
  BY <1>1, TurnGap
<1>3. \A x, l : Closed(s, x, l) => Closed(q, x, l)
  BY <1>1, <1>2, WordsTaken
<1>4. QED
  BY <1>1, <1>2, <1>3 DEF Whole

\* The responses of the handshake.
LEMMA HandshakeGap ==
  ASSUME TypeOK, ConnInv, Gapless, ReceivePong \/ ReceiveReplconfOk \/ ReceiveSyncAnswer
  PROVE  Gapless'
<1> SUFFICES ASSUME link' = "up" PROVE Gapless'
  BY DEF Gapless
<1>1. PICK op \in {"PONG", "OK", "FULLSYNC", "APPENDSYNC"} :
        /\ HeadIs(readBuf, op) /\ Turn(Tail(readBuf))
        /\ UNCHANGED slaveData /\ reader' = reader
        /\ \/ op = "PONG" /\ replState = "CONNECTING" /\ replState' = "SEND_REPLCONF"
           \/ op = "OK" /\ replState = "SEND_REPLCONF" /\ replState' = "SEND_SYNC"
           \/ op = "FULLSYNC" /\ replState = "SEND_SYNC" /\ replState' = "RECEIVE_RDB"
           \/ op = "APPENDSYNC" /\ replState = "SEND_SYNC" /\ replState' = "RECEIVE_APPENDSYNC"
  BY DEF ReceivePong, ReceiveReplconfOk, ReceiveSyncAnswer, WriteRegistered, EventsUnchanged
<1>2. PICK s, q : s = Pipe /\ q = Pipe'
  OBVIOUS
<1>3. 1 \in 1 .. Len(s) /\ s[1].op = op /\ 1 \in 0 .. Len(readBuf) /\ Tail(readBuf) = Rest(readBuf, 1)
  BY <1>1, <1>2, HeadOfPipe
<1>4. /\ UNCHANGED <<backlog, peer, toSlave, link, executed, merged, reader>>
      /\ q \in Seq(ToSlave) /\ s \in Seq(ToSlave) /\ Drops(q, s, 1)
  BY <1>1, <1>2, <1>3, TurnGap DEF slaveData
<1>5. link = "up"
  BY <1>4
<1>6. Whole => Whole'
  <2>1. \A i \in 1 .. 1 : s[i].op # "BYTE"
    BY <1>1, <1>3
  <2>2. Whole /\ reader = "readFromClient" => StartsWhole(toSlave)
    BY DEF Whole
  <2>3. QED
    BY <1>1, <1>2, <1>3, <1>4, <2>1, <2>2, TurnWhole
<1>7. ~Blocked(s, 0, "up")
  BY <1>1, <1>3, BlockedAtByte
<1>8. ASSUME Stuck PROVE Stuck'
  <2>1. replState = "SEND_SYNC" /\ reader = "repliReadHandler"
    BY <1>2, <1>7, <1>8 DEF Stuck
  <2>2. PICK j \in 1 .. Len(s) : s[j].op = "APPENDSYNC" /\ (j # 1 \/ Blocked(s, j, "up"))
    BY <1>2, <1>8, <2>1 DEF Stuck
  <2>3. op \in {"FULLSYNC", "APPENDSYNC"} /\ replState' # "SEND_SYNC"
    BY <1>1, <2>1
  <2>4. j = 1
    <3>1. Once(s, {"FULLSYNC", "APPENDSYNC"})
      BY <1>2, <1>5, <2>1 DEF ConnInv, Phase, SendSync, Awaits
    <3>2. QED
      BY <1>3, <2>2, <2>3, <3>1 DEF Once
  <2>5. Blocked(s, 1, "up") /\ 1 \in Nat /\ 1 <= 1
    BY <2>2, <2>4
  <2>6. \A i \in 1 .. 1 : i > 1 => s[i] # Byte(0)
    OBVIOUS
  <2>7. Blocked(q, 0, "up")
    BY <1>4, <2>5, <2>6, TakenOrder
  <2>8. QED
    BY <1>2, <1>4, <2>1, <2>3, <2>7 DEF Stuck
<1>9. /\ NoneOf(s, {"BYTE"}) => NoneOf(q, {"BYTE"})
      /\ NoneOf(s, {"OK"}) => NoneOf(q, {"OK"})
  BY <1>4, TakenOps
<1>10. op = "OK" => peer.slave
  <2>1. op = "OK" => ~NoneOf(s, {"OK"})
    BY <1>3 DEF NoneOf
  <2>2. QED
    BY <1>1, <1>2, <1>5, <2>1 DEF Gapless
<1>11. replState' = "SEND_REPLCONF" /\ ~NoneOf(q, {"OK"}) => peer.slave
  <2>1. op = "PONG" => NoneOf(s, {"OK"})
    <3>1. op = "PONG" => OpsIn(s, {"PONG"})
      BY <1>1, <1>2, <1>5 DEF ConnInv, Phase, Connecting
    <3>2. QED
      BY <3>1 DEF OpsIn, NoneOf
  <2>2. QED
    BY <1>1, <1>9, <2>1
<1>12. replState' \notin {"CONNECTING", "SEND_REPLCONF"} => peer.slave
  BY <1>1, <1>5, <1>10 DEF Gapless
<1>13. QED
  BY <1>2, <1>4, <1>5, <1>6, <1>8, <1>9, <1>11, <1>12 DEF Gapless

\* The snapshot is taken from the stream.
LEMMA RdbGap ==
  ASSUME TypeOK, ConnInv, Gapless, ReceiveRdb
  PROVE  Gapless'
<1> SUFFICES ASSUME link' = "up" PROVE Gapless'
  BY DEF Gapless
<1>1. /\ replState = "RECEIVE_RDB" /\ HeadIs(readBuf, "LEN") /\ Len(readBuf) > 1
      /\ Turn(Rest(readBuf, 2)) /\ replState' = "CONNECTED"
      /\ UNCHANGED <<reader, executed, merged>>
  BY DEF ReceiveRdb, WriteRegistered
<1>2. PICK s, q : s = Pipe /\ q = Pipe'
  OBVIOUS
<1>3. 1 \in 1 .. Len(s) /\ s[1].op = "LEN" /\ 2 \in 0 .. Len(readBuf) /\ Len(s) >= 2
  <2>1. 1 \in 1 .. Len(s) /\ s[1].op = "LEN"
    BY <1>1, <1>2, HeadOfPipe
  <2>2. Len(readBuf) \in Nat /\ Len(s) \in Nat /\ Len(readBuf) <= Len(s)
    BY <1>2, BufferIsFirst
  <2>3. QED
    BY <1>1, <2>1, <2>2
<1>4. /\ UNCHANGED <<backlog, peer, toSlave, link>>
      /\ q \in Seq(ToSlave) /\ s \in Seq(ToSlave) /\ Drops(q, s, 2)
  BY <1>1, <1>2, <1>3, TurnGap
<1>5. link = "up" /\ peer.slave
  BY <1>1, <1>4 DEF Gapless
<1>6. ReceivingRdb
  BY <1>1, <1>5 DEF ConnInv, Phase
<1>7. \A i \in 1 .. 2 : s[i].op # "BYTE"
  <2>1. Framed(s, "up")
    BY <1>2, <1>5, <1>6 DEF ReceivingRdb
  <2>2. s[1 + 1].op = "RDB"
    BY <1>3, <2>1 DEF Framed
  <2>3. \A i \in 1 .. 2 : i = 1 \/ i = 2
    OBVIOUS
  <2>4. QED
    BY <1>3, <2>2, <2>3
<1>8. reader = "repliReadHandler"
  BY <1>6 DEF ReceivingRdb, Fresh
<1>9. ~Stuck
  BY <1>1, <1>2, <1>3, BlockedAtByte DEF Stuck
<1>10. Whole => Whole'
  BY <1>1, <1>2, <1>3, <1>7, <1>8, TurnWhole
<1>11. QED
  BY <1>1, <1>4, <1>5, <1>9, <1>10 DEF Gapless

\* Behind a buffer that was cut within a command the slave is blocked.
LEMMA MangledBlocks ==
  ASSUME TypeOK, HeadIs(readBuf, "BYTE"), Turn(<<Byte(0)>> \o Tail(readBuf)), NEW conn
  PROVE  Blocked(Pipe', 0, conn)
<1>1. UNCHANGED <<toSlave, peer>>
  BY DEF Turn, masterVars, netVars
<1>2. PICK z, t, e : z = <<Byte(0)>> /\ t = Tail(readBuf) /\ e = z \o t
  OBVIOUS
<1>3. Byte(0) \in ToSlave /\ Byte(0).op = "BYTE"
  BY MessagesAre
<1>4. z \in Seq(ToSlave) /\ Len(z) = 1 /\ z[1] = Byte(0)
  BY <1>2, <1>3
<1>5. t \in Seq(ToSlave)
  BY <1>2, TailTypes
<1>6. e \in Seq(ToSlave) /\ Joined(e, z, t)
  BY <1>2, <1>4, <1>5, JoinedIs
<1>7. e[1] = Byte(0) /\ 1 \in 1 .. Len(e)
  <2>1. PICK p, m, n \in Nat : Halves(e, z, t, p, m, n)
    BY <1>4, <1>5, <1>6, Places
  <2>2. m = 1 /\ p = Len(e) /\ \A i \in 1 .. m : i \in 1 .. p /\ e[i] = z[i]
    BY <1>4, <2>1 DEF Halves
  <2>3. QED
    BY <1>4, <2>2
<1>8. PICK q : q = Pipe'
  OBVIOUS
<1>9. readBuf' = e
  BY <1>2 DEF Turn
<1>10. q = PipeOf(e, toSlave, peer.writeBuf)
  BY <1>1, <1>8, <1>9 DEF Pipe, PipeOf
<1>11. q \in Seq(ToSlave) /\ Begins(e, q)
  BY <1>6, <1>10, PipeIs, PipeParts, PipeHead
<1>12. q[1] = Byte(0) /\ 1 \in 1 .. Len(q)
  <2>1. PICK m, n : m = Len(e) /\ n = Len(q)
    OBVIOUS
  <2>2. m \in Nat /\ n \in Nat /\ m <= n /\ \A i \in 1 .. m : q[i] = e[i]
    BY <1>6, <1>11, <2>1, SeqIs DEF Begins
  <2>3. QED
    BY <1>7, <2>1, <2>2
<1>13. ASSUME NEW j \in 1 .. Len(q), q[j].op # "BYTE" PROVE 1 < j
  BY <1>3, <1>12, <1>13
<1>14. QED
  BY <1>8, <1>12, <1>13 DEF Blocked

\* The buffer is cut within a command, and the slave gets no further.
LEMMA MangledGap ==
  ASSUME TypeOK, ConnInv, Gapless, ReceiveRdbMangled
  PROVE  Gapless'
<1> SUFFICES ASSUME link' = "up" PROVE Gapless'
  BY DEF Gapless
<1>1. /\ replState = "RECEIVE_RDB" /\ HeadIs(readBuf, "BYTE")
      /\ Turn(<<Byte(0)>> \o Tail(readBuf)) /\ replState' = "CONNECTED"
      /\ reader' = reader
  BY DEF ReceiveRdbMangled, WriteRegistered
<1>2. UNCHANGED <<peer, link>>
  BY <1>1 DEF Turn, masterVars, netVars
<1>3. link = "up" /\ peer.slave
  BY <1>1, <1>2 DEF Gapless
<1>4. reader = "repliReadHandler"
  BY <1>1, <1>3 DEF ConnInv, Phase, ReceivingRdb, Fresh
<1>5. Blocked(Pipe', 0, "up")
  BY <1>1, <1>3, MangledBlocks
<1>6. Stuck'
  BY <1>1, <1>4, <1>5 DEF Stuck
<1>7. QED
  BY <1>1, <1>2, <1>3, <1>6 DEF Gapless

\* What doAppendSync executes is at the head of the pipe.
LEMMA AppendsyncExecutes ==
  ASSUME TypeOK, ReceiveAppendsync, executed = <<>>
  PROVE  \E m \in Nat, x \in Seq(Nat) :
           /\ executed' = x /\ Len(x) = m
           /\ 2 * m \in 0 .. Len(readBuf) /\ Turn(Rest(readBuf, 2 * m))
           /\ \A i \in 1 .. m : /\ x[i] \in Nat \ {0}
                                /\ Pipe[2 * i - 1] = Byte(2 * x[i] - 1) /\ Pipe[2 * i] = Byte(2 * x[i])
<1>1. PICK m, f, k : /\ m = Leading(readBuf) /\ f = [i \in 1 .. m |-> (readBuf[2 * i].n) \div 2]
                     /\ k = 2 * m
  OBVIOUS
<1>2. executed' = executed \o f /\ Turn(Rest(readBuf, k))
  BY <1>1 DEF ReceiveAppendsync, doAppendSync, CmdLen
<1>3. /\ m \in Nat /\ k \in 0 .. Len(readBuf)
      /\ \A i \in 1 .. m : \E c \in Nat \ {0} :
           readBuf[2 * i - 1] = Byte(2 * c - 1) /\ readBuf[2 * i] = Byte(2 * c)
  BY <1>1, LeadingIs DEF TypeOK
<1>4. PICK s : s = Pipe
  OBVIOUS
<1>5. Len(readBuf) \in Nat /\ \A i \in 1 .. Len(readBuf) : s[i] = readBuf[i]
  BY <1>4, BufferIsFirst
<1>6. ASSUME NEW i \in 1 .. m
      PROVE  f[i] \in Nat \ {0} /\ s[2 * i - 1] = Byte(2 * f[i] - 1) /\ s[2 * i] = Byte(2 * f[i])
  <2>1. PICK c \in Nat \ {0} : readBuf[2 * i - 1] = Byte(2 * c - 1) /\ readBuf[2 * i] = Byte(2 * c)
    BY <1>3
  <2>2. 2 * i - 1 \in 1 .. Len(readBuf) /\ 2 * i \in 1 .. Len(readBuf)
    BY <1>1, <1>3, <1>5
  <2>3. s[2 * i - 1] = Byte(2 * c - 1) /\ s[2 * i] = Byte(2 * c)
    BY <1>5, <2>1, <2>2
  <2>4. f[i] = (readBuf[2 * i].n) \div 2
    BY <1>1
  <2>5. readBuf[2 * i].n = 2 * c
    BY <2>1 DEF Byte
  <2>6. f[i] = c
    BY <2>4, <2>5
  <2>7. QED
    BY <2>3, <2>6
<1>7. f \in Seq(Nat) /\ Len(f) = m
  <2>1. f \in [1 .. m -> Nat]
    BY <1>1, <1>6
  <2>2. f \in Seq(Nat)
    BY <1>3, <2>1, SeqDef
  <2>3. DOMAIN f = 1 .. m
    BY <2>1
  <2>4. QED
    BY <1>3, <2>2, <2>3, LenProperties
<1>8. executed' = f
  BY <1>2, <1>7, ConcatEmptySeq
<1>9. QED
  BY <1>1, <1>2, <1>3, <1>4, <1>6, <1>7, <1>8

\* doAppendSync moves the commands at the head of the stream to those executed.
LEMMA AppendsyncGap ==
  ASSUME TypeOK, ConnInv, Gapless, ReceiveAppendsync
  PROVE  Gapless'
<1> SUFFICES ASSUME link' = "up" PROVE Gapless'
  BY DEF Gapless
<1>1. /\ replState = "RECEIVE_APPENDSYNC" /\ replState' = "CONNECTED"
      /\ UNCHANGED <<reader, merged>>
  BY DEF ReceiveAppendsync, EventsUnchanged, doAppendSync
<1>2. link = "up"
  BY DEF ReceiveAppendsync, doAppendSync, Turn, netVars
<1>3. ReceivingAppendsync
  BY <1>1, <1>2 DEF ConnInv, Phase
<1>4. executed = <<>> /\ reader = "repliReadHandler"
  BY <1>3 DEF ReceivingAppendsync, Fresh
<1>5. PICK m \in Nat, x \in Seq(Nat) :
        /\ executed' = x /\ Len(x) = m
        /\ 2 * m \in 0 .. Len(readBuf) /\ Turn(Rest(readBuf, 2 * m))
        /\ \A i \in 1 .. m : /\ x[i] \in Nat \ {0}
                             /\ Pipe[2 * i - 1] = Byte(2 * x[i] - 1) /\ Pipe[2 * i] = Byte(2 * x[i])
  BY <1>4, AppendsyncExecutes
<1>6. PICK s, q : s = Pipe /\ q = Pipe'
  OBVIOUS
<1>7. /\ UNCHANGED <<backlog, peer, toSlave, link>>
      /\ q \in Seq(ToSlave) /\ s \in Seq(ToSlave) /\ Drops(q, s, 2 * m)
      /\ Paired(s) => Paired(q)
      /\ Unsplit(readBuf, toSlave) => Unsplit(readBuf', toSlave')
  BY <1>5, <1>6, TurnGap
<1>8. peer.slave
  BY <1>1, <1>2 DEF Gapless
<1>9. ASSUME Whole PROVE Whole'
  <2>1. \A i \in 1 .. m : s[2 * i - 1] = Byte(2 * x[i] - 1) /\ s[2 * i] = Byte(2 * x[i])
    BY <1>5, <1>6
  <2>2. \A n : InBytes(n, s) <=> InBytes(n, q) \/ InCommands(n, x)
    BY <1>5, <1>7, <2>1, CommandsTaken
  <2>3. \A n : ~InCommands(n, <<>>)
    <3>1. ~ \E i \in 1 .. 0 : TRUE
      OBVIOUS
    <3>2. QED
      BY <3>1, EmptyIs DEF InCommands
  <2>4. \A n \in Nat : Held(n, q, x) <=> Held(n, s, <<>>)
    BY <2>2, <2>3 DEF Held
  <2>5. \A l : Closed(s, <<>>, l) => Closed(q, x, l)
    BY <2>4, SameClosed
  <2>6. QED
    BY <1>1, <1>4, <1>5, <1>6, <1>7, <1>9, <2>5 DEF Whole
<1>10. ASSUME Stuck PROVE Stuck'
  <2>1. Blocked(s, 0, "up")
    BY <1>1, <1>6, <1>10 DEF Stuck
  <2>2. ASSUME NEW i \in 1 .. 2 * m PROVE s[i] # Byte(0)
    <3>1. \E j \in 1 .. m : i = 2 * j - 1 \/ i = 2 * j
      <4>1. PICK e : e = i \div 2
        OBVIOUS
      <4>2. e \in Nat /\ (i = 2 * e \/ i = 2 * e + 1)
        BY <4>1
      <4>3. CASE i = 2 * e
        BY <4>2, <4>3
      <4>4. CASE i = 2 * e + 1
        <5>1. e + 1 \in 1 .. m /\ i = 2 * (e + 1) - 1
          BY <4>2, <4>4
        <5>2. QED
          BY <5>1
      <4>5. QED
        BY <4>2, <4>3, <4>4
    <3>2. PICK j \in 1 .. m : i = 2 * j - 1 \/ i = 2 * j
      BY <3>1
    <3>3. x[j] \in Nat \ {0} /\ (s[i] = Byte(2 * x[j] - 1) \/ s[i] = Byte(2 * x[j]))
      BY <1>5, <1>6, <3>2
    <3>4. 2 * x[j] # 0 /\ 2 * x[j] - 1 # 0
      BY <3>3
    <3>5. QED
      BY <3>3, <3>4, ByteIs
  <2>3. 0 \in Nat /\ 0 <= 2 * m /\ \A i \in 1 .. 2 * m : i > 0 => s[i] # Byte(0)
    BY <2>2
  <2>4. Blocked(q, 0, "up")
    BY <1>7, <2>1, <2>3, TakenOrder
  <2>5. QED
    BY <1>1, <1>4, <1>6, <2>4 DEF Stuck
<1>11. QED
  BY <1>1, <1>2, <1>7, <1>8, <1>9, <1>10 DEF Gapless

\* The steady state begins between two commands.
LEMMA ReceiveOkGap ==
  ASSUME TypeOK, ConnInv, Gapless, ReceiveOk
  PROVE  Gapless'
<1> SUFFICES ASSUME link' = "up" PROVE Gapless'
  BY DEF Gapless
<1>1. /\ replState = "CONNECTED" /\ HeadIs(readBuf, "OK") /\ Turn(Tail(readBuf))
      /\ UNCHANGED <<replState, executed, merged>>
  BY DEF ReceiveOk, slaveData
<1>2. PICK a, b, s, q, m : a = readBuf /\ b = toSlave /\ s = Pipe /\ q = Pipe' /\ m = Len(readBuf)
  OBVIOUS
<1>3. /\ 1 \in 1 .. Len(s) /\ s[1].op = "OK" /\ 1 \in 0 .. Len(readBuf) /\ Tail(readBuf) = Rest(readBuf, 1)
      /\ a # <<>> /\ 1 \in 1 .. m
  BY <1>1, <1>2, HeadOfPipe
<1>4. UNCHANGED <<backlog, peer, toSlave, link>>
  BY <1>1, <1>3, TurnGap
<1>5. link = "up" /\ peer.slave
  BY <1>1, <1>4 DEF Gapless
<1>6. ~Blocked(s, 0, "up")
  BY <1>3, BlockedAtByte
<1>7. ~Stuck
  BY <1>1, <1>2, <1>6 DEF Stuck
<1>8. OpsIn(s, {"OK", "BYTE"})
  BY <1>1, <1>2, <1>5, <1>6 DEF ConnInv, Phase, InSync, Clean
<1>9. ASSUME Whole, NEW c \in Nat \ {0}, b # <<>>, b[1] = Byte(2 * c) PROVE FALSE
  <2>1. /\ a \in Seq(ToSlave) /\ b \in Seq(ToSlave) /\ s = PipeOf(a, b, peer.writeBuf)
        /\ peer.writeBuf \in Seq(ToSlave)
    BY <1>2, PipeIs
  <2>2. PICK d, n : d = b \o peer.writeBuf /\ n = Len(b)
    OBVIOUS
  <2>3. d \in Seq(ToSlave) /\ Joined(s, a, d) /\ Joined(d, b, peer.writeBuf) /\ s \in Seq(ToSlave)
    BY <2>1, <2>2, PipeParts
  <2>4. m \in Nat /\ n \in Nat /\ 1 \in 1 .. n /\ Len(d) \in Nat /\ Len(peer.writeBuf) \in Nat
    BY <1>2, <1>9, <2>1, <2>2, <2>3, SeqIs
  <2>5. d[1] = b[1] /\ Len(d) = n + Len(peer.writeBuf)
    BY <2>2, <2>3, <2>4 DEF Joined
  <2>6. 1 \in 1 .. Len(d)
    BY <2>4, <2>5
  <2>7. s[m + 1] = d[1] /\ Len(s) = m + Len(d) /\ \A i \in 1 .. m : s[i] = a[i]
    BY <1>2, <2>3, <2>6 DEF Joined
  <2>8. m + 1 \in 1 .. Len(s) /\ m + 1 # 1 /\ (m + 1) - 1 = m /\ m \in 1 .. m
    BY <1>3, <2>4, <2>6, <2>7
  <2>9. s[m] = Byte(2 * c - 1) \/ s[m].op = "APPENDSYNC"
    <3>1. s[m + 1] = Byte(2 * c)
      BY <1>9, <2>5, <2>7
    <3>2. s[(m + 1) - 1] = Byte(2 * c - 1) \/ s[(m + 1) - 1].op = "APPENDSYNC"
      BY <1>2, <1>9, <2>8, <3>1 DEF Whole, Paired
    <3>3. QED
      BY <2>8, <3>2
  <2>10. s[m].op \in {"OK", "BYTE"}
    <3>1. m \in 1 .. Len(s)
      BY <1>3, <2>4, <2>7, <2>8
    <3>2. QED
      BY <1>8, <3>1 DEF OpsIn
  <2>11. a[m] = Byte(2 * c - 1)
    BY <2>7, <2>8, <2>9, <2>10
  <2>12. QED
    BY <1>2, <1>3, <1>9, <2>11 DEF Whole, Unsplit
<1>10. Whole => StartsWhole(toSlave)
  BY <1>2, <1>9 DEF StartsWhole
<1>11. Whole => Whole'
  <2>1. \A i \in 1 .. 1 : Pipe[i].op # "BYTE"
    BY <1>2, <1>3
  <2>2. QED
    BY <1>1, <1>3, <1>10, <2>1, TurnWhole
<1>12. QED
  BY <1>1, <1>4, <1>5, <1>7, <1>11 DEF Gapless

\* A read of the steady state that has held one message at a time so far.
LEMMA SteadyRead ==
  ASSUME TypeOK, ConnInv, Gapless, link' = "up", ~merged, reader = "readFromClient",
         NEW k \in Ends(toSlave), Receives(k), readBuf' = <<>>, UNCHANGED peer,
         NEW buf, buf = readBuf \o SubSeq(toSlave, 1, k)
  PROVE  /\ link = "up" /\ Whole /\ replState = "CONNECTED" /\ peer.slave
         /\ Clean(Pipe, executed, backlog.last)
         /\ buf \in Seq(ToSlave) /\ Len(buf) = Len(readBuf) + k
         /\ Pipe' \in Seq(ToSlave) /\ Pipe \in Seq(ToSlave) /\ Drops(Pipe', Pipe, Len(buf))
         /\ \A i \in 1 .. Len(buf) : i \in 1 .. Len(Pipe) /\ Pipe[i] = buf[i]
         /\ toSlave' # <<>> => /\ Len(buf) + 1 \in 1 .. Len(Pipe)
                               /\ toSlave'[1] = Pipe[Len(buf) + 1]
<1>1. toSlave' = Rest(toSlave, k) /\ watch = "read" /\ link = "up"
  BY DEF Receives, Polled
<1>2. replState = "CONNECTED" /\ Clean(Pipe, executed, backlog.last)
  BY <1>1, SteadyIsClean
<1>3. Whole /\ peer.slave
  BY <1>1, <1>2 DEF Gapless, Stuck
<1>4. PICK a, b, c, s, q, f, n :
        /\ a = readBuf /\ b = toSlave /\ c = peer.writeBuf /\ s = Pipe
        /\ f = Rest(toSlave, k) /\ q = PipeOf(<<>>, Rest(toSlave, k), c) /\ n = Len(buf)
  OBVIOUS
<1>5. /\ a \in Seq(ToSlave) /\ b \in Seq(ToSlave) /\ c \in Seq(ToSlave) /\ s \in Seq(ToSlave)
      /\ s = PipeOf(a, b, c)
  BY <1>4, PipeIs
<1>6. k \in 0 .. Len(b) /\ n = Len(a) + k /\ buf \in Seq(ToSlave) /\ f \in Seq(ToSlave)
  BY <1>4, PieceTypes
<1>7. Pipe' = q
  BY <1>1, <1>4 DEF Pipe, PipeOf
<1>8. q \in Seq(ToSlave) /\ Drops(q, s, n) /\ Begins(buf, s)
  <2>1. buf = a \o SubSeq(b, 1, k) /\ q = PipeOf(<<>>, Rest(b, k), c)
    BY <1>4
  <2>2. q \in Seq(ToSlave) /\ Drops(q, s, Len(buf)) /\ Begins(buf, s)
    BY <1>5, <1>6, <2>1, PipeTaken
  <2>3. QED
    BY <1>4, <2>2
<1>9. PICK m : m = Len(s)
  OBVIOUS
<1>10. m \in Nat /\ n \in Nat /\ n <= m /\ \A i \in 1 .. n : s[i] = buf[i]
  BY <1>4, <1>5, <1>6, <1>8, <1>9, SeqIs DEF Begins
<1>11. \A i \in 1 .. n : i \in 1 .. m /\ s[i] = buf[i]
  <2>1. \A i \in 1 .. n : i \in 1 .. m
    BY <1>10
  <2>2. QED
    BY <1>10, <2>1
<1>12. ASSUME f # <<>> PROVE n + 1 \in 1 .. m /\ f[1] = s[n + 1]
  <2>1. q = f \o c
    BY <1>4, <1>6, ConcatEmptySeq DEF PipeOf
  <2>2. Joined(q, f, c)
    BY <1>5, <1>6, <2>1, JoinedIs
  <2>3. 1 \in 1 .. Len(f) /\ Len(f) \in Nat /\ Len(c) \in Nat
    BY <1>5, <1>6, <1>12, SeqIs
  <2>4. q[1] = f[1] /\ Len(q) = Len(f) + Len(c)
    BY <2>2, <2>3 DEF Joined
  <2>5. 1 \in 1 .. Len(q)
    BY <2>3, <2>4
  <2>6. q[1] = s[1 + n] /\ Len(q) = m - n
    BY <1>8, <1>9, <2>5 DEF Drops
  <2>7. 1 + n = n + 1 /\ n + 1 \in 1 .. m
    BY <1>10, <2>3, <2>4, <2>6
  <2>8. QED
    BY <2>4, <2>6, <2>7
<1>13. QED
  BY <1>1, <1>2, <1>3, <1>4, <1>5, <1>6, <1>7, <1>8, <1>9, <1>11, <1>12

\* One command is executed, and the next begins behind it.
LEMMA SlaveExecutesGap ==
  ASSUME TypeOK, ConnInv, Gapless, SlaveExecutes
  PROVE  Gapless'
<1> SUFFICES ASSUME link' = "up" PROVE Gapless'
  BY DEF Gapless
<1>1. PICK k \in Ends(toSlave) :
        LET buf == readBuf \o SubSeq(toSlave, 1, k) IN
        /\ Receives(k) /\ HoldsCommand(buf)
        /\ executed' = Append(executed, buf[2].n \div 2)
        /\ merged' = (merged \/ Len(buf) > 2)
  BY DEF SlaveExecutes, CmdLen
<1>2. PICK buf : buf = readBuf \o SubSeq(toSlave, 1, k)
  OBVIOUS
<1>3. /\ reader = "readFromClient" /\ readBuf' = <<>> /\ UNCHANGED <<backlog, peer, replState, reader>>
      /\ link = "up" /\ watch = "read"
  BY <1>1 DEF SlaveExecutes, masterVars, Receives, Polled
<1>4. replState = "CONNECTED" /\ peer.slave
  BY <1>3, SteadyIsClean DEF Gapless
<1>5. ASSUME ~merged' PROVE Whole'
  <2>1. ~merged /\ ~(Len(buf) > 2)
    BY <1>1, <1>2, <1>5
  <2>2. PICK s, q, n : s = Pipe /\ q = Pipe' /\ n = Len(buf)
    OBVIOUS
  <2>3. /\ Whole /\ buf \in Seq(ToSlave) /\ n = Len(readBuf) + k
        /\ q \in Seq(ToSlave) /\ s \in Seq(ToSlave) /\ Drops(q, s, n)
        /\ \A i \in 1 .. n : s[i] = buf[i]
        /\ toSlave' # <<>> => n + 1 \in 1 .. Len(s) /\ toSlave'[1] = s[n + 1]
    BY <1>1, <1>2, <1>3, <2>1, <2>2, SteadyRead
  <2>4. n = 2
    <3>1. n >= 2
      BY <1>1, <1>2, <2>2, <2>3, HeldCommand
    <3>2. n \in Nat
      BY <2>2, <2>3, SeqIs
    <3>3. QED
      BY <2>1, <2>2, <3>1, <3>2
  <2>5. PICK c \in Nat \ {0} : buf[1] = Byte(2 * c - 1) /\ buf[2] = Byte(2 * c)
    BY <1>1, <1>2, <2>3, HeldCommand
  <2>6. s[1] = Byte(2 * c - 1) /\ s[2] = Byte(2 * c)
    BY <2>3, <2>4, <2>5
  <2>7. executed' = Append(executed, c)
    <3>1. buf[2].n = 2 * c
      BY <2>5, ByteIs
    <3>2. buf[2].n \div 2 = c
      BY <3>1
    <3>3. QED
      BY <1>1, <1>2, <3>2
  <2>8. Closed(q, executed', backlog'.last)
    <3>1. executed \in Seq(Nat) /\ Closed(s, executed, backlog.last) /\ backlog' = backlog
      BY <1>3, <2>2, <2>3 DEF TypeOK, Whole
    <3>2. QED
      BY <2>3, <2>4, <2>6, <2>7, <3>1, CommandTaken
  <2>9. Paired(q)
    BY <2>2, <2>3, PairedTaken DEF Whole
  <2>10. Unsplit(readBuf', toSlave')
    BY <1>3 DEF Unsplit
  <2>11. ASSUME toSlave' # <<>>, NEW d \in Nat \ {0}, toSlave'[1] = Byte(2 * d) PROVE FALSE
    <3>1. 3 \in 1 .. Len(s) /\ s[3] = Byte(2 * d)
      BY <2>3, <2>4, <2>11
    <3>2. s[3 - 1] = Byte(2 * d - 1) \/ s[3 - 1].op = "APPENDSYNC"
      BY <2>2, <2>3, <3>1 DEF Whole, Paired
    <3>3. s[2] = Byte(2 * d - 1)
      BY <2>6, <3>2, ByteIs
    <3>4. 2 * c = 2 * d - 1
      BY <2>6, <3>3, ByteIs
    <3>5. QED
      BY <3>4
  <2>12. StartsWhole(toSlave')
    BY <2>11 DEF StartsWhole
  <2>13. QED
    BY <2>2, <2>8, <2>9, <2>10, <2>12 DEF Whole
<1>6. QED
  BY <1>3, <1>4, <1>5 DEF Gapless

\* A read of one message that is no command: it is an answer, not half a command.
LEMMA SlaveIgnoresGap ==
  ASSUME TypeOK, ConnInv, Gapless, SlaveIgnores
  PROVE  Gapless'
<1> SUFFICES ASSUME link' = "up" PROVE Gapless'
  BY DEF Gapless
<1>1. PICK k \in Ends(toSlave) :
        LET buf == readBuf \o SubSeq(toSlave, 1, k) IN
        /\ Receives(k)
        /\ merged' = (merged \/ Len(buf) > 1)
  BY DEF SlaveIgnores
<1>2. PICK buf : buf = readBuf \o SubSeq(toSlave, 1, k)
  OBVIOUS
<1>3. /\ reader = "readFromClient" /\ readBuf' = <<>>
      /\ UNCHANGED <<backlog, peer, replState, reader, executed>>
      /\ link = "up" /\ watch = "read"
  BY <1>1 DEF SlaveIgnores, masterVars, Receives, Polled
<1>4. replState = "CONNECTED" /\ peer.slave
  BY <1>3, SteadyIsClean DEF Gapless
<1>5. ASSUME ~merged' PROVE Whole'
  <2>1. ~merged /\ ~(Len(buf) > 1)
    BY <1>1, <1>2, <1>5
  <2>2. PICK a, b, c, s, q, n, l, x :
          /\ a = readBuf /\ b = toSlave /\ c = peer.writeBuf /\ s = Pipe /\ q = Pipe' /\ n = Len(buf)
          /\ l = backlog.last /\ x = executed
    OBVIOUS
  <2>3. /\ Whole /\ buf \in Seq(ToSlave) /\ n = Len(a) + k
        /\ q \in Seq(ToSlave) /\ s \in Seq(ToSlave) /\ Drops(q, s, n)
        /\ \A i \in 1 .. n : i \in 1 .. Len(s) /\ s[i] = buf[i]
        /\ toSlave' # <<>> => n + 1 \in 1 .. Len(s) /\ toSlave'[1] = s[n + 1]
        /\ Clean(s, x, l)
    BY <1>1, <1>2, <1>3, <2>1, <2>2, SteadyRead
  <2>4. /\ a \in Seq(ToSlave) /\ b \in Seq(ToSlave) /\ c \in Seq(ToSlave) /\ s = PipeOf(a, b, c)
        /\ l \in Nat /\ x \in Seq(Nat)
    BY <2>2, PipeIs DEF TypeOK, BacklogState
  <2>5. k \in 1 .. Len(b) /\ k \in Ends(b)
    BY <2>2, PieceTypes
  <2>6. n = 1 /\ k = 1 /\ Len(a) = 0
    <3>1. Len(a) \in Nat
      BY <2>4, SeqIs
    <3>2. QED
      BY <2>1, <2>2, <2>3, <2>5, <3>1
  <2>7. 1 \in 1 .. Len(s) /\ Len(s) \in Nat /\ (s[1].op = "OK" \/ s[1].op = "BYTE") /\ s[1] \in ToSlave
    <3>1. OpsIn(s, {"OK", "BYTE"}) /\ 1 \in 1 .. Len(s)
      BY <2>3, <2>6 DEF Clean
    <3>2. QED
      BY <2>3, <3>1, SeqIs DEF OpsIn
  <2>8. Closed(s, x, l) /\ Paired(s)
    BY <2>2, <2>3 DEF Whole
  <2>9. s[1].op # "BYTE"
    <3> SUFFICES ASSUME s[1].op = "BYTE" PROVE FALSE
      OBVIOUS
    <3>1. PICK h : h = s[1].n
      OBVIOUS
    <3>2. h \in Nat /\ s[1] = Byte(h)
      BY <2>7, <3>1, MessagesAre
    <3>3. Held(h, s, x)
      BY <2>7, <3>2 DEF Held, InBytes
    <3>4. h \in 1 .. l /\ (h # l => Held(h + 1, s, x))
      BY <2>8, <3>2, <3>3 DEF Closed
    <3>5. b[1] = s[1] /\ 1 \in 1 .. Len(b) /\ Len(b) \in Nat /\ b # <<>> /\ s = b \o c
      <4>1. a = <<>>
        BY <2>4, <2>6, EmptySeq
      <4>2. s = b \o c
        BY <2>4, <4>1, ConcatEmptySeq DEF PipeOf
      <4>3. 1 \in 1 .. Len(b) /\ Len(b) \in Nat /\ b # <<>>
        BY <2>4, <2>5, <2>6, SeqIs
      <4>4. Joined(b \o c, b, c)
        BY <2>4, JoinedIs
      <4>5. QED
        BY <4>2, <4>3, <4>4 DEF Joined
    <3>6. \A d \in Nat \ {0} : h # 2 * d
      <4>1. StartsWhole(b)
        BY <1>3, <2>2, <2>3 DEF Whole
      <4>2. \A d \in Nat \ {0} : b[1] # Byte(2 * d)
        BY <3>5, <4>1 DEF StartsWhole
      <4>3. QED
        BY <3>2, <3>5, <4>2
    <3>7. PICK d \in Nat \ {0} : h = 2 * d - 1
      <4>1. PICK e : e = h \div 2
        OBVIOUS
      <4>2. e \in Nat /\ (h = 2 * e \/ h = 2 * e + 1)
        BY <3>2, <4>1
      <4>3. h # 2 * e
        <5>1. e = 0 => h # 2 * e
          BY <3>4
        <5>2. QED
          BY <3>6, <4>2, <5>1
      <4>4. e + 1 \in Nat \ {0} /\ h = 2 * (e + 1) - 1
        BY <4>2, <4>3
      <4>5. QED
        BY <4>4
    <3>8. h + 1 = 2 * d /\ h # l
      <4>1. PICK e \in Nat : l = 2 * e
        BY <2>2 DEF ConnInv
      <4>2. QED
        BY <3>7, <4>1
    <3>9. \A i \in 1 .. Len(x) : x[i] \in Nat /\ 2 * x[i] < h
      <4>1. \A i \in 1 .. Len(x) : 2 * x[i] < s[1].n
        BY <2>3, <2>7 DEF Clean
      <4>2. QED
        BY <2>4, <3>1, <4>1, SeqIs
    <3>10. ~InCommands(h + 1, x)
      <4>1. ASSUME NEW i \in 1 .. Len(x), h + 1 = 2 * x[i] - 1 \/ h + 1 = 2 * x[i] PROVE FALSE
        <5>1. x[i] \in Nat /\ 2 * x[i] < h
          BY <3>9
        <5>2. QED
          BY <3>2, <4>1, <5>1
      <4>2. QED
        BY <4>1 DEF InCommands
    <3>11. PICK j \in 1 .. Len(s) : s[j] = Byte(2 * d)
      BY <3>4, <3>8, <3>10 DEF Held, InBytes
    <3>12. j # 1
      <4>1. h # 2 * d
        BY <3>6
      <4>2. QED
        BY <3>2, <3>11, <4>1, ByteIs
    <3>13. s[j - 1] = Byte(2 * d - 1) /\ j - 1 \in 1 .. Len(s)
      <4>1. s[j - 1] = Byte(2 * d - 1) \/ s[j - 1].op = "APPENDSYNC"
        BY <2>8, <3>11, <3>12 DEF Paired
      <4>2. j - 1 \in 1 .. Len(s)
        BY <2>7, <3>12
      <4>3. s[j - 1].op \in {"OK", "BYTE"}
        BY <2>3, <4>2 DEF Clean, OpsIn
      <4>4. QED
        BY <4>1, <4>2, <4>3
    <3>14. j = 2
      <4>1. CASE j - 1 > 1
        <5>1. \A i \in 1 .. Len(s) : i > 1 /\ s[i].op = "BYTE" => s[1].n < s[i].n
          BY <2>3, <2>7 DEF Clean, Rising
        <5>2. s[j - 1].op = "BYTE" /\ s[j - 1].n = h
          BY <3>7, <3>13, ByteIs
        <5>3. h < h
          BY <3>1, <3>13, <4>1, <5>1, <5>2
        <5>4. QED
          BY <3>2, <5>3
      <4>2. QED
        BY <2>7, <3>12, <3>13, <4>1
    <3>15. CASE 1 < Len(b)
      <4>1. b[1 + 1] = Byte(h + 1)
        <5>1. 2 \in 1 .. Len(b)
          BY <3>5, <3>15
        <5>2. Joined(s, b, c)
          BY <2>4, <3>5, JoinedIs
        <5>3. b[2] = s[2]
          BY <5>1, <5>2 DEF Joined
        <5>4. QED
          BY <3>8, <3>11, <3>14, <5>3
      <4>2. b[1].op = "BYTE" /\ b[1].n = h
        BY <3>2, <3>5, ByteIs
      <4>3. h % 2 = 1
        BY <3>7
      <4>4. 1 \in Ends(b)
        BY <2>5, <2>6
      <4>5. QED
        BY <3>15, <4>1, <4>2, <4>3, <4>4 DEF Ends, CmdLen
    <3>16. CASE ~(1 < Len(b))
      <4>1. Len(b) = 1
        <5>1. PICK g : g = Len(b)
          OBVIOUS
        <5>2. g \in Nat /\ 1 \in 1 .. g /\ ~(1 < g)
          BY <3>5, <3>16, <5>1
        <5>3. g = 1
          BY <5>2
        <5>4. QED
          BY <5>1, <5>3
      <4>2. Joined(s, b, c)
        BY <2>4, <3>5, JoinedIs
      <4>3. Len(c) \in Nat /\ Len(s) = 1 + Len(c)
        BY <2>4, <4>1, <4>2, SeqIs DEF Joined
      <4>4. 1 \in 1 .. Len(c)
        BY <3>11, <3>14, <4>3
      <4>5. s[1 + 1] = c[1]
        BY <4>1, <4>2, <4>4 DEF Joined
      <4>6. c # <<>>
        BY <4>4, EmptyIs
      <4>7. StartsWhole(c)
        BY <1>3, <2>2 DEF Gapless
      <4>8. QED
        BY <3>11, <3>14, <4>5, <4>6, <4>7 DEF StartsWhole
    <3>17. QED
      BY <3>15, <3>16
  <2>10. Closed(q, x, l)
    <3>1. \A i \in 1 .. 1 : s[i].op # "BYTE"
      BY <2>9
    <3>2. QED
      BY <2>3, <2>6, <2>8, <3>1, WordsTaken
  <2>11. Paired(q)
    BY <2>3, <2>8, PairedTaken
  <2>12. Unsplit(readBuf', toSlave')
    BY <1>3 DEF Unsplit
  <2>13. ASSUME toSlave' # <<>>, NEW d \in Nat \ {0}, toSlave'[1] = Byte(2 * d) PROVE FALSE
    <3>1. 2 \in 1 .. Len(s) /\ s[2] = Byte(2 * d)
      BY <2>3, <2>6, <2>13
    <3>2. s[2 - 1] = Byte(2 * d - 1) \/ s[2 - 1].op = "APPENDSYNC"
      BY <2>8, <3>1 DEF Paired
    <3>3. QED
      BY <2>7, <2>9, <3>2, ByteIs
  <2>14. StartsWhole(toSlave')
    BY <2>13 DEF StartsWhole
  <2>15. QED
    BY <1>3, <2>2, <2>10, <2>11, <2>12, <2>14 DEF Whole
<1>6. QED
  BY <1>3, <1>4, <1>5 DEF Gapless

\* Every step, on a connection that holds the connection's invariant.
LEMMA GapStep ==
  ASSUME TypeOK, RingHoldsTail, ConnInv, Gapless, [Next]_vars
  PROVE  Gapless'
<1> SUFFICES ASSUME link' = "up" PROVE Gapless'
  BY DEF Gapless
<1>1. CASE MasterWrite
  BY <1>1, MasterWriteGap
<1>2. CASE Master
  <2>1. CASE commandPingProc \/ commandReplconfProc \/ commandReplACKProc
    BY <2>1, RepliesGap
  <2>2. CASE MasterIgnoresOk
    BY <2>2, SameGap DEF MasterIgnoresOk, MasterReads, slaveConn, slaveData
  <2>3. CASE commandSyncProc
    BY <2>3, SyncGap
  <2>4. CASE MasterSends
    BY <2>4, SendsGap
  <2>5. QED
    BY <1>2, <2>1, <2>2, <2>3, <2>4 DEF Master
<1>3. CASE masterCheckSlave \/ LinkBreaks
  BY <1>3 DEF masterCheckSlave, LinkBreaks, ConnectionEnds
<1>4. CASE LoopTurn
  <2>1. CASE ReceivePong \/ ReceiveReplconfOk \/ ReceiveSyncAnswer
    BY <2>1, HandshakeGap
  <2>2. CASE ReceiveAppendsync
    BY <2>2, AppendsyncGap
  <2>3. CASE ReceiveRdb
    BY <2>3, RdbGap
  <2>4. CASE ReceiveRdbPart
    BY <2>4 DEF ReceiveRdbPart, Dies, ConnectFailed
  <2>5. CASE ReceiveRdbMangled
    BY <2>5, MangledGap
  <2>6. CASE ReceiveOk
    BY <2>6, ReceiveOkGap
  <2>7. CASE NothingAwaited
    BY <2>7, SameGap DEF NothingAwaited, masterVars, netVars, slaveConn, slaveData
  <2>8. QED
    BY <1>4, <2>1, <2>2, <2>3, <2>4, <2>5, <2>6, <2>7 DEF LoopTurn
<1>5. CASE SlaveReads
  <2>1. CASE RepliRead
    BY <2>1, RepliReadGap
  <2>2. CASE RepliReadEnd
    BY <2>2 DEF RepliReadEnd, Dies, ConnectFailed
  <2>3. CASE SlaveExecutes
    BY <2>3, SlaveExecutesGap
  <2>4. CASE SlaveIgnores
    BY <2>4, SlaveIgnoresGap
  <2>5. CASE SlaveReadEnd
    BY <2>5 DEF SlaveReadEnd, Polled
  <2>6. QED
    BY <1>5, <2>1, <2>2, <2>3, <2>4, <2>5 DEF SlaveReads
<1>6. CASE SlaveWrites
  <2>1. PICK out : Sends(out)
    BY <1>6 DEF SlaveWrites, repliWriteHandler, sendToClient
  <2>2. /\ link = "up"
        /\ UNCHANGED <<masterVars, toSlave, breaks, status, reading, replState,
                       readBuf, reader, writer, slaveData>>
    BY <2>1 DEF Sends, Dies, ConnectFailed
  <2>3. QED
    BY <2>2, SameGap DEF masterVars, slaveData
<1>7. CASE Heartbeat
  BY <1>7, SameGap DEF Heartbeat, masterVars, netVars, slaveData
<1>8. CASE HeartbeatReconnects \/ HeartbeatDies \/ MasterTimeout \/ Restart
  <2>1. Connected
    BY <1>8 DEF HeartbeatReconnects, HeartbeatDies, MasterTimeout, Restart,
                reconnectMaster, Dies, ConnectFailed
  <2>2. QED
    BY <2>1, ConnectGap
<1>9. CASE UNCHANGED vars
  BY <1>9, SameGap DEF vars, masterVars, netVars, slaveConn, slaveData
<1>10. QED
  BY <1>1, <1>2, <1>3, <1>4, <1>5, <1>6, <1>7, <1>8, <1>9 DEF Next, SlaveCron

LEMMA InitGap ==
  ASSUME Init
  PROVE  Gapless
<1>1. /\ readBuf = <<>> /\ toSlave = <<>> /\ peer = NewPeer /\ executed = <<>>
      /\ replState = "CONNECTING" /\ reader = "repliReadHandler"
  BY DEF Init
<1>2. peer.writeBuf = <<>>
  BY <1>1 DEF NewPeer
<1>3. Pipe = <<>>
  BY <1>1, <1>2, NothingIsWhole DEF Pipe, PipeOf
<1>4. Whole
  BY <1>1, <1>3, NothingIsWhole DEF Whole
<1>5. QED
  BY <1>1, <1>2, <1>3, <1>4, NothingIsWhole DEF Gapless

\* A set of numbers up to l that holds with each all that follow is an interval.
LEMMA ClosedIsInterval ==
  ASSUME NEW l \in Nat, NEW T \in SUBSET Nat,
         \A n \in T : n \in 1 .. l /\ (n # l => n + 1 \in T)
  PROVE  \E n \in 0 .. l : T = n + 1 .. l
<1>1. CASE T = {}
  <2>1. l \in 0 .. l /\ l + 1 .. l = {}
    OBVIOUS
  <2>2. QED
    BY <1>1, <2>1
<1>2. CASE T # {}
  <2>1. PICK m \in T : \A n \in T : m <= n
    <3>1. SUFFICES ASSUME \A j \in T : \E n \in T : ~(j <= n) PROVE FALSE
      OBVIOUS
    <3>2. PICK Out : Out = {k \in 0 .. l : k \notin T}
      OBVIOUS
    <3>3. ASSUME NEW k \in 0 .. l, \A j \in 0 .. k - 1 : j \in Out PROVE k \in Out
      <4>1. SUFFICES ASSUME k \in T PROVE FALSE
        BY <3>2
      <4>2. PICK n \in T : ~(k <= n)
        BY <3>1, <4>1
      <4>3. n \in 0 .. k - 1
        BY <4>2
      <4>4. QED
        BY <3>2, <3>3, <4>2, <4>3
    <3>4. \A k \in 0 .. l : k \in Out
      BY <3>3, NumberInduction
    <3>5. PICK n : n \in T
      BY <1>2
    <3>6. n \in 0 .. l
      BY <3>5
    <3>7. QED
      BY <3>2, <3>4, <3>5, <3>6
  <2>2. m \in 1 .. l
    OBVIOUS
  <2>3. PICK Good : Good = {k \in 0 .. l : k < m \/ k \in T}
    OBVIOUS
  <2>4. ASSUME NEW k \in 0 .. l, \A j \in 0 .. k - 1 : j \in Good PROVE k \in Good
    <3>1. CASE k <= m
      BY <2>2, <2>3, <3>1
    <3>2. CASE k > m
      <4>1. k - 1 \in 0 .. k - 1 /\ k - 1 >= m /\ k - 1 # l
        BY <2>2, <3>2
      <4>2. k - 1 \in Good
        BY <2>4, <4>1
      <4>3. k - 1 \in T
        BY <2>2, <2>3, <4>1, <4>2
      <4>4. (k - 1) + 1 \in T
        BY <4>1, <4>3
      <4>5. QED
        BY <2>3, <4>4
    <3>3. QED
      BY <2>2, <3>1, <3>2
  <2>5. \A k \in 0 .. l : k \in Good
    BY <2>4, NumberInduction
  <2>6. T = m .. l
    <3>1. \A k \in T : k \in m .. l
      BY <2>1
    <3>2. \A k \in m .. l : k \in T
      BY <2>2, <2>3, <2>5
    <3>3. QED
      BY <3>1, <3>2
  <2>7. m - 1 \in 0 .. l /\ (m - 1) + 1 = m
    BY <2>2
  <2>8. QED
    BY <2>6, <2>7
<1>3. QED
  BY <1>1, <1>2

\* The bytes of a pipe and of what was executed, as sets.
LEMMA BytesAre ==
  ASSUME NEW s \in Seq(ToSlave), NEW x \in Seq(Nat), \A i \in 1 .. Len(x) : x[i] # 0
  PROVE  /\ BytesIn(s) = {n \in Nat : InBytes(n, s)}
         /\ BytesOf(x) = {n \in Nat : InCommands(n, x)}
<1>1. ASSUME NEW t \in Seq(ToSlave) PROVE BytesIn(t) = {n \in Nat : InBytes(n, t)}
  <2>1. DOMAIN t = 1 .. Len(t) /\ \A i \in 1 .. Len(t) : t[i] \in ToSlave
    BY SeqIs
  <2>2. \A i \in 1 .. Len(t) : t[i].n \in Nat /\ (t[i].op = "BYTE" => t[i] = Byte(t[i].n))
    BY <2>1, MessagesAre
  <2>3. \A n \in BytesIn(t) : n \in Nat /\ InBytes(n, t)
    BY <2>1, <2>2 DEF BytesIn, IsByte, InBytes
  <2>4. ASSUME NEW n \in Nat, InBytes(n, t) PROVE n \in BytesIn(t)
    <3>1. PICK i \in 1 .. Len(t) : t[i] = Byte(n)
      BY <2>4 DEF InBytes
    <3>2. t[i].op = "BYTE" /\ t[i].n = n
      BY <3>1, ByteIs
    <3>3. QED
      BY <2>1, <3>2 DEF BytesIn, IsByte
  <2>5. QED
    BY <2>3, <2>4
<1>2. \A i \in 1 .. Len(x) : x[i] \in Nat \ {0}
  BY SeqIs
<1>3. ASSUME NEW c \in Nat \ {0} PROVE BytesIn(Command(c)) = {2 * c - 1, 2 * c}
  <2>1. PICK t : t = Command(c)
    OBVIOUS
  <2>2. /\ t \in Seq(ToSlave) /\ Len(t) = 2 /\ t[1] = Byte(2 * c - 1) /\ t[2] = Byte(2 * c)
        /\ 2 * c \in Nat /\ 2 * c - 1 \in Nat
    BY <2>1, CommandIs
  <2>3. \A n : InBytes(n, t) <=> n = 2 * c - 1 \/ n = 2 * c
    <3>1. 1 \in 1 .. 2 /\ 2 \in 1 .. 2 /\ \A i \in 1 .. 2 : i = 1 \/ i = 2
      OBVIOUS
    <3>2. \A n : InBytes(n, t) <=> Byte(2 * c - 1) = Byte(n) \/ Byte(2 * c) = Byte(n)
      BY <2>2, <3>1 DEF InBytes
    <3>3. QED
      BY <3>2, ByteIs
  <2>4. BytesIn(t) = {n \in Nat : InBytes(n, t)}
    BY <1>1, <2>2
  <2>5. QED
    BY <2>1, <2>2, <2>3, <2>4
<1>4. DOMAIN x = 1 .. Len(x)
  BY SeqIs
<1>5. \A n \in BytesOf(x) : n \in Nat /\ InCommands(n, x)
  <2>1. ASSUME NEW n \in BytesOf(x) PROVE n \in Nat /\ InCommands(n, x)
    <3>1. PICK i \in 1 .. Len(x) : n \in BytesIn(Command(x[i]))
      BY <1>4 DEF BytesOf
    <3>2. PICK c \in Nat \ {0} : c = x[i]
      BY <1>2
    <3>3. n = 2 * c - 1 \/ n = 2 * c
      BY <1>3, <3>1, <3>2
    <3>4. n \in Nat
      BY <3>3
    <3>5. QED
      BY <3>2, <3>3, <3>4 DEF InCommands
  <2>2. QED
    BY <2>1
<1>6. ASSUME NEW n \in Nat, InCommands(n, x) PROVE n \in BytesOf(x)
  <2>1. PICK i \in 1 .. Len(x) : n = 2 * x[i] - 1 \/ n = 2 * x[i]
    BY <1>6 DEF InCommands
  <2>2. n \in BytesIn(Command(x[i]))
    BY <1>2, <1>3, <2>1
  <2>3. QED
    BY <1>4, <2>2 DEF BytesOf
<1>7. BytesIn(s) = {n \in Nat : InBytes(n, s)}
  BY <1>1
<1>8. QED
  BY <1>5, <1>6, <1>7

\* In the steady state what was executed and what is to come are the end of the
\* history.
LEMMA WholeIsIntact ==
  ASSUME TypeOK, ConnInv, Gapless
  PROVE  StreamIntact
<1> SUFFICES ASSUME reader = "readFromClient", link = "up", ~merged
             PROVE  LET done == BytesOf(executed)
                        come == BytesIn(Pipe)
                    IN  /\ \E n \in 0 .. backlog.last : done \cup come = n + 1 .. backlog.last
                        /\ Ordered(executed)
                        /\ \A m \in done, n \in come : m < n
                        /\ \A i, j \in DOMAIN Pipe :
                             i < j /\ IsByte(Pipe[i]) /\ IsByte(Pipe[j]) => Pipe[i].n < Pipe[j].n
  BY DEF StreamIntact
<1>1. PICK s, x, l : s = Pipe /\ x = executed /\ l = backlog.last
  OBVIOUS
<1>2. s \in Seq(ToSlave) /\ x \in Seq(Nat) /\ l \in Nat
  BY <1>1, PipeIs DEF TypeOK, BacklogState
<1>3. Clean(s, x, l)
  BY <1>1
  DEF ConnInv, Phase, Connecting, SendReplconf, SendSync, ReceivingRdb, ReceivingAppendsync, Fresh, InSync
<1>4. Closed(s, x, l)
  BY <1>1 DEF Gapless, Stuck, Whole
<1>5. \A i \in 1 .. Len(x) : x[i] # 0
  <2>1. ASSUME NEW i \in 1 .. Len(x), x[i] = 0 PROVE FALSE
    <3>1. 0 = 2 * x[i] /\ 0 \in Nat
      BY <2>1
    <3>2. Held(0, s, x)
      BY <3>1 DEF Held, InCommands
    <3>3. 0 \in 1 .. l
      BY <1>4, <3>1, <3>2 DEF Closed
    <3>4. QED
      BY <1>2, <3>3
  <2>2. QED
    BY <2>1
<1>6. PICK done, come : done = BytesOf(x) /\ come = BytesIn(s)
  OBVIOUS
<1>7. come = {n \in Nat : InBytes(n, s)} /\ done = {n \in Nat : InCommands(n, x)}
  BY <1>2, <1>5, <1>6, BytesAre
<1>8. \E n \in 0 .. l : done \cup come = n + 1 .. l
  <2>1. PICK T : T = done \cup come
    OBVIOUS
  <2>2. T \in SUBSET Nat /\ \A n \in Nat : n \in T <=> Held(n, s, x)
    BY <1>7, <2>1 DEF Held
  <2>3. ASSUME NEW n \in T PROVE n \in 1 .. l /\ (n # l => n + 1 \in T)
    <3>1. n \in Nat /\ Held(n, s, x) /\ n + 1 \in Nat
      BY <2>2
    <3>2. n \in 1 .. l /\ (n # l => Held(n + 1, s, x))
      BY <1>4, <3>1 DEF Closed
    <3>3. QED
      BY <2>2, <3>1, <3>2
  <2>4. \E n \in 0 .. l : T = n + 1 .. l
    BY <1>2, <2>2, <2>3, ClosedIsInterval
  <2>5. QED
    BY <2>1, <2>4
<1>9. ASSUME NEW m \in done, NEW n \in come PROVE m < n
  <2>1. m \in Nat /\ n \in Nat /\ InCommands(m, x) /\ InBytes(n, s)
    BY <1>7
  <2>2. PICK i \in 1 .. Len(x) : m = 2 * x[i] - 1 \/ m = 2 * x[i]
    BY <2>1 DEF InCommands
  <2>3. PICK j \in 1 .. Len(s) : s[j] = Byte(n)
    BY <2>1 DEF InBytes
  <2>4. s[j].op = "BYTE" /\ s[j].n = n
    BY <2>3, ByteIs
  <2>5. 2 * x[i] < n
    BY <1>3, <2>4 DEF Clean
  <2>6. x[i] \in Nat
    BY <1>2, SeqIs
  <2>7. QED
    BY <2>1, <2>2, <2>5, <2>6
<1>10. ASSUME NEW i \in DOMAIN s, NEW j \in DOMAIN s, i < j, IsByte(s[i]), IsByte(s[j])
       PROVE  s[i].n < s[j].n
  <2>1. i \in 1 .. Len(s) /\ j \in 1 .. Len(s)
    BY <1>2, SeqIs
  <2>2. i > 0 /\ j > i
    BY <1>10, <2>1
  <2>3. QED
    BY <1>3, <1>10, <2>1, <2>2 DEF Clean, Rising, IsByte
<1>11. Ordered(executed)
  BY <1>1, <1>3 DEF Clean
<1>12. QED
  BY <1>1, <1>6, <1>8, <1>9, <1>10, <1>11

\* As long as a slave in the steady state has read its messages one by one, what
\* it executed, what is on its way and what the master is about to send are the
\* end of the history, in order and without a gap: neither the answer to SYNC
\* nor the handover to readFromClient loses, repeats or splits a command.
THEOREM ReplicationStreamIntact == Spec => []StreamIntact
<1>1. Init => Gapless
  BY InitGap
<1>2. TypeOK /\ RingHoldsTail /\ ConnInv /\ Gapless /\ [Next]_vars => Gapless'
  BY GapStep
<1>3. TypeOK /\ ConnInv /\ Gapless => StreamIntact
  BY WholeIsIntact
<1>4. QED
  BY <1>1, <1>2, <1>3, ConnectionInvariant, RingKeepsTail, PTL DEF Spec
=============================================================================
