-------------------------------- MODULE Sds --------------------------------
(***************************************************************************)
(* The strings of sds.c and their use by one connection of a master with a *)
(* replica: the request is collected in readBuf, copied to a slot of the   *)
(* transaction queue and back, and copied to the replica's writeBuf        *)
(* (readFromClient, clientMultiAdd, commandExecProc, commandPropagate).    *)
(*                                                                         *)
(* A string has the bytes that were allocated for it and the two counters  *)
(* of the code.  Once something is written or searched past an allocation  *)
(* anything may happen, and the model stops.  The AOF, which does the same *)
(* to its buffers, is off; replies are left out.                           *)
(***************************************************************************)
EXTENDS Integers, Sequences, SequencesExt, FiniteSetsExt

CONSTANTS
  Lengths,      \* of the write commands; MULTI and EXEC are shorter than any
  Doubling,     \* strings below this length get twice their length
  QueueCap,     \* slots of multcmds; the model queues no more than that
  MaxReads      \* bound: requests read from the connection

ASSUME LengthsAssumption == Lengths \subseteq Nat \ {0, 1}
ASSUME BoundsAssumption == Doubling \in Nat /\ QueueCap \in Nat /\ MaxReads \in Nat

VARIABLES
  readBuf, multcmds, writeBuf,  \* writeBuf is the replica's
  multi,        \* REDIS_MULTI
  multiCmdCount,
  exec,         \* the slot commandExecProc is at, 0 outside of it
  reads,
  queue,        \* ghost: the requests that the slots stand for
  longest,      \* ghost: the length of the longest request ever queued
  last          \* ghost: the last write command, and what was propagated for it

strings == <<readBuf, multcmds, writeBuf>>
ghosts == <<queue, longest, last>>
vars == <<strings, multi, multiCmdCount, exec, reads, ghosts>>

MULTI == <<1>>
EXEC == <<2>>
Writes == {[i \in 1 .. n |-> n + 1] : n \in Lengths}
Requests == {MULTI, EXEC} \cup Writes

(***************************************************************************)
(* sds.c.                                                                  *)
(***************************************************************************)
NUL == 0

\* over: a byte past the allocation was touched.
sdsempty == [buf |-> <<NUL>>, len |-> 0, free |-> 0, over |-> FALSE]

newbuflen(newlen) == IF newlen < Doubling THEN newlen * 2 + 1 ELSE newlen + Doubling + 1

\* The bytes of buf with those of data copied to the place after n of them,
\* as far as they fit.
Copied(buf, n, data) ==
  [i \in DOMAIN buf |-> IF i > n /\ i <= n + Len(data) THEN data[i - n] ELSE buf[i]]

Zeros(n) == [i \in 1 .. n |-> NUL]

Grown(s, data) ==
  LET newlen == s.len + Len(data)
      size   == newbuflen(newlen)
  IN [s EXCEPT !.buf = Copied(SubSeq(s.buf, 1, s.len) \o Zeros(size - s.len), s.len, data),
               !.len = newlen, !.free = size - newlen - 1]

\* free stays what it was.
Filled(s, data) ==
  LET newlen == s.len + Len(data) IN
  [s EXCEPT !.buf = Copied(@, s.len, data), !.len = newlen,
            !.over = @ \/ newlen > Len(s.buf)]

\* Mutant: the space that is used up counts as free.
CatlenTotal(s, data) ==
  IF Len(data) > s.len + s.free THEN Grown(s, data) ELSE Filled(s, data)

\* Mutant: free is lowered, also by what it was just computed for.
CatlenLowered(s, data) ==
  IF Len(data) > s.free THEN [Grown(s, data) EXCEPT !.free = @ - Len(data) - 1]
                        ELSE [Filled(s, data) EXCEPT !.free = @ - Len(data)]

sdscatlen(s, data) == IF Len(data) > s.free THEN Grown(s, data) ELSE Filled(s, data)

\* Mutant: only the counters are reset.
ClearCounters(s) == [s EXCEPT !.free = @ + s.len, !.len = 0]

sdsclear(s) ==
  [s EXCEPT !.buf = Copied(@, 0, Zeros(s.len)), !.free = @ + s.len, !.len = 0]

Content(s) == SubSeq(s.buf, 1, Min({s.len, Len(s.buf)}))

\* What strlen and strcat make of buf; without a NUL they do not stop at its end.
NULs(s) == {i \in DOMAIN s.buf : s.buf[i] = NUL}
CString(s) == IF NULs(s) = {} THEN s.buf ELSE SubSeq(s.buf, 1, Min(NULs(s)) - 1)

\* sdscatsds leaves its source empty; one byte is counted twice.
Emptied(s) == [s EXCEPT !.buf = Copied(@, 0, <<NUL>>), !.free = @ + s.len + 1, !.len = 0]

(***************************************************************************)
(* The handlers.  Overrun: the program is past its defined behaviour.      *)
(***************************************************************************)
Strings == {readBuf, writeBuf} \cup {multcmds[i] : i \in 1 .. QueueCap}
Overrun == \E s \in Strings : s.over

\* Mutant: the slot is not cleared first.
MultiAddAppends(s, slots) ==
  /\ multiCmdCount < QueueCap
  /\ multcmds' = [slots EXCEPT ![multiCmdCount + 1] = sdscatlen(@, Content(s))]
  /\ multiCmdCount' = multiCmdCount + 1
  /\ readBuf' = sdsclear(Emptied(s))
  /\ queue' = Append(queue, Content(s))
  /\ longest' = IF s.len > longest THEN s.len ELSE longest

\* s, the request in readBuf, is moved to the next slot.
clientMultiAdd(s, slots) ==
  /\ multiCmdCount < QueueCap
  /\ multcmds' = [slots EXCEPT ![multiCmdCount + 1] = sdscatlen(sdsclear(@), Content(s))]
  /\ multiCmdCount' = multiCmdCount + 1
  /\ readBuf' = sdsclear(Emptied(s))
  /\ queue' = Append(queue, Content(s))
  /\ longest' = IF s.len > longest THEN s.len ELSE longest

\* The replica gets readBuf->buf, as a C string.
commandPropagate(s) ==
  /\ writeBuf' = [sdscatlen(writeBuf, CString(s)) EXCEPT !.over = @ \/ NULs(s) = {}]
  /\ last' = [cmd |-> Content(s), bytes |-> CString(s)]

\* A request other than EXEC has arrived in readBuf, which is now s.
processClientQueryBuf(s, slots) ==
  \/ /\ multi
     /\ clientMultiAdd(s, slots)
     /\ UNCHANGED <<writeBuf, multi, last>>
  \/ /\ ~multi
     /\ multi' = (Content(s) = MULTI)
     /\ IF Content(s) = MULTI THEN UNCHANGED <<writeBuf, last>> ELSE commandPropagate(s)
     /\ readBuf' = sdsclear(s) /\ multcmds' = slots
     /\ UNCHANGED <<multiCmdCount, queue, longest>>

Reads == ~Overrun /\ exec = 0 /\ reads < MaxReads /\ reads' = reads + 1

readFromClient(request) ==
  /\ Reads
  /\ processClientQueryBuf(sdscatlen(readBuf, request), multcmds)
  /\ UNCHANGED exec

\* EXEC is rejected after a write to a watched key; the slots keep what they hold.
ExecRejected ==
  /\ Reads
  /\ readBuf' = sdsclear(sdscatlen(readBuf, EXEC))
  /\ multi' = FALSE /\ multiCmdCount' = 0 /\ queue' = <<>>
  /\ UNCHANGED <<multcmds, writeBuf, exec, longest, last>>

ExecBegins ==
  /\ Reads
  /\ readBuf' = sdscatlen(readBuf, EXEC)
  /\ multi' = FALSE /\ exec' = 1
  /\ UNCHANGED <<multcmds, writeBuf, multiCmdCount, ghosts>>

\* One round of the loop.  A MULTI in the queue has the rest queued again.
ExecNext ==
  /\ ~Overrun /\ exec \in 1 .. multiCmdCount
  /\ processClientQueryBuf(sdscatlen(sdsclear(readBuf), Content(multcmds[exec])),
                           [multcmds EXCEPT ![exec] = sdsclear(Emptied(@))])
  /\ exec' = exec + 1
  /\ UNCHANGED reads

ExecEnds ==
  /\ ~Overrun /\ exec > multiCmdCount
  /\ exec' = 0 /\ multiCmdCount' = 0 /\ queue' = <<>>
  /\ readBuf' = sdsclear(readBuf)
  /\ UNCHANGED <<multcmds, writeBuf, multi, reads, longest, last>>

commandExecProc == ExecRejected \/ ExecBegins \/ ExecNext \/ ExecEnds

\* The replica takes all of its writeBuf.
sendToClient ==
  /\ ~Overrun /\ exec = 0 /\ writeBuf.len > 0
  /\ writeBuf' = sdsclear(writeBuf)
  /\ UNCHANGED <<readBuf, multcmds, multi, multiCmdCount, exec, reads, ghosts>>

(***************************************************************************)
(* The specification.                                                      *)
(***************************************************************************)
Init ==
  /\ readBuf = sdsempty /\ writeBuf = sdsempty
  /\ multcmds = [i \in 1 .. QueueCap |-> sdsempty]
  /\ multi = FALSE /\ multiCmdCount = 0 /\ exec = 0 /\ reads = 0
  /\ queue = <<>> /\ longest = 0 /\ last = [cmd |-> <<>>, bytes |-> <<>>]

Next ==
  \/ \E request \in Requests \ {EXEC} : readFromClient(request)
  \/ commandExecProc
  \/ sendToClient

Spec == Init /\ [][Next]_vars

(***************************************************************************)
(* Properties.                                                             *)
(***************************************************************************)
Sds == [buf : Seq(Nat), len : Nat, free : Nat, over : BOOLEAN]

TypeOK ==
  /\ readBuf \in Sds /\ writeBuf \in Sds /\ multcmds \in [1 .. QueueCap -> Sds]
  /\ \A s \in Strings : s.over \/ s.len <= Len(s.buf)
  /\ multi \in BOOLEAN /\ multiCmdCount \in 0 .. QueueCap
  /\ exec \in 0 .. QueueCap + 1 /\ reads \in 0 .. MaxReads
  /\ (Overrun \/ queue \in Seq(Requests)) /\ longest \in Nat
  /\ last.cmd \in Seq(Nat) /\ last.bytes \in Seq(Nat)

\* The queue of a transaction holds the requests that were queued, as long as
\* every write was inside its string, although slots and readBuf are used over
\* and over; and readBuf is empty when the next request is read.
QueueHoldsRequests ==
  ~Overrun =>
    /\ \A i \in 1 .. multiCmdCount : i >= exec => Content(multcmds[i]) = queue[i]
    /\ exec = 0 => Content(readBuf) = <<>>

\* A replica gets every command from its first byte to its last; and nothing
\* behind it, unless the command is shorter than a request that was queued
\* before, whose end sdscatsds leaves in readBuf.
ReplicaGetsCommand ==
  ~Overrun =>
    /\ IsPrefix(last.cmd, last.bytes)
    /\ Len(last.cmd) >= longest => last.bytes = last.cmd

\* Nothing runs over in a string whose free is right.
Overstated(s) == s.len + s.free + 1 > Len(s.buf)
OverrunsOverstated ==
  [][Overrun' => \E s \in Strings : Overstated(s)]_vars

\* sds.h says of free: "the space that is left [...] without the '\0'".
FreeIsLeft == \A s \in Strings : ~Overstated(s)
=============================================================================
