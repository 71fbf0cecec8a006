-------------------------------- MODULE Aof --------------------------------
(***************************************************************************)
(* The append-only file: the event loop adds every write command to a      *)
(* buffer, a thread swaps that buffer with another one and writes it to    *)
(* the file, and a restart runs the commands of the file (aof.c,           *)
(* processCommand and initServer of redis.c, sdscatlen of sds.c).          *)
(*                                                                         *)
(* Commands are numbered as they arrive.  A buffer and the file are        *)
(* sequences of commands and of the marks below.  The event loop does not  *)
(* take the mutex that the thread takes, so the mutex orders nothing and   *)
(* is left out; adding to a buffer takes the event loop three steps.       *)
(***************************************************************************)
EXTENDS Integers, Sequences, FiniteSets

CONSTANT MaxCommands

ASSUME MaxCommandsAssumption == MaxCommands \in Nat

VARIABLES
  up,           \* the server process runs
  db,           \* the commands whose effect is in memory, in the order they ran
  append,       \* processCommand's sdscatsds, as far as it got
  buf, active,  \* the two buffers, and which of them is active_buf
  thread,       \* the next step of erverySecAOF
  isAofing,
  file, synced, \* the file, and how much of it fsync has seen
  next,         \* the number of the next command
  logged,       \* ghost: the file at the start, and what was added to a buffer since
  riders,       \* ghost: the commands logged since the start without having run
  torn          \* ghost: an append met the thread at work, or a write failed

vars == <<up, db, append, buf, active, thread, isAofing, file, synced, next,
          logged, riders, torn>>

Hole == 0       \* zero bytes, where a command was to be copied
Torn == -1      \* the beginning of a command
Lead == -2      \* the beginning of a command, without the end of its first line
Command == 1 .. MaxCommands
Items == Command \cup {Hole, Torn, Lead}

Buffers == {1, 2}
io_buf == 3 - active

Idle == [stage |-> "idle", buf |-> 1, at |-> 0, cmds |-> <<>>, grow |-> FALSE]

IsCommand(item) == item \in Command
Concerns(b) == append.stage = "begun" /\ append.buf = b

(***************************************************************************)
(* The event loop.                                                         *)
(***************************************************************************)
Loop == <<up, db, append, next, logged, riders>>

\* A write command has been read, the first of the n in readBuf: the others
\* never run, but go to the log with it.
processCommand(n) ==
  /\ up /\ append.stage = "idle" /\ next + n <= MaxCommands + 1
  /\ append' = [Idle EXCEPT !.stage = "fetched", !.buf = active,
                            !.cmds = [i \in 1 .. n |-> next + i - 1]]
  /\ riders' = riders \cup (next + 1 .. next + n - 1)
  /\ next' = next + n
  /\ UNCHANGED <<up, db, buf, active, thread, isAofing, file, synced, logged, torn>>

\* sdscatlen reads the length.  If it has to grow the buffer it goes on to
\* store the new length and to fill with zeros.
CatBegin(grow) ==
  /\ up /\ append.stage = "fetched"
  /\ append' = [append EXCEPT !.stage = "begun", !.at = Len(buf[append.buf]), !.grow = grow]
  /\ buf' = IF grow
              THEN [buf EXCEPT ![append.buf] = @ \o [i \in DOMAIN append.cmds |-> Hole]]
              ELSE buf
  /\ UNCHANGED <<up, db, active, thread, isAofing, file, synced, next, logged, riders, torn>>

\* Then it copies to the place it had read; where it did not grow the buffer it
\* stores the length last, and so brings back zeros if the buffer was cleared.
\* The command runs only now.
CatEnd ==
  LET at  == append.at
      now == buf[append.buf]
      end == IF append.grow THEN Len(now) ELSE at + Len(append.cmds)
  IN
  /\ up /\ append.stage = "begun"
  /\ buf' = [buf EXCEPT ![append.buf] =
               [i \in 1 .. end |-> IF i > at THEN append.cmds[i - at]
                                   ELSE IF i <= Len(now) THEN now[i] ELSE Hole]]
  /\ append' = Idle
  /\ logged' = logged \o append.cmds
  /\ db' = Append(db, append.cmds[1])
  /\ torn' = (torn \/ (append.buf = io_buf /\ thread # "write"))
  /\ UNCHANGED <<up, active, thread, isAofing, file, synced, next, riders>>

\* At the end of every round of the loop, whether the thread waits or not.
flushAppendOnlyFile ==
  /\ up /\ append.stage = "idle" /\ thread = "wait"
  /\ thread' = "check"
  /\ UNCHANGED <<Loop, buf, active, isAofing, file, synced, torn>>

(***************************************************************************)
(* The thread.                                                             *)
(***************************************************************************)
\* More than a second since lastAofTime, which is never set: always.
needAOF == ~isAofing /\ Len(buf[active]) > 0

\* Between the test and the wait a signal is lost.
Test ==
  /\ up /\ thread = "check" /\ ~needAOF
  /\ thread' = "towait"
  /\ UNCHANGED <<Loop, buf, active, isAofing, file, synced, torn>>

Wait ==
  /\ up /\ thread = "towait"
  /\ thread' = "wait"
  /\ UNCHANGED <<Loop, buf, active, isAofing, file, synced, torn>>

Swap ==
  /\ up /\ thread = "check" /\ needAOF
  /\ isAofing' = TRUE
  /\ active' = io_buf
  /\ thread' = "write"
  /\ UNCHANGED <<Loop, buf, file, synced, torn>>

\* The sequences that are what the first bytes of s hold.
Fragment(item) == IF IsCommand(item) THEN {<<>>, <<Torn>>, <<Lead>>} ELSE {<<>>, <<item>>}
Pieces(s) ==
  UNION {{SubSeq(s, 1, n) \o f : f \in Fragment(s[n + 1])} : n \in 0 .. Len(s) - 1}

Write ==
  /\ up /\ thread = "write"
  /\ file' = file \o buf[io_buf]
  /\ torn' = (torn \/ Concerns(io_buf))
  /\ thread' = "fsync"
  /\ UNCHANGED <<Loop, buf, active, isAofing, synced>>

\* A write that fails or comes short is logged, and nothing else; one that
\* meets a buffer being moved may write anything.
WriteFails ==
  /\ up /\ thread = "write"
  /\ \E piece \in Pieces(buf[io_buf]) \cup (IF Concerns(io_buf) THEN {<<Torn>>} ELSE {}) :
       file' = file \o piece
  /\ torn' = TRUE
  /\ thread' = "fsync"
  /\ UNCHANGED <<Loop, buf, active, isAofing, synced>>

fsync ==
  /\ up /\ thread = "fsync"
  /\ synced' = Len(file)
  /\ thread' = "clear"
  /\ UNCHANGED <<Loop, buf, active, isAofing, file, torn>>

\* Mutant: the wrong buffer is cleared.
ClearActive ==
  /\ up /\ thread = "clear"
  /\ buf' = [buf EXCEPT ![active] = <<>>]
  /\ thread' = "finish"
  /\ UNCHANGED <<Loop, active, isAofing, file, synced, torn>>

Clear ==
  /\ up /\ thread = "clear"
  /\ buf' = [buf EXCEPT ![io_buf] = <<>>]
  /\ torn' = (torn \/ Concerns(io_buf))
  /\ thread' = "finish"
  /\ UNCHANGED <<Loop, active, isAofing, file, synced>>

\* Mutant: isAofing stays set.
FinishAofing ==
  /\ up /\ thread = "finish"
  /\ thread' = "check"
  /\ UNCHANGED <<Loop, buf, active, isAofing, file, synced, torn>>

Finish ==
  /\ up /\ thread = "finish"
  /\ isAofing' = FALSE
  /\ thread' = "check"
  /\ UNCHANGED <<Loop, buf, active, file, synced, torn>>

(***************************************************************************)
(* The end of the process, and its start.                                  *)
(***************************************************************************)
\* What fsync has not seen may be lost with the system, from any byte on.
Crash ==
  /\ up
  /\ up' = FALSE
  /\ file' \in {file} \cup
       {SubSeq(file, 1, synced) \o p : p \in Pieces(SubSeq(file, synced + 1, Len(file)))}
  /\ UNCHANGED <<db, append, buf, active, thread, isAofing, synced, next, logged, riders, torn>>

\* The items of s that are in set S, in their order.
Only(s, S) ==
  LET f[n \in 0 .. Len(s)] ==
        IF n = 0 THEN <<>> ELSE IF s[n] \in S THEN Append(f[n - 1], s[n]) ELSE f[n - 1]
  IN f[Len(s)]

\* Mutant: the result of respParse is not tested.
LoadsAll(f) == f

\* Mutant: the end that respParse found counts as the start of the rest.
LoadsAllButLast(f) == Only(SubSeq(f, 1, Len(f) - 1), Command)

\* The commands that aof_load finds and runs.  respParse gives NULL for a
\* beginning of a command, which ends the load; zeros and commands inside
\* commands stay in readBuf, and nothing after them runs.  A first line
\* without its end makes one with the first line that follows.
Loads(f) ==
  LET bad  == {i \in DOMAIN f : f[i] \in {Hole, Torn}}
      good == {n \in 0 .. Len(f) : \A i \in bad : i > n}
      last == CHOOSE n \in good : \A m \in good : m <= n
  IN
  Only(SubSeq(f, 1, last), Command)

\* initServer with aof_init and aof_load.  The commands come from a client
\* with REDIS_CLIENT_FAKE and are not logged again.  The file stays as it is.
initServer ==
  /\ ~up
  /\ up' = TRUE
  /\ db' = Loads(file)
  /\ append' = Idle
  /\ buf' = [b \in Buffers |-> <<>>] /\ active' = 1
  /\ thread' = "check" /\ isAofing' = FALSE
  /\ synced' = Len(file)
  /\ logged' = file /\ riders' = {} /\ torn' = FALSE
  /\ UNCHANGED <<file, next>>

(***************************************************************************)
(* The specification.                                                      *)
(***************************************************************************)
Init ==
  /\ up = TRUE /\ db = <<>> /\ append = Idle
  /\ buf = [b \in Buffers |-> <<>>] /\ active = 1
  /\ thread = "check" /\ isAofing = FALSE
  /\ file = <<>> /\ synced = 0
  /\ next = 1 /\ logged = <<>> /\ riders = {} /\ torn = FALSE

sdscatsds == CatEnd \/ \E grow \in BOOLEAN : CatBegin(grow)

erverySecAOF == Test \/ Wait \/ Swap \/ Write \/ fsync \/ Clear \/ Finish

Next ==
  \/ \E n \in 1 .. 2 : processCommand(n)
  \/ sdscatsds
  \/ flushAppendOnlyFile
  \/ erverySecAOF
  \/ WriteFails
  \/ Crash
  \/ initServer

Spec == Init /\ [][Next]_vars

(***************************************************************************)
(* Both threads run.  Every round of the event loop signals, and serverCron *)
(* wakes the loop every second if nothing else does.                       *)
(***************************************************************************)
Fairness ==
  /\ WF_vars(sdscatsds)
  /\ SF_vars(flushAppendOnlyFile)
  /\ WF_vars(erverySecAOF)

FairSpec == Spec /\ Fairness

(***************************************************************************)
(* Properties.                                                             *)
(***************************************************************************)
TypeOK ==
  /\ up \in BOOLEAN /\ db \in Seq(Command)
  /\ append.stage \in {"idle", "fetched", "begun"} /\ append.buf \in Buffers
  /\ append.at \in Nat /\ append.cmds \in Seq(Command) /\ append.grow \in BOOLEAN
  /\ buf \in [Buffers -> Seq(Items)] /\ active \in Buffers
  /\ thread \in {"check", "towait", "wait", "write", "fsync", "clear", "finish"}
  /\ isAofing \in BOOLEAN
  /\ file \in Seq(Items) /\ synced \in 0 .. Len(file)
  /\ next \in 1 .. MaxCommands + 1
  /\ logged \in Seq(Items) /\ riders \subseteq Command /\ torn \in BOOLEAN

\* The command of an append that has begun is not counted yet.
ActiveItems ==
  IF Concerns(active) THEN SubSeq(buf[active], 1, append.at) ELSE buf[active]
UnwrittenItems ==
  IF thread # "write" THEN <<>>
  ELSE IF Concerns(io_buf) THEN SubSeq(buf[io_buf], 1, append.at) ELSE buf[io_buf]

\* The file and the buffers together hold every command that was logged, in
\* the order it was logged in, until an append meets the thread between its
\* write and its next swap, or a write fails.  Even then no command gets into
\* the file twice, over any number of restarts.
NothingLost ==
  /\ up /\ ~torn => file \o UnwrittenItems \o ActiveItems = logged
  /\ \A i, j \in DOMAIN file : IsCommand(file[i]) /\ file[i] = file[j] => i = j

\* With all of it written, a restart would rebuild what is in memory, and run
\* the commands that shared a read with another: unless the file has zeros or
\* half a command in it.
ReloadAgrees ==
  up /\ ~torn /\ append.stage = "idle" /\ file = logged /\ {Hole, Torn} \cap {file[i] : i \in DOMAIN file} = {}
    => Only(Loads(file), Command \ riders) = db

\* A command in a buffer gets into the file, although the signal for it may
\* be lost, unless a crash, a failed write or a meeting of the two threads
\* takes it.
LoggedGetsWritten ==
  \A c \in Command :
    (up /\ append.stage = "idle" /\ \E i \in DOMAIN buf[active] : buf[active][i] = c)
      ~> (~up \/ torn \/ \E i \in DOMAIN file : file[i] = c)

\* erverySecAOF's comment at the swap: "io_buf is certainly empty".
IoBufEmpty == up /\ thread = "check" /\ needAOF => buf[io_buf] = <<>>
=============================================================================
