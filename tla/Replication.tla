---------------------------- MODULE Replication ----------------------------
(***************************************************************************)
(* A master and one slave of it (repli.c, and in redis.c SYNC, REPLCONF,   *)
(* REPLACK, commandPropagate, saveRDBToSlave, masterCheckSlave): the       *)
(* handshake, full and partial synchronisation, the stream of propagated   *)
(* commands, heartbeats and reconnection, over a connection that may end.  *)
(*                                                                         *)
(* Each process runs one handler at a time; the two interleave freely.     *)
(* The loop of repliReadHandler takes a step per turn.                     *)
(*                                                                         *)
(* What a connection carries is a sequence of messages.  Those of the      *)
(* protocol are one message each; a write command is the CmdLen bytes of   *)
(* it, each named by its number in the master's history.  A read delivers  *)
(* any number of messages, without splitting one or a command.             *)
(***************************************************************************)
EXTENDS Backlog, SequencesExt

CONSTANTS
  MaxWrites,  \* write commands the master executes: bound of a run
  MaxBreaks,  \* connections lost or given up: bound of a run
  MaxBeats    \* heartbeats under way at a time: bound of a run

ASSUME BoundsAssumption ==
  /\ MaxWrites \in Nat
  /\ MaxBreaks \in Nat
  /\ MaxBeats \in Nat \ {0}

CmdLen == 2                                  \* bytes of a write command

\* A command fits into the backlog: readFromClient reads 1024 bytes at most, and
\* the backlog has as many.
ASSUME CommandFits == CmdLen <= Size

VARIABLES
  backlog,    \* master: repli_buffer, begin_offset, last_offset
  peer,       \* master: its redisClient for the slave's connection
  toSlave,    \* sent by the master and not yet read
  toMaster,   \* sent by the slave and not yet read
  link,       \* the slave's connection as its kernel knows it
  status,     \* slave: "runs", "spins" in its read loop, or "dead"
  reading,    \* slave: inside the loop of repliReadHandler
  replState,  \* slave: server->replState
  offset,     \* slave: server->offset, and "offset" in its configuration file
  readBuf,    \* slave: master->readBuf
  writeBuf,   \* slave: master->writeBuf
  reader,     \* slave: the read handler of the connection, "none" after
              \*   clientToclose
  writer,     \* slave: the write handler of the connection
  watch,      \* slave: what epoll waits for on the connection
  executed,   \* history: commands executed from this connection, in order
  earlier,    \* history: commands the process executed from earlier ones
  merged,     \* history: one read of readFromClient held several messages
  breaks      \* connections lost or given up so far

masterVars == <<backlog, peer>>
netVars    == <<toSlave, toMaster, link, breaks>>
slaveConn  == <<readBuf, writeBuf, reader, writer, watch>>
slaveData  == <<offset, executed, earlier, merged>>
vars == <<masterVars, netVars, status, reading, replState, slaveConn, slaveData>>

Msg(op) == [op |-> op, n |-> 0]
Byte(k) == [op |-> "BYTE", n |-> k]          \* Byte(0): none of the history
Command(i) == [j \in 1 .. CmdLen |-> Byte(CmdLen * (i - 1) + j)]

ToMaster == [op : {"PING", "REPLCONF", "REPLACK", "OK"}, n : {0}]
            \cup [op : {"SYNC"}, n : Int]
ToSlave  == [op : {"PONG", "OK", "FULLSYNC", "APPENDSYNC", "LEN", "RDB"}, n : {0}]
            \cup [op : {"BYTE"}, n : Nat]

ReplState == {"NONE", "CONNECTING", "SEND_REPLCONF", "SEND_SYNC", "RECEIVE_RDB",
              "RECEIVE_APPENDSYNC", "CONNECTED"}

Peer == [slave : BOOLEAN, sync : {"NONE", "SEND_FULLSYNC", "SEND_RDB", "SEND_APPENDSYNC"},
         writeBuf : Seq(ToSlave)]

NewPeer == [slave |-> FALSE, sync |-> "NONE", writeBuf |-> <<>>]

TypeOK ==
  /\ backlog \in BacklogState
  /\ peer \in Peer
  /\ toSlave \in Seq(ToSlave)
  /\ toMaster \in Seq(ToMaster)
  /\ link \in {"none", "up", "closed", "reset", "broken"}
  /\ status \in {"runs", "spins", "dead"}
  /\ reading \in BOOLEAN
  /\ replState \in ReplState
  /\ offset \in Int
  /\ readBuf \in Seq(ToSlave)
  /\ writeBuf \in Seq(ToMaster)
  /\ reader \in {"repliReadHandler", "readFromClient", "none"}
  /\ writer \in {"repliWriteHandler", "sendToClient"}
  /\ watch \in {"read", "write", "none"}
  /\ executed \in Seq(Nat)
  /\ earlier \in SUBSET Nat
  /\ merged \in BOOLEAN
  /\ breaks \in Nat

\* A master that has executed nothing, and a slave that has just connected and
\* never synchronised.
Init ==
  /\ backlog = EmptyBacklog
  /\ peer = NewPeer
  /\ toSlave = <<>> /\ toMaster = <<>>
  /\ link = "up"
  /\ status = "runs" /\ reading = FALSE
  /\ replState = "CONNECTING"
  /\ offset = -1
  /\ readBuf = <<>> /\ writeBuf = <<>>
  /\ reader = "repliReadHandler" /\ writer = "repliWriteHandler"
  /\ watch = "write"
  /\ executed = <<>> /\ earlier = {} /\ merged = FALSE
  /\ breaks = 0

\* Where a read of seq may end: anywhere but inside a command.
Ends(seq) ==
  {k \in 1 .. Len(seq) :
     ~(k < Len(seq) /\ seq[k].op = "BYTE" /\ seq[k].n % CmdLen = 1
       /\ seq[k + 1] = Byte(seq[k].n + 1))}

Rest(seq, k) == SubSeq(seq, k + 1, Len(seq))

HeadIs(seq, op) == seq # <<>> /\ Head(seq).op = op
Count(seq, op) == Len(SelectSeq(seq, LAMBDA msg : msg.op = op))

-----------------------------------------------------------------------------
(***************************************************************************)
(* The master.                                                             *)
(***************************************************************************)

\* Mutant: commandPropagate waits for the snapshot to have been sent.
PropagateSynced(cmd) ==
  peer' = IF peer.slave /\ peer.sync = "SEND_RDB"
            THEN [peer EXCEPT !.writeBuf = @ \o cmd] ELSE peer

\* A connection is a slave's from REPLCONF on, before it has asked for SYNC.
commandPropagate(cmd) ==
  peer' = IF peer.slave THEN [peer EXCEPT !.writeBuf = @ \o cmd] ELSE peer

\* processCommand: a write command of a client, into the backlog and to the slave.
MasterWrite ==
  /\ backlog.last < CmdLen * MaxWrites
  /\ backlog' = addRepliBuf(backlog, CmdLen)
  /\ commandPropagate(Command(backlog.last \div CmdLen + 1))
  /\ UNCHANGED <<netVars, status, reading, replState, slaveConn, slaveData>>

\* readFromClient: the read event is back once the reply has been sent.  Only
\* the first message of a read is looked at, the rest of it is cleared.
MasterReads(op) ==
  /\ link = "up"
  /\ peer.writeBuf = <<>>
  /\ HeadIs(toMaster, op)
  /\ \E k \in 1 .. Len(toMaster) : toMaster' = Rest(toMaster, k)
  /\ UNCHANGED <<backlog, toSlave, link, breaks,
                 status, reading, replState, slaveConn, slaveData>>

Reply(p, msg) == [p EXCEPT !.writeBuf = Append(@, Msg(msg))]

commandPingProc ==
  /\ MasterReads("PING")
  /\ peer' = Reply(peer, "PONG")

commandReplconfProc ==
  /\ MasterReads("REPLCONF")
  /\ peer' = [Reply(peer, "OK") EXCEPT !.slave = TRUE]

commandReplACKProc ==
  /\ MasterReads("REPLACK")
  /\ peer' = Reply(peer, "OK")

\* A slave's answer to a propagated command.
MasterIgnoresOk ==
  /\ MasterReads("OK")
  /\ UNCHANGED peer

commandSyncProc ==
  /\ MasterReads("SYNC")
  /\ LET from    == Head(toMaster).n
         missing == Missing(backlog, from)
     IN peer' = IF Covers(backlog, from)
                  THEN [Reply(peer, "APPENDSYNC") EXCEPT
                          !.sync = "SEND_APPENDSYNC",
                          !.writeBuf = @ \o [j \in DOMAIN missing |-> Byte(missing[j])]]
                  ELSE [Reply(peer, "FULLSYNC") EXCEPT !.sync = "SEND_FULLSYNC"]

\* sendToClient: the whole buffer, and after +FULLSYNC the snapshot file, its
\* length and its data in two writes (saveRDBToSlave).
MasterSends ==
  /\ link = "up"
  /\ peer.writeBuf # <<>>
  /\ LET full == peer.sync = "SEND_FULLSYNC"
         rdb  == IF full THEN <<Msg("LEN"), Msg("RDB")>> ELSE <<>>
     IN /\ toSlave' = toSlave \o peer.writeBuf \o rdb
        /\ peer' = [peer EXCEPT !.writeBuf = <<>>,
                                !.sync = IF full THEN "SEND_RDB" ELSE @]
  /\ UNCHANGED <<backlog, toMaster, link, breaks,
                 status, reading, replState, slaveConn, slaveData>>

\* The master's end is gone; what it had sent arrives up to some point.
ConnectionEnds(how) ==
  /\ link = "up"
  /\ breaks < MaxBreaks
  /\ breaks' = breaks + 1
  /\ link' = how
  /\ peer' = NewPeer
  /\ toMaster' = <<>>
  /\ \E k \in {0} \cup Ends(toSlave) : toSlave' = SubSeq(toSlave, 1, k)
  /\ UNCHANGED <<backlog, status, reading, replState, slaveConn, slaveData>>

\* masterCheckSlave drops a slave whose lastinteraction is too old; until the
\* first REPLACK it is uninitialised.  Closing a socket with unread input
\* resets the connection.
masterCheckSlave ==
  /\ peer.slave
  /\ ConnectionEnds(IF toMaster = <<>> THEN "closed" ELSE "reset")

\* The network resets the connection.
LinkBreaks == ConnectionEnds("reset")

-----------------------------------------------------------------------------
(***************************************************************************)
(* The slave's connection.                                                 *)
(***************************************************************************)

\* connectMaster after a successful connect: the offset is the one in the
\* configuration file; registering the write event takes the read event away.
Connected ==
  /\ link' = "up"
  /\ peer' = NewPeer
  /\ toSlave' = <<>> /\ toMaster' = <<>>
  /\ replState' = "CONNECTING"
  /\ readBuf' = <<>> /\ writeBuf' = <<>>
  /\ reader' = "repliReadHandler" /\ writer' = "repliWriteHandler"
  /\ watch' = "write"
  /\ executed' = <<>> /\ merged' = FALSE

\* connectMaster when connect fails: server->master stays NULL.
ConnectFailed ==
  /\ link' = "none"
  /\ peer' = NewPeer
  /\ toSlave' = <<>> /\ toMaster' = <<>>
  /\ readBuf' = <<>> /\ writeBuf' = <<>>
  /\ reader' = "none"
  /\ watch' = "none"
  /\ executed' = <<>> /\ merged' = FALSE
  /\ UNCHANGED writer

\* reconnectMaster: the old connection is freed first.
reconnectMaster ==
  /\ \/ Connected
     \/ ConnectFailed /\ UNCHANGED replState
  /\ earlier' = earlier \cup ToSet(executed)
  /\ UNCHANGED <<backlog, status, reading, offset>>

\* The process ends, with a failed assertion or a signal.
Dies ==
  /\ status' = "dead"
  /\ reading' = FALSE
  /\ ConnectFailed
  /\ replState' = "NONE"
  /\ earlier' = {}
  /\ UNCHANGED <<backlog, offset, breaks>>

\* An operator starts the slave again (initServer): its data are gone, its
\* offset is in the configuration file.
Restart ==
  /\ status # "runs"
  /\ status' = "runs"
  /\ reading' = FALSE
  /\ \/ Connected
     \/ ConnectFailed /\ replState' = "NONE"
  /\ earlier' = {}
  /\ UNCHANGED <<backlog, offset, breaks>>

\* A handler of the event loop may run.
Idle == status = "runs" /\ ~reading

\* After a write event was deleted.
WatchAgain == IF reader = "none" THEN "none" ELSE "read"

\* Writing out.  The kernel takes it; a master that has closed its end answers
\* with a reset, and on a connection that was reset the write raises SIGPIPE.
Sends(out) ==
  \/ /\ link \in {"up", "closed"}
     /\ toMaster' = IF link = "up" THEN toMaster \o out ELSE <<>>
     /\ link' = IF link = "up" THEN "up" ELSE "reset"
     /\ writeBuf' = <<>>
     /\ watch' = WatchAgain
     /\ UNCHANGED <<masterVars, toSlave, breaks, status, reading, replState,
                    readBuf, reader, writer, slaveData>>
  \/ /\ link \in {"reset", "broken"}
     /\ Dies

\* What repliWriteHandler adds to the buffer in each state.
Greeting ==
  CASE replState = "CONNECTING"    -> <<Msg("PING")>>
    [] replState = "SEND_REPLCONF" -> <<Msg("REPLCONF")>>
    [] replState = "SEND_SYNC"     -> <<[op |-> "SYNC", n |-> offset]>>
    [] replState = "CONNECTED"     -> <<Msg("REPLACK")>>
    [] OTHER                       -> <<>>

\* Mutant: the write event stays after the state's message was sent.
WriteEventStays ==
  /\ Idle
  /\ watch = "write" /\ writer = "repliWriteHandler"
  /\ link = "up"
  /\ toMaster' = toMaster \o writeBuf \o Greeting
  /\ writeBuf' = <<>>
  /\ watch' \in {"write", "read"}
  /\ UNCHANGED <<masterVars, toSlave, link, breaks, status, reading, replState,
                 readBuf, reader, writer, slaveData>>

repliWriteHandler ==
  /\ Idle
  /\ watch = "write" /\ writer = "repliWriteHandler"
  /\ Sends(writeBuf \o Greeting)

\* The "+OK" to a propagated command.
sendToClient ==
  /\ Idle
  /\ watch = "write" /\ writer = "sendToClient"
  /\ Sends(writeBuf)

\* What the slave has not looked at yet, in the order in which it will.
Pipe == readBuf \o toSlave \o peer.writeBuf

\* Heartbeats sent and not yet answered, or whose answer is not yet read.
Beats == Count(toMaster, "REPLACK") + Count(Pipe, "OK")

\* slaveCron, heartbeat: a pending socket error means reconnection, otherwise
\* the write event is registered.
Heartbeat ==
  /\ Idle
  /\ replState = "CONNECTED"
  /\ link \in {"up", "closed", "broken"}
  /\ Beats < MaxBeats
  /\ watch' = "write" /\ writer' = "repliWriteHandler"
  /\ UNCHANGED <<masterVars, netVars, status, reading, replState, readBuf, writeBuf,
                 reader, slaveData>>

HeartbeatReconnects ==
  /\ Idle
  /\ replState = "CONNECTED"
  /\ link = "reset"
  /\ reconnectMaster
  /\ UNCHANGED breaks

\* slaveCron uses server->master before it looks whether there is one.
HeartbeatDies ==
  /\ Idle
  /\ replState = "CONNECTED"
  /\ link = "none"
  /\ Dies

\* slaveCron, the master was silent for too long; lastinteraction is
\* uninitialised before the first read.
MasterTimeout ==
  /\ Idle
  /\ link # "none"
  /\ IF link = "up" THEN breaks < MaxBreaks /\ breaks' = breaks + 1
                    ELSE UNCHANGED breaks
  /\ reconnectMaster

-----------------------------------------------------------------------------
(***************************************************************************)
(* The slave's read handlers.                                              *)
(***************************************************************************)

\* respParse finds a whole command at the head.
HoldsCommand(buf) ==
  /\ Len(buf) >= CmdLen
  /\ buf[1].op = "BYTE"
  /\ buf[1].n > 0
  /\ SubSeq(buf, 1, CmdLen) = Command(((buf[1].n - 1) \div CmdLen) + 1)

\* Results of respParse # NULL.  For a head that starts no message the function
\* returns without a value.
Parses(buf) ==
  IF buf = <<>> THEN {FALSE}
  ELSE CASE Head(buf).op = "LEN"  -> {Len(buf) > 1 /\ buf[2].op = "RDB"}
         [] Head(buf).op = "RDB"  -> BOOLEAN
         [] Head(buf).op = "BYTE" ->
              IF HoldsCommand(buf) THEN {TRUE}
              ELSE IF Head(buf).n % CmdLen = 1 THEN {FALSE} ELSE BOOLEAN
         [] OTHER -> {TRUE}

\* epoll reports a reset once and aeApiPoll takes the error.
Polled == IF link = "reset" THEN "broken" ELSE link

\* The slave reads a piece of what has arrived.
Receives(k) ==
  /\ Idle
  /\ watch = "read"
  /\ toSlave' = Rest(toSlave, k)
  /\ link' = Polled

RepliRead ==
  /\ reader = "repliReadHandler"
  /\ \E k \in Ends(toSlave) :
       /\ Receives(k)
       /\ readBuf' = readBuf \o SubSeq(toSlave, 1, k)
  /\ reading' = TRUE
  /\ UNCHANGED <<masterVars, toMaster, breaks, status, replState, writeBuf,
                 reader, writer, watch, slaveData>>

\* The end of the connection fails the assertion on nread.
RepliReadEnd ==
  /\ Idle
  /\ watch = "read" /\ reader = "repliReadHandler"
  /\ toSlave = <<>> /\ link \in {"closed", "reset", "broken"}
  /\ Dies

\* A turn of the loop that leaves buf; the loop goes on as long as respParse
\* finds something in it.
Turn(buf) ==
  /\ status = "runs" /\ reading
  /\ readBuf' = buf
  /\ reading' \in Parses(buf)
  /\ UNCHANGED <<masterVars, netVars, status, writeBuf>>

\* aeCreateFileEvent for writing on the connection to the master.
WriteRegistered == watch' = "write" /\ writer' = "repliWriteHandler" /\ UNCHANGED reader
EventsUnchanged == UNCHANGED <<reader, writer, watch>>

\* Mutant: +PONG stays in the buffer.
PongStays ==
  /\ replState = "CONNECTING"
  /\ HeadIs(readBuf, "PONG")
  /\ Turn(readBuf)
  /\ replState' = "SEND_REPLCONF"
  /\ WriteRegistered
  /\ UNCHANGED slaveData

ReceivePong ==
  /\ replState = "CONNECTING"
  /\ HeadIs(readBuf, "PONG")
  /\ Turn(Tail(readBuf))
  /\ replState' = "SEND_REPLCONF"
  /\ WriteRegistered
  /\ UNCHANGED slaveData

\* Mutant: the write event for SYNC is not registered.
ReplconfOkUnregistered ==
  /\ replState = "SEND_REPLCONF"
  /\ HeadIs(readBuf, "OK")
  /\ Turn(Tail(readBuf))
  /\ replState' = "SEND_SYNC"
  /\ EventsUnchanged
  /\ UNCHANGED slaveData

ReceiveReplconfOk ==
  /\ replState = "SEND_REPLCONF"
  /\ HeadIs(readBuf, "OK")
  /\ Turn(Tail(readBuf))
  /\ replState' = "SEND_SYNC"
  /\ WriteRegistered
  /\ UNCHANGED slaveData

ReceiveSyncAnswer ==
  /\ replState = "SEND_SYNC"
  /\ \/ HeadIs(readBuf, "FULLSYNC") /\ replState' = "RECEIVE_RDB"
     \/ HeadIs(readBuf, "APPENDSYNC") /\ replState' = "RECEIVE_APPENDSYNC"
  /\ Turn(Tail(readBuf))
  /\ EventsUnchanged
  /\ UNCHANGED slaveData

\* doAppendSync: the commands at the head of the buffer are executed.  Each
\* moves the offset (processCommand), and then all of them do once more.
Leading(buf) ==
  Max({0} \cup {m \in 1 .. Len(buf) \div CmdLen :
                  \A i \in 0 .. m - 1 : HoldsCommand(Rest(buf, CmdLen * i))})

doAppendSync ==
  LET m    == Leading(readBuf)
      cmds == [i \in 1 .. m |-> (readBuf[CmdLen * i].n) \div CmdLen]
  IN  /\ executed' = executed \o cmds
      /\ offset' = offset + 2 * CmdLen * m
      /\ Turn(Rest(readBuf, CmdLen * m))
      /\ UNCHANGED <<earlier, merged>>

ReceiveAppendsync ==
  /\ replState = "RECEIVE_APPENDSYNC"
  /\ doAppendSync
  /\ replState' = "CONNECTED"
  /\ EventsUnchanged

\* The snapshot is received whole.  receiveRDBfile does not close its file, so
\* rdbLoad reads an empty one: nothing is loaded, nothing is emptied.
ReceiveRdb ==
  /\ replState = "RECEIVE_RDB"
  /\ HeadIs(readBuf, "LEN") /\ Len(readBuf) > 1
  /\ Turn(Rest(readBuf, 2))
  /\ replState' = "CONNECTED"
  /\ offset' = 0
  /\ WriteRegistered
  /\ UNCHANGED <<executed, earlier, merged>>

\* Only the length has come: the data are cut from an empty buffer, and sdsrange
\* fails its assertion.
ReceiveRdbPart ==
  /\ status = "runs" /\ reading
  /\ replState = "RECEIVE_RDB"
  /\ HeadIs(readBuf, "LEN") /\ Len(readBuf) = 1
  /\ Dies

\* A command that was propagated before the snapshot was sent: "*3" passes for
\* its length, and the buffer is cut within the command.
ReceiveRdbMangled ==
  /\ replState = "RECEIVE_RDB"
  /\ HeadIs(readBuf, "BYTE")
  /\ Turn(<<Byte(0)>> \o Tail(readBuf))
  /\ replState' = "CONNECTED"
  /\ offset' = 0
  /\ WriteRegistered
  /\ UNCHANGED <<executed, earlier, merged>>

\* The answer to the first REPLACK: from now on the slave reads its master as
\* any client.
ReceiveOk ==
  /\ replState = "CONNECTED"
  /\ HeadIs(readBuf, "OK")
  /\ Turn(Tail(readBuf))
  /\ reader' = "readFromClient" /\ watch' = "read"
  /\ UNCHANGED <<writer, replState, slaveData>>

\* The response at the head is not one that the state waits for.
Unawaited ==
  ~ \/ replState = "CONNECTING"    /\ HeadIs(readBuf, "PONG")
    \/ replState = "SEND_REPLCONF" /\ HeadIs(readBuf, "OK")
    \/ replState = "SEND_SYNC"     /\ (HeadIs(readBuf, "FULLSYNC") \/ HeadIs(readBuf, "APPENDSYNC"))
    \/ replState = "CONNECTED"     /\ HeadIs(readBuf, "OK")
    \/ replState \in {"RECEIVE_RDB", "RECEIVE_APPENDSYNC"}

\* A turn that does nothing: an incomplete response ends the loop, a complete
\* one is looked at again, for ever.
NothingAwaited ==
  /\ status = "runs" /\ reading
  /\ Unawaited
  /\ \/ /\ FALSE \in Parses(readBuf)
        /\ reading' = FALSE
        /\ UNCHANGED status
     \/ /\ TRUE \in Parses(readBuf)
        /\ status' = "spins"
        /\ UNCHANGED reading
  /\ UNCHANGED <<masterVars, netVars, replState, slaveConn, slaveData>>

\* Mutant: the buffer is not cleared after the command.
SlaveKeepsBuffer ==
  /\ reader = "readFromClient"
  /\ \E k \in Ends(toSlave) :
       LET buf == readBuf \o SubSeq(toSlave, 1, k) IN
       /\ Receives(k)
       /\ HoldsCommand(buf)
       /\ executed' = Append(executed, buf[CmdLen].n \div CmdLen)
       /\ offset' = offset + Len(buf)
       /\ merged' = (merged \/ Len(buf) > CmdLen)
       /\ readBuf' = buf
  /\ writeBuf' = Append(writeBuf, Msg("OK"))
  /\ watch' = "write" /\ writer' = "sendToClient"
  /\ UNCHANGED <<masterVars, toMaster, breaks, status, reading, replState, reader, earlier>>

\* readFromClient on the slave: the first command of the read is executed, the
\* offset moves by all that was read, and the rest of it is cleared.
SlaveExecutes ==
  /\ reader = "readFromClient"
  /\ \E k \in Ends(toSlave) :
       LET buf == readBuf \o SubSeq(toSlave, 1, k) IN
       /\ Receives(k)
       /\ HoldsCommand(buf)
       /\ executed' = Append(executed, buf[CmdLen].n \div CmdLen)
       /\ offset' = offset + Len(buf)
       /\ merged' = (merged \/ Len(buf) > CmdLen)
  /\ readBuf' = <<>>
  /\ writeBuf' = Append(writeBuf, Msg("OK"))
  /\ watch' = "write" /\ writer' = "sendToClient"
  /\ UNCHANGED <<masterVars, toMaster, breaks, status, reading, replState, reader, earlier>>

\* A read that starts with a response is ignored, all of it.
SlaveIgnores ==
  /\ reader = "readFromClient"
  /\ \E k \in Ends(toSlave) :
       LET buf == readBuf \o SubSeq(toSlave, 1, k) IN
       /\ Receives(k)
       /\ ~HoldsCommand(buf)
       /\ merged' = (merged \/ Len(buf) > 1)
  /\ readBuf' = <<>>
  /\ UNCHANGED <<masterVars, toMaster, breaks, status, reading, replState, writeBuf,
                 reader, writer, watch, offset, executed, earlier>>

\* The end of the connection: clientToclose.  The client is in no list, and
\* closeClients never frees it.
SlaveReadEnd ==
  /\ Idle
  /\ watch = "read" /\ reader = "readFromClient"
  /\ toSlave = <<>> /\ link \in {"closed", "reset", "broken"}
  /\ link' = Polled
  /\ reader' = "none" /\ watch' = "none"
  /\ UNCHANGED <<masterVars, toSlave, toMaster, breaks, status, reading, replState,
                 readBuf, writeBuf, writer, slaveData>>

-----------------------------------------------------------------------------

Master ==
  \/ commandPingProc
  \/ commandReplconfProc
  \/ commandReplACKProc
  \/ MasterIgnoresOk
  \/ commandSyncProc
  \/ MasterSends

LoopTurn ==
  \/ ReceivePong
  \/ ReceiveReplconfOk
  \/ ReceiveSyncAnswer
  \/ ReceiveAppendsync
  \/ ReceiveRdb
  \/ ReceiveRdbPart
  \/ ReceiveRdbMangled
  \/ ReceiveOk
  \/ NothingAwaited

SlaveReads ==
  \/ RepliRead
  \/ RepliReadEnd
  \/ SlaveExecutes
  \/ SlaveIgnores
  \/ SlaveReadEnd

SlaveWrites == repliWriteHandler \/ sendToClient

SlaveCron == Heartbeat \/ HeartbeatReconnects \/ HeartbeatDies

Next ==
  \/ MasterWrite
  \/ Master
  \/ masterCheckSlave
  \/ LinkBreaks
  \/ LoopTurn
  \/ SlaveReads
  \/ SlaveWrites
  \/ SlaveCron
  \/ MasterTimeout
  \/ Restart

Spec == Init /\ [][Next]_vars

\* Both event loops serve what is ready, the read loop takes its turns, and the
\* timer of the heartbeat comes round.
Fairness ==
  /\ WF_vars(Master)
  /\ WF_vars(LoopTurn)
  /\ WF_vars(SlaveReads)
  /\ WF_vars(SlaveWrites)
  /\ WF_vars(SlaveCron)

FairSpec == Spec /\ Fairness

-----------------------------------------------------------------------------
(***************************************************************************)
(* Properties.                                                             *)
(***************************************************************************)

\* The ring keeps the last Size bytes of the history where their numbers say,
\* however often addRepliBuf has gone round its end.
RingHoldsTail == HoldsTail(backlog)

Ordered(cmds) == \A i, j \in DOMAIN cmds : i < j => cmds[i] < cmds[j]

\* A slave that got to the steady state has executed the commands of its
\* connection in the order in which the master did, each at most once, whatever
\* was merged, lost or answered from the backlog on the way.  One that has not
\* got there yet has as well, unless the ring has gone round.
InOrder ==
  reader # "repliReadHandler" \/ backlog.last < Size => Ordered(executed)

IsByte(msg) == msg.op = "BYTE"
BytesIn(seq)  == {seq[i].n : i \in {j \in DOMAIN seq : IsByte(seq[j])}}
BytesOf(cmds) == UNION {BytesIn(Command(cmds[i])) : i \in DOMAIN cmds}

\* What a slave in the steady state has executed from its connection, what is
\* on the way to it and what the master is about to send, one behind the other,
\* are the end of the history without a gap: a command is only lost by a read
\* that held several messages.
StreamIntact ==
  (reader = "readFromClient" /\ link = "up" /\ ~merged) =>
     LET done == BytesOf(executed)
         come == BytesIn(Pipe)
     IN  /\ \E n \in 0 .. backlog.last : done \cup come = n + 1 .. backlog.last
         /\ Ordered(executed)
         /\ \A m \in done, n \in come : m < n
         /\ \A i, j \in DOMAIN Pipe :
              i < j /\ IsByte(Pipe[i]) /\ IsByte(Pipe[j]) => Pipe[i].n < Pipe[j].n

\* Until SYNC is answered exactly one thing of the handshake is pending: the
\* write event, the message, its reply in the master's buffer, or the reply on
\* its way; on a connection that has ended at most one.
Pending(op, replies) ==
  (IF watch = "write" THEN {<<"event", 0>>} ELSE {})
    \cup ({"sent"} \X {i \in DOMAIN toMaster : toMaster[i].op = op})
    \cup ({"reply"} \X {i \in DOMAIN Pipe : Pipe[i].op \in replies})

HandshakeToken ==
  \A step \in {<<"CONNECTING", "PING", {"PONG"}>>,
               <<"SEND_REPLCONF", "REPLCONF", {"OK"}>>,
               <<"SEND_SYNC", "SYNC", {"FULLSYNC", "APPENDSYNC"}>>} :
    (status = "runs" /\ link # "none" /\ replState = step[1]) =>
       /\ Cardinality(Pending(step[2], step[3])) <= 1
       /\ link = "up" => Pending(step[2], step[3]) # {}

\* A slave's read loop never comes to a stand over a response of the protocol:
\* it spins over a propagated command, or the rest of one.
SpinsOnWriteOnly == status = "spins" => HeadIs(readBuf, "BYTE")

\* A slave that connects gets through the handshake, unless the connection or
\* the process ends, or a propagated command stays at the head of its buffer.
HandshakeCompletes ==
  [](status = "runs" /\ link = "up" /\ replState = "CONNECTING"
       => <>(\/ reader = "readFromClient"
             \/ link # "up"
             \/ status # "runs"
             \/ []HeadIs(readBuf, "BYTE")))

\* repli.c:300 leaves the loop when "the rest of the buffer cannot be read on";
\* it should leave it at any rest that the state has no use for.
NeverSpins == status # "spins"

\* What InOrder leaves open: a partial synchronisation from a ring that has gone
\* round may bring commands that overwrote older ones, and then those left.
SyncKeepsOrder == Ordered(executed)

\* repli.c:124: the offset of SYNC is there for "the propagation of the missing
\* commands" after a disconnection.  A partial synchronisation should begin with
\* the first command that the slave has not executed.
AppendSyncBringsMissing ==
  [][(replState = "RECEIVE_APPENDSYNC" /\ replState' = "CONNECTED"
        /\ executed' # <<>> /\ earlier # {})
       => Head(executed') = Max(earlier) + 1]_vars

=============================================================================
