--------------------------- MODULE CommandsProofs ---------------------------
(***************************************************************************)
(* Theorems about Commands, for all sets of keys, values, databases,       *)
(* addresses and requests, any queue capacity and any bound of the clock.  *)
(***************************************************************************)
EXTENDS Commands, TLAPS

(***************************************************************************)
(* Lemmas about the operators of Keyspace.                                 *)
(***************************************************************************)

\* expireIfNeed keeps a database a database.
LEMMA ExpireIfNeedType ==
  ASSUME NEW s \in Database, NEW k \in Keys, NEW t \in Int
  PROVE  expireIfNeed(s, k, t) \in Database
BY DEF expireIfNeed, Stale, Database

\* So does every write command.
LEMMA ExecuteType ==
  ASSUME NEW s \in Database, NEW req \in WriteRequest, NEW t \in Int
  PROVE  Execute(s, req, t) \in Database
<1>1. req.key \in Keys
  BY DEF WriteRequest
<1> DEFINE live == expireIfNeed(s, req.key, t)
<1>2. live \in Database
  BY <1>1, ExpireIfNeedType
<1> HIDE DEF live
<1>3. CASE req.op = "SET"
  <2>1. req.val \in Vals \cup {None}
    BY <1>3 DEF WriteRequest
  <2>2. commandSetProc(live, req) \in Database
    BY <1>1, <1>2, <2>1 DEF commandSetProc, dbAdd, Database
  <2> QED BY <1>3, <2>2 DEF Execute, live
<1>4. CASE req.op = "DEL"
  <2>1. commandDelProc(live, req) \in Database
    BY <1>1, <1>2 DEF commandDelProc, dbDelete, Database
  <2> QED BY <1>4, <2>1 DEF Execute, live
<1>5. CASE req.op = "EXPIRE"
  <2>1. req.ttl \in Int \cup {None}
    BY <1>5 DEF WriteRequest
  <2>2. commandExpireProc(live, req, t) \in Database
    BY <1>1, <1>2, <2>1 DEF commandExpireProc, dbSetExpire, Database
  <2> QED BY <1>5, <2>2 DEF Execute, live
<1> QED BY <1>3, <1>4, <1>5 DEF WriteRequest

\* A request with the operation of a write command has its arguments.
LEMMA WriteRequests ==
  ASSUME NEW req \in Requests, req.op \in WriteOps
  PROVE  req \in WriteRequest /\ req.key \in Keys
BY RequestsAssumption DEF Request, WriteRequest, WriteOps

\* The requests that name a key.
LEMMA KeyedRequests ==
  ASSUME NEW req \in Requests, req.op \in {"GET", "TTL", "OBJECT", "WATCH"}
  PROVE  req.key \in Keys
BY RequestsAssumption DEF Request, WriteRequest

\* The requests that name a database.
LEMMA SelectRequests ==
  ASSUME NEW req \in Requests, req.op = "SELECT"
  PROVE  req.db \in Dbs \cup {None}
BY RequestsAssumption DEF Request, WriteRequest

(***************************************************************************)
(* Type correctness.                                                       *)
(***************************************************************************)

\* Running or queueing one command keeps the types, whoever asks for it:
\* the read handler or the loop of EXEC.
LEMMA CommandType ==
  ASSUME TypeOK, NEW c \in Addrs, NEW req \in Requests,
         processClientQueryBuf(c, req),
         clients' = clients, now' = now,
         exec' \in {None} \cup [client : Addrs, i : Nat \ {0}]
  PROVE  TypeOK'
<1> USE DEF TypeOK, data, watches
<1>1. CASE clientMultiAdd(c, req)
  <2>1. queue[c] \in Seq(Requests \cup {None})
    OBVIOUS
  <2>2. /\ Append(queue[c], req) \in Seq(Requests \cup {None})
        /\ Append(queue[c], None) \in Seq(Requests \cup {None})
    BY <2>1
  <2>3. queue' \in [Addrs -> Seq(Requests \cup {None})]
    BY <1>1, <2>2 DEF clientMultiAdd
  <2>4. crashed' \in BOOLEAN
    BY <1>1 DEF clientMultiAdd
  <2> QED BY <1>1, <2>3, <2>4 DEF clientMultiAdd
<1>2. CASE InvalidCommand(c, req)
  BY <1>2 DEF InvalidCommand
<1>3. CASE WriteCommand(c, req)
  <2>1. req \in WriteRequest /\ req.key \in Keys
    BY <1>3, WriteRequests DEF WriteCommand
  <2>2. db' \in [Dbs -> Database]
    BY <1>3, <2>1, ExecuteType DEF WriteCommand
  <2>3. replica' \in Database
    BY <1>3, <2>1, ExecuteType DEF WriteCommand, commandPropagate
  <2>4. flags' \in [Addrs -> SUBSET Flag]
    BY <1>3 DEF WriteCommand, touchWatchKey, Flag
  <2>5. watched' \in [Dbs -> [Keys -> SUBSET Addrs]]
    BY <1>3, <2>1 DEF WriteCommand, touchWatchKey
  <2>6. crashed' \in BOOLEAN
    BY <1>3, <2>1 DEF WriteCommand, touchWatchKey
  <2>7. touched' \in [Addrs -> BOOLEAN]
    BY <1>3 DEF WriteCommand
  <2> QED BY <1>3, <2>1, <2>2, <2>3, <2>4, <2>5, <2>6, <2>7 DEF WriteCommand
<1>4. CASE ReadCommand(c, req)
  <2>1. req.key \in Keys
    BY <1>4, KeyedRequests DEF ReadCommand
  <2>2. expireIfNeed(db[dbid[c]], req.key, now) \in Database
    BY <2>1, ExpireIfNeedType
  <2>3. CASE req.op = "GET"
    <3>1. answer' \in {None} \cup Answer
      BY <1>4, <2>1, <2>2, <2>3 DEF ReadCommand, Answer, Database
    <3> QED BY <1>4, <2>2, <3>1 DEF ReadCommand
  <2>4. CASE req.op # "GET"
    <3>1. dbid[c] \in Dbs /\ 0 \in Dbs
      BY DbsAssumption
    <3>2. /\ db[0].expires[req.key] \in Int \cup {None}
          /\ db[dbid[c]].expires[req.key] \in Int \cup {None}
      BY <2>1, <3>1 DEF Database
    <3>3. dbGetTTL(dbid[c], req.key) \in Int
      BY <3>2 DEF dbGetTTL
    <3>4. commandTtlProc(dbid[c], req.key) \in Answer
      BY <2>1, <3>1, <3>3 DEF commandTtlProc, Answer
    <3>5. answer' \in {None} \cup Answer
      BY <1>4, <2>4, <3>4 DEF ReadCommand
    <3> QED BY <1>4, <2>2, <3>5 DEF ReadCommand
  <2> QED BY <2>3, <2>4
<1>5. CASE commandObjectProc(c, req)
  <2>1. req.key \in Keys
    BY <1>5, KeyedRequests DEF commandObjectProc
  <2>2. answer' \in {None} \cup Answer
    BY <1>5, <2>1 DEF commandObjectProc, Answer, Database
  <2> QED BY <1>5, <2>2 DEF commandObjectProc
<1>6. CASE commandSelectProc(c, req)
  BY <1>6, SelectRequests DEF commandSelectProc
<1>7. CASE commandMultiProc(c, req)
  BY <1>7 DEF commandMultiProc, Flag
<1>8. CASE commandWatchProc(c, req)
  BY <1>8, KeyedRequests DEF commandWatchProc, dbAddWatch
<1>9. CASE commandByeProc(c, req)
  BY <1>9 DEF commandByeProc
<1>10. CASE commandSlaveofProc(c, req)
  BY <1>10 DEF commandSlaveofProc
<1> QED
  BY <1>1, <1>2, <1>3, <1>4, <1>5, <1>6, <1>7, <1>8, <1>9, <1>10
  DEF processClientQueryBuf, processCommand

\* initServer sets up a state of the right shape.
LEMMA InitType == Init => TypeOK
<1> SUFFICES ASSUME Init PROVE TypeOK
  OBVIOUS
<1>1. EmptyDatabase \in Database
  BY DEF EmptyDatabase, Database
<1>2. db \in [Dbs -> Database] /\ replica \in Database /\ foreign \in SUBSET Keys
  BY <1>1 DEF Init
<1>3. watched \in [Dbs -> [Keys -> SUBSET Addrs]]
  BY DEF Init
<1>4. /\ clients \in SUBSET Addrs
      /\ flags \in [Addrs -> SUBSET Flag]
      /\ toclose \in [Addrs -> BOOLEAN]
      /\ dbid \in [Addrs -> Dbs]
  BY DbsAssumption DEF Init
<1>5. queue \in [Addrs -> Seq(Requests \cup {None})]
  <2>1. <<>> \in Seq(Requests \cup {None})
    OBVIOUS
  <2> QED BY <2>1 DEF Init
<1>6. /\ watching \in [Addrs -> SUBSET (Dbs \X Keys)]
      /\ touched \in [Addrs -> BOOLEAN]
  BY DEF Init
<1>7. /\ role \in {"MASTER", "SLAVE"}
      /\ exec \in {None} \cup [client : Addrs, i : Nat \ {0}]
      /\ now \in Nat
      /\ answer \in {None} \cup Answer
      /\ crashed \in BOOLEAN
  BY ParametersAssumption DEF Init
<1> QED
  BY <1>2, <1>3, <1>4, <1>5, <1>6, <1>7 DEF TypeOK

\* Every handler keeps the shape of the state.
LEMMA NextType == TypeOK /\ [Next]_vars => TypeOK'
<1> SUFFICES ASSUME TypeOK, [Next]_vars PROVE TypeOK'
  OBVIOUS
<1> USE DEF data, watches, session, vars
<1>1. ASSUME NEW c \in Addrs, NEW req \in Requests, readFromClient(c, req)
      PROVE  TypeOK'
  BY <1>1, CommandType DEF readFromClient, TypeOK
<1>2. CASE ExecNext
  <2> DEFINE c == exec.client
  <2>1. exec \in [client : Addrs, i : Nat \ {0}]
    BY <1>2 DEF ExecNext, TypeOK
  <2>2. c \in Addrs /\ exec.i \in Nat \ {0}
    BY <2>1
  <2>3. exec' = [exec EXCEPT !.i = exec.i + 1]
    BY <1>2 DEF ExecNext
  <2>4. exec' \in [client : Addrs, i : Nat \ {0}]
    BY <2>1, <2>2, <2>3
  <2>5. CASE queue[c][exec.i] # None /\ processClientQueryBuf(c, queue[c][exec.i])
    <3>1. queue[c][exec.i] \in Requests
      BY <1>2, <2>2, <2>5 DEF ExecNext, TypeOK
    <3> QED BY <1>2, <2>2, <2>4, <2>5, <3>1, CommandType DEF ExecNext
  <2>6. CASE /\ answer' = None
             /\ UNCHANGED <<data, watches, flags, toclose, dbid, queue, crashed>>
    BY <1>2, <2>4, <2>6 DEF ExecNext, TypeOK
  <2> QED BY <1>2, <2>5, <2>6 DEF ExecNext
<1>3. ASSUME NEW c \in Addrs, ExecRejected(c)
      PROVE  TypeOK'
  BY <1>3 DEF ExecRejected, ForgetWatch, TypeOK, ExecFlags, Flag
<1>4. ASSUME NEW c \in Addrs, ExecAccepted(c)
      PROVE  TypeOK'
  BY <1>4 DEF ExecAccepted, ForgetWatch, TypeOK, ExecFlags, Flag
<1>5. ASSUME NEW c \in Addrs, acceptTcpHandler(c)
      PROVE  TypeOK'
  BY <1>5, DbsAssumption DEF acceptTcpHandler, ForgetWatch, TypeOK, Flag
<1>6. ASSUME NEW c \in Addrs, PeerGone(c) \/ sendToClient(c)
      PROVE  TypeOK'
  <2>1. clientToclose(c)
    BY <1>6 DEF PeerGone, sendToClient
  <2>2. flags' \in [Addrs -> SUBSET Flag]
    BY <2>1 DEF clientToclose, TypeOK, Flag
  <2> QED BY <2>1, <2>2 DEF clientToclose, TypeOK
<1>7. CASE ExecDone
  BY <1>7 DEF ExecDone, TypeOK
<1>8. CASE closeClients
  BY <1>8, DbsAssumption DEF closeClients, TypeOK
<1>9. ASSUME NEW k \in Keys, ReplicaRead(k)
      PROVE  TypeOK'
  BY <1>9, ExpireIfNeedType DEF ReplicaRead, TypeOK
<1>10. CASE Tick
  BY <1>10 DEF Tick, TypeOK
<1>11. CASE UNCHANGED vars
  BY <1>11 DEF TypeOK
<1> QED
  BY <1>1, <1>2, <1>3, <1>4, <1>5, <1>6, <1>7, <1>8, <1>9, <1>10, <1>11 DEF Next

\* Every variable keeps its type, for any requests the clients send.
THEOREM TypeCorrect == Spec => []TypeOK
BY InitType, NextType, PTL DEF Spec

(***************************************************************************)
(* WATCH.  WatchInv is inductive next to TypeOK; only a write command      *)
(* needs an argument, the other steps leave the four variables of WatchInv *)
(* alone or reset the client they concern.                                 *)
(***************************************************************************)

\* Whoever watches the key that a command writes is in the key's list or
\* dirty already, so touchWatchKey leaves no clean client behind.
LEMMA CommandWatch ==
  ASSUME TypeOK, WatchInv, NEW c \in Addrs, NEW req \in Requests,
         processClientQueryBuf(c, req), clients' = clients
  PROVE  WatchInv'
<1> USE DEF data, watches
<1>1. CASE WriteCommand(c, req)
  <2> DEFINE d == dbid[c]
             k == req.key
  <2>1. d \in Dbs /\ k \in Keys
    BY <1>1, WriteRequests DEF WriteCommand, TypeOK
  <2> SUFFICES ASSUME NEW a \in clients, "DIRTY_CAS" \notin flags'[a]
               PROVE  /\ ~touched'[a]
                      /\ \A w \in watching'[a] : a \in watched'[w[1]][w[2]]
    BY DEF WatchInv
  <2>2. a \in Addrs
    BY DEF TypeOK
  <2>3. a \notin watched[d][k] /\ "DIRTY_CAS" \notin flags[a]
    BY <1>1, <2>2 DEF WriteCommand, touchWatchKey
  <2>4. ~touched[a] /\ \A w \in watching[a] : a \in watched[w[1]][w[2]]
    BY <2>3 DEF WatchInv
  <2>5. <<d, k>> \notin watching[a]
    BY <2>3, <2>4
  <2>6. ~touched'[a]
    BY <1>1, <2>2, <2>4, <2>5 DEF WriteCommand
  <2>7. ASSUME NEW w \in watching[a]
        PROVE  a \in watched'[w[1]][w[2]]
    <3>1. w \in Dbs \X Keys
      BY <2>2, <2>7 DEF TypeOK
    <3>2. w[1] # d \/ w[2] # k
      BY <2>5, <2>7, <3>1
    <3>3. watched'[w[1]][w[2]] = watched[w[1]][w[2]]
      BY <1>1, <2>1, <3>1, <3>2 DEF WriteCommand, touchWatchKey, TypeOK
    <3> QED BY <2>4, <2>7, <3>3
  <2>8. watching' = watching
    BY <1>1 DEF WriteCommand
  <2> QED BY <2>6, <2>7, <2>8
<1>2. CASE commandWatchProc(c, req)
  <2>1. dbid[c] \in Dbs /\ req.key \in Keys
    BY <1>2, KeyedRequests DEF commandWatchProc, dbAddWatch, TypeOK
  <2> SUFFICES ASSUME NEW a \in clients, "DIRTY_CAS" \notin flags'[a],
                      NEW w \in watching'[a]
               PROVE  ~touched'[a] /\ a \in watched'[w[1]][w[2]]
    BY <1>2 DEF WatchInv, commandWatchProc, dbAddWatch
  <2>2. a \in Addrs /\ ~touched[a]
    BY <1>2 DEF TypeOK, WatchInv, commandWatchProc, dbAddWatch
  <2>3. CASE w \in watching[a]
    <3>1. w \in Dbs \X Keys /\ a \in watched[w[1]][w[2]]
      BY <1>2, <2>2, <2>3 DEF TypeOK, WatchInv, commandWatchProc, dbAddWatch
    <3> QED BY <1>2, <2>1, <2>2, <3>1 DEF commandWatchProc, dbAddWatch, TypeOK
  <2>4. CASE w \notin watching[a]
    <3>1. a = c /\ w = <<dbid[c], req.key>>
      BY <1>2, <2>2, <2>4 DEF commandWatchProc, dbAddWatch, TypeOK
    <3> QED BY <1>2, <2>1, <2>2, <3>1 DEF commandWatchProc, dbAddWatch, TypeOK
  <2> QED BY <2>3, <2>4
<1>3. CASE commandMultiProc(c, req)
  BY <1>3 DEF commandMultiProc, WatchInv, TypeOK
<1>4. CASE \/ clientMultiAdd(c, req)
           \/ InvalidCommand(c, req)
           \/ ReadCommand(c, req)
           \/ commandObjectProc(c, req)
           \/ commandSelectProc(c, req)
           \/ commandByeProc(c, req)
           \/ commandSlaveofProc(c, req)
  <2>1. UNCHANGED <<flags, watched, watching, touched>>
    BY <1>4 DEF clientMultiAdd, InvalidCommand, ReadCommand, commandObjectProc,
                commandSelectProc, commandByeProc, commandSlaveofProc
  <2> QED BY <2>1 DEF WatchInv
<1> QED
  BY <1>1, <1>2, <1>3, <1>4 DEF processClientQueryBuf, processCommand

\* Every handler keeps WatchInv.
LEMMA NextWatch == TypeOK /\ WatchInv /\ [Next]_vars => WatchInv'
<1> SUFFICES ASSUME TypeOK, WatchInv, [Next]_vars PROVE WatchInv'
  OBVIOUS
<1> USE DEF data, watches, session, vars
<1>1. ASSUME NEW c \in Addrs, NEW req \in Requests, readFromClient(c, req)
      PROVE  WatchInv'
  BY <1>1, CommandWatch DEF readFromClient
<1>2. CASE ExecNext
  <2> DEFINE c == exec.client
  <2>1. c \in Addrs /\ exec.i \in Nat \ {0}
    BY <1>2 DEF ExecNext, TypeOK
  <2>2. CASE queue[c][exec.i] # None /\ processClientQueryBuf(c, queue[c][exec.i])
    <3>1. queue[c][exec.i] \in Requests
      BY <1>2, <2>1, <2>2 DEF ExecNext, TypeOK
    <3> QED BY <1>2, <2>1, <2>2, <3>1, CommandWatch DEF ExecNext
  <2>3. CASE /\ answer' = None
             /\ UNCHANGED <<data, watches, flags, toclose, dbid, queue, crashed>>
    BY <1>2, <2>3 DEF ExecNext, WatchInv
  <2> QED BY <1>2, <2>2, <2>3 DEF ExecNext
<1>3. ASSUME NEW c \in Addrs, ExecRejected(c) \/ ExecAccepted(c)
      PROVE  WatchInv'
  <2>1. /\ ForgetWatch(c)
        /\ clients' = clients
        /\ \A a \in Addrs \ {c} : flags'[a] = flags[a]
    BY <1>3 DEF ExecRejected, ExecAccepted, TypeOK
  <2> QED BY <2>1 DEF ForgetWatch, WatchInv, TypeOK
<1>4. ASSUME NEW c \in Addrs, acceptTcpHandler(c)
      PROVE  WatchInv'
  <2>1. /\ ForgetWatch(c)
        /\ clients' = clients \cup {c}
        /\ \A a \in Addrs \ {c} : flags'[a] = flags[a]
    BY <1>4 DEF acceptTcpHandler, TypeOK
  <2> QED BY <2>1 DEF ForgetWatch, WatchInv, TypeOK
<1>5. ASSUME NEW c \in Addrs, PeerGone(c) \/ sendToClient(c)
      PROVE  WatchInv'
  <2>1. /\ UNCHANGED <<clients, watched, watching, touched>>
        /\ flags' = [flags EXCEPT ![c] = @ \cup {"TO_CLOSE"}]
    BY <1>5 DEF PeerGone, sendToClient, clientToclose
  <2> QED BY <2>1 DEF WatchInv, TypeOK
<1>6. CASE ExecDone
  <2>1. /\ UNCHANGED <<clients, watched, watching, touched>>
        /\ flags' = [flags EXCEPT ![exec.client] = @ \ {"EXEC"}]
    BY <1>6 DEF ExecDone
  <2> QED BY <2>1 DEF WatchInv, TypeOK
<1>7. CASE closeClients
  BY <1>7 DEF closeClients, WatchInv, TypeOK
<1>8. ASSUME NEW k \in Keys, ReplicaRead(k)
      PROVE  WatchInv'
  BY <1>8 DEF ReplicaRead, WatchInv
<1>9. CASE Tick
  BY <1>9 DEF Tick, WatchInv
<1>10. CASE UNCHANGED vars
  BY <1>10 DEF WatchInv
<1> QED
  BY <1>1, <1>2, <1>3, <1>4, <1>5, <1>6, <1>7, <1>8, <1>9, <1>10 DEF Next

\* The lists, the flags and the history agree in every reachable state.
THEOREM WatchInvariant == Spec => []WatchInv
<1>1. Init => WatchInv
  BY DEF Init, WatchInv
<1>2. TypeOK /\ WatchInv /\ [Next]_vars => WatchInv'
  BY NextWatch
<1> QED BY <1>1, <1>2, TypeCorrect, PTL DEF Spec

\* No EXEC is accepted after a write to a watched key: commandExecProc finds
\* DIRTY_CAS set whatever the other clients, and the connections that came and
\* went at the same address, did since the WATCH.
THEOREM WatchIsSafe == Spec => WatchSafety
<1>1. TypeOK /\ WatchInv => \A c \in Addrs : ExecAccepted(c) => ~touched[c]
  BY DEF WatchInv, ExecAccepted, ExecFlags, Readable, Registered
<1> QED BY <1>1, TypeCorrect, WatchInvariant, PTL DEF WatchSafety

(***************************************************************************)
(* Replication of the data.  Two databases agree on a key when they have   *)
(* the same deadline for it and show the same value.  ReplicaAgrees says   *)
(* so of the master's database 0 and the replica; it is inductive.         *)
(***************************************************************************)

Agree(r, s, k, t) ==
  /\ r.expires[k] = s.expires[k]
  /\ Visible(r, k, t) = Visible(s, k, t)

\* Lazy expiry of any key shows in no reader's view.
LEMMA ExpireAgrees ==
  ASSUME NEW r \in Database, NEW s \in Database, NEW k \in Keys, NEW t \in Int,
         NEW j \in Keys, Agree(r, s, k, t)
  PROVE  /\ Agree(expireIfNeed(r, j, t), s, k, t)
         /\ Agree(r, expireIfNeed(s, j, t), k, t)
BY NoneIsFresh DEF Agree, Visible, expireIfNeed, Stale, Database

\* A write command keeps two databases in agreement, though one may still
\* hold stale values that the other has dropped.
LEMMA ExecuteAgrees ==
  ASSUME NEW r \in Database, NEW s \in Database, NEW k \in Keys, NEW t \in Int,
         NEW req \in WriteRequest, Agree(r, s, k, t)
  PROVE  Agree(Execute(r, req, t), Execute(s, req, t), k, t)
<1>1. req.key \in Keys
  BY DEF WriteRequest
<1> DEFINE rr == expireIfNeed(r, req.key, t)
           ss == expireIfNeed(s, req.key, t)
<1>2. rr \in Database /\ ss \in Database
  BY <1>1, ExpireIfNeedType
<1>3. Agree(rr, ss, k, t)
  BY <1>1, <1>2, ExpireAgrees
<1>4. k = req.key => rr.kv[k] = ss.kv[k]
  BY <1>1 DEF Agree, Visible, Stale, expireIfNeed, Database
<1> HIDE DEF rr, ss
<1>5. CASE req.op = "SET"
  <2>1. Agree(commandSetProc(rr, req), commandSetProc(ss, req), k, t)
    BY <1>1, <1>2, <1>3, <1>4 DEF commandSetProc, dbAdd, Agree, Visible, Stale, Database
  <2> QED BY <1>5, <2>1 DEF Execute, rr, ss
<1>6. CASE req.op = "DEL"
  <2>1. Agree(commandDelProc(rr, req), commandDelProc(ss, req), k, t)
    BY <1>1, <1>2, <1>3, <1>4 DEF commandDelProc, dbDelete, Agree, Visible, Stale, Database
  <2> QED BY <1>6, <2>1 DEF Execute, rr, ss
<1>7. CASE req.op = "EXPIRE"
  <2>1. Agree(commandExpireProc(rr, req, t), commandExpireProc(ss, req, t), k, t)
    BY <1>1, <1>2, <1>3, <1>4
    DEF commandExpireProc, dbSetExpire, Agree, Visible, Stale, Database
  <2> QED BY <1>7, <2>1 DEF Execute, rr, ss
<1> QED BY <1>5, <1>6, <1>7 DEF WriteRequest

\* And a write command does nothing to the other keys.
LEMMA ExecuteElsewhere ==
  ASSUME NEW s \in Database, NEW k \in Keys, NEW t \in Int,
         NEW req \in WriteRequest, k # req.key
  PROVE  /\ Execute(s, req, t).kv[k] = s.kv[k]
         /\ Execute(s, req, t).expires[k] = s.expires[k]
<1>1. req.key \in Keys
  BY DEF WriteRequest
<1> DEFINE live == expireIfNeed(s, req.key, t)
<1>2. /\ live \in Database
      /\ live.kv[k] = s.kv[k] /\ live.expires[k] = s.expires[k]
  BY <1>1, ExpireIfNeedType DEF expireIfNeed, Database
<1> HIDE DEF live
<1>3. CASE req.op = "SET"
  BY <1>1, <1>2, <1>3 DEF Execute, live, commandSetProc, dbAdd, Database
<1>4. CASE req.op = "DEL"
  BY <1>1, <1>2, <1>4 DEF Execute, live, commandDelProc, dbDelete, Database
<1>5. CASE req.op = "EXPIRE"
  BY <1>1, <1>2, <1>5 DEF Execute, live, commandExpireProc, dbSetExpire, Database
<1> QED BY <1>3, <1>4, <1>5 DEF WriteRequest

\* Values that have lapsed on one side stay lapsed on both.
LEMMA TickAgrees ==
  ASSUME NEW r \in Database, NEW s \in Database, NEW k \in Keys, NEW t \in Int,
         Agree(r, s, k, t)
  PROVE  Agree(r, s, k, t + 1)
BY NoneIsFresh DEF Agree, Visible, Stale, Database

\* A command changes the master's database and the replica's alike.
LEMMA CommandReplica ==
  ASSUME ~AofOn, TypeOK, ReplicaAgrees, NEW c \in Addrs, NEW req \in Requests,
         processClientQueryBuf(c, req), now' = now
  PROVE  ReplicaAgrees'
<1> SUFFICES ASSUME NEW k \in Keys \ foreign', role' = "MASTER"
             PROVE  Agree(replica, db[0], k, now)'
  BY DEF ReplicaAgrees, Agree
<1>1. /\ 0 \in Dbs /\ now \in Int
      /\ replica \in Database /\ db[0] \in Database
  BY DbsAssumption DEF TypeOK
<1>2. ASSUME role = "MASTER", k \notin foreign
      PROVE  Agree(replica, db[0], k, now)
  BY <1>2 DEF ReplicaAgrees, Agree
<1>3. CASE WriteCommand(c, req)
  <2>1. req \in WriteRequest /\ req.key \in Keys /\ dbid[c] \in Dbs
    BY <1>3, WriteRequests DEF WriteCommand, TypeOK
  <2>2. role = "MASTER" /\ k \notin foreign
    BY <1>3 DEF WriteCommand
  <2>3. replica' = Execute(replica, req, now)
    BY <1>3, <2>2 DEF WriteCommand, commandPropagate
  <2>4. CASE dbid[c] = 0
    <3>1. db'[0] = Execute(db[0], req, now)
      BY <1>1, <1>3, <2>4 DEF WriteCommand, TypeOK
    <3>2. Agree(replica', db'[0], k, now)
      BY <1>1, <1>2, <2>1, <2>2, <2>3, <3>1, ExecuteAgrees
    <3> QED BY <3>2 DEF Agree
  <2>5. CASE dbid[c] # 0
    <3>1. db'[0] = db[0] /\ k # req.key
      BY <1>1, <1>3, <2>1, <2>5 DEF WriteCommand, TypeOK
    <3>2. /\ replica'.kv[k] = replica.kv[k]
          /\ replica'.expires[k] = replica.expires[k]
      BY <1>1, <2>1, <2>3, <3>1, ExecuteElsewhere
    <3> QED BY <1>2, <2>2, <3>1, <3>2 DEF Agree, Visible, Stale
  <2> QED BY <2>4, <2>5
<1>4. CASE ReadCommand(c, req)
  <2>1. req.key \in Keys /\ dbid[c] \in Dbs
    BY <1>4, KeyedRequests DEF ReadCommand, TypeOK
  <2>2. role = "MASTER" /\ k \notin foreign /\ replica' = replica
    BY <1>4 DEF ReadCommand
  <2>3. db'[0] = IF dbid[c] = 0 THEN expireIfNeed(db[0], req.key, now) ELSE db[0]
    BY <1>1, <1>4 DEF ReadCommand, TypeOK
  <2>4. Agree(replica, db'[0], k, now)
    BY <1>1, <1>2, <2>1, <2>2, <2>3, ExpireAgrees
  <2> QED BY <2>2, <2>4 DEF Agree
<1>5. CASE \/ clientMultiAdd(c, req)
           \/ InvalidCommand(c, req)
           \/ commandObjectProc(c, req)
           \/ commandSelectProc(c, req)
           \/ commandMultiProc(c, req)
           \/ commandWatchProc(c, req)
           \/ commandByeProc(c, req)
  <2>1. UNCHANGED <<role, db, replica, foreign>>
    BY <1>5 DEF clientMultiAdd, InvalidCommand, commandObjectProc, commandSelectProc,
                commandMultiProc, commandWatchProc, dbAddWatch, commandByeProc, data
  <2> QED BY <1>2, <2>1 DEF Agree, Visible, Stale
<1>6. CASE commandSlaveofProc(c, req)
  <2>1. role = "MASTER" => role' = "SLAVE"
    BY <1>6 DEF commandSlaveofProc
  <2>2. role = "MASTER"
    BY <1>6 DEF commandSlaveofProc, TypeOK
  <2> QED BY <2>1, <2>2
<1> QED
  BY <1>3, <1>4, <1>5, <1>6 DEF processClientQueryBuf, processCommand

\* So does every other step, when nothing else takes the buffer.
LEMMA NextReplica ==
  ASSUME ~AofOn
  PROVE  TypeOK /\ ReplicaAgrees /\ [Next]_vars => ReplicaAgrees'
<1> SUFFICES ASSUME TypeOK, ReplicaAgrees, [Next]_vars PROVE ReplicaAgrees'
  OBVIOUS
<1> USE DEF data, watches, session, vars
<1>1. ASSUME NEW c \in Addrs, NEW req \in Requests, readFromClient(c, req)
      PROVE  ReplicaAgrees'
  BY <1>1, CommandReplica DEF readFromClient
<1>2. CASE ExecNext
  <2> DEFINE c == exec.client
  <2>1. c \in Addrs /\ exec.i \in Nat \ {0}
    BY <1>2 DEF ExecNext, TypeOK
  <2>2. CASE queue[c][exec.i] # None /\ processClientQueryBuf(c, queue[c][exec.i])
    <3>1. queue[c][exec.i] \in Requests
      BY <1>2, <2>1, <2>2 DEF ExecNext, TypeOK
    <3> QED BY <1>2, <2>1, <2>2, <3>1, CommandReplica DEF ExecNext
  <2>3. CASE /\ answer' = None
             /\ UNCHANGED <<data, watches, flags, toclose, dbid, queue, crashed>>
    BY <1>2, <2>3 DEF ExecNext, ReplicaAgrees, Visible, Stale
  <2> QED BY <1>2, <2>2, <2>3 DEF ExecNext
<1>3. ASSUME NEW k \in Keys, ReplicaRead(k)
      PROVE  ReplicaAgrees'
  <2> SUFFICES ASSUME NEW j \in Keys \ foreign
               PROVE  Agree(expireIfNeed(replica, k, now), db[0], j, now)
    BY <1>3 DEF ReplicaRead, ReplicaAgrees, Agree, Visible, Stale
  <2>1. Agree(replica, db[0], j, now)
    BY <1>3 DEF ReplicaRead, ReplicaAgrees, Agree
  <2>2. replica \in Database /\ db[0] \in Database /\ now \in Int
    BY DbsAssumption DEF TypeOK
  <2> QED BY <1>3, <2>1, <2>2, ExpireAgrees
<1>4. CASE Tick
  <2> SUFFICES ASSUME NEW k \in Keys \ foreign, role = "MASTER"
               PROVE  Agree(replica, db[0], k, now + 1)
    BY <1>4 DEF Tick, ReplicaAgrees, Agree, Visible, Stale
  <2>1. Agree(replica, db[0], k, now)
    BY DEF ReplicaAgrees, Agree
  <2>2. replica \in Database /\ db[0] \in Database /\ now \in Int
    BY DbsAssumption DEF TypeOK
  <2> QED BY <2>1, <2>2, TickAgrees
<1>5. CASE \/ \E c \in Addrs :
                \/ ExecRejected(c) \/ ExecAccepted(c) \/ acceptTcpHandler(c)
                \/ PeerGone(c) \/ sendToClient(c)
           \/ ExecDone
           \/ closeClients
           \/ UNCHANGED vars
  <2>1. UNCHANGED <<role, db, replica, foreign, now>>
    BY <1>5 DEF ExecRejected, ExecAccepted, acceptTcpHandler, PeerGone, sendToClient,
                clientToclose, ExecDone, closeClients
  <2> QED BY <2>1 DEF ReplicaAgrees, Visible, Stale
<1> QED
  BY <1>1, <1>2, <1>3, <1>4, <1>5 DEF Next

\* With the AOF off, the commands a master propagates keep every replica that
\* has been there from the start in agreement with its database 0.
THEOREM ReplicaFollows ==
  ASSUME ~AofOn
  PROVE  Spec => []ReplicaAgrees
<1>1. Init => ReplicaAgrees
  BY DbsAssumption DEF Init, ReplicaAgrees, EmptyDatabase, Visible, Stale
<1>2. TypeOK /\ ReplicaAgrees /\ [Next]_vars => ReplicaAgrees'
  BY NextReplica
<1> QED BY <1>1, <1>2, TypeCorrect, PTL DEF Spec

(***************************************************************************)
(* The databases implement KVStore.  Show and Deadline are what Commands   *)
(* substitutes for the variables of the abstract store.                    *)
(***************************************************************************)

Show == [d \in Dbs |-> [k \in Keys |-> Visible(db[d], k, now)]]
Deadline == [d \in Dbs |-> db[d].expires]

\* What a write command turns database s into, as its readers see it: no view
\* changes but that of its key, which becomes what the abstract store says.
Shows(s, u, req, t) ==
  /\ \A k \in Keys : k # req.key => Visible(u, k, t) = Visible(s, k, t)
  /\ req.op = "SET" =>
       /\ u.expires = s.expires
       /\ Visible(u, req.key, t) =
            IF Stale(s, req.key, t) \/ req.val = None
              THEN Visible(s, req.key, t) ELSE req.val
  /\ req.op = "DEL" =>
       /\ u.expires = s.expires
       /\ Visible(u, req.key, t) = None
  /\ (req.op = "EXPIRE" /\ (req.ttl = None \/ s.expires[req.key] # None)) =>
       /\ u.expires = s.expires
       /\ Visible(u, req.key, t) = Visible(s, req.key, t)
  /\ (req.op = "EXPIRE" /\ req.ttl # None /\ s.expires[req.key] = None) =>
       /\ u.expires = [s.expires EXCEPT ![req.key] = t + req.ttl]
       /\ Visible(u, req.key, t) =
            IF t > t + req.ttl THEN None ELSE Visible(s, req.key, t)

\* What a write command makes of a database shows as KVStore says it does.
LEMMA ExecuteShows ==
  ASSUME NEW s \in Database, NEW t \in Int, NEW req \in WriteRequest
  PROVE  Shows(s, Execute(s, req, t), req, t)
<1> DEFINE u == Execute(s, req, t)
<1>1. req.key \in Keys
  BY DEF WriteRequest
<1> DEFINE live == expireIfNeed(s, req.key, t)
<1>2. /\ live \in Database /\ live.expires = s.expires
      /\ Visible(live, req.key, t) = Visible(s, req.key, t)
      /\ live.kv[req.key] = Visible(s, req.key, t)
  BY <1>1, ExpireIfNeedType DEF expireIfNeed, Visible, Stale, Database
<1>3. ASSUME NEW k \in Keys, k # req.key
      PROVE  Visible(u, k, t) = Visible(s, k, t)
  BY <1>3, ExecuteElsewhere DEF Visible, Stale
<1> HIDE DEF live, u
<1>4. CASE req.op = "SET"
  <2>1. u = commandSetProc(live, req)
    BY <1>4 DEF Execute, live, u
  <2>2. u.expires = s.expires
    BY <1>2, <2>1 DEF commandSetProc, dbAdd, Database
  <2>3. u.kv[req.key] = IF req.val = None THEN live.kv[req.key] ELSE req.val
    BY <1>1, <1>2, <2>1 DEF commandSetProc, dbAdd, Database
  <2>4. Shows(s, u, req, t)
    BY <1>2, <1>3, <1>4, <2>2, <2>3 DEF Shows, Visible, Stale
  <2> QED BY <2>4 DEF u
<1>5. CASE req.op = "DEL"
  <2>1. u = commandDelProc(live, req)
    BY <1>5 DEF Execute, live, u
  <2>2. u.expires = s.expires /\ u.kv[req.key] = None
    BY <1>1, <1>2, <2>1 DEF commandDelProc, dbDelete, Database
  <2>3. Shows(s, u, req, t)
    BY <1>3, <1>5, <2>2 DEF Shows, Visible, Stale
  <2> QED BY <2>3 DEF u
<1>6. CASE req.op = "EXPIRE"
  <2>1. u = commandExpireProc(live, req, t)
    BY <1>6 DEF Execute, live, u
  <2>2. CASE req.ttl = None \/ s.expires[req.key] # None
    <3>1. u = live
      BY <1>2, <2>1, <2>2 DEF commandExpireProc, dbSetExpire
    <3>2. Shows(s, u, req, t)
      BY <1>2, <1>3, <1>6, <2>2, <3>1 DEF Shows
    <3> QED BY <3>2 DEF u
  <2>3. CASE req.ttl # None /\ s.expires[req.key] = None
    <3>1. /\ u.expires = [s.expires EXCEPT ![req.key] = t + req.ttl]
          /\ u.kv = live.kv
      BY <1>2, <2>1, <2>3 DEF commandExpireProc, dbSetExpire, Database
    <3>2. req.ttl \in Int /\ u.expires[req.key] = t + req.ttl
      BY <1>1, <1>6, <2>3, <3>1 DEF WriteRequest, Database
    <3>3. t + req.ttl # None
      BY <3>2, NoneIsFresh
    <3>4. Visible(u, req.key, t) =
            IF t > t + req.ttl THEN None ELSE live.kv[req.key]
      BY <3>1, <3>2, <3>3 DEF Visible, Stale
    <3>5. Shows(s, u, req, t)
      BY <1>2, <1>3, <1>6, <2>3, <3>1, <3>4 DEF Shows
    <3> QED BY <3>5 DEF u
  <2> QED BY <2>2, <2>3
<1> QED BY <1>4, <1>5, <1>6 DEF WriteRequest

\* A write command is a step of the abstract store.
LEMMA WriteRefines ==
  ASSUME TypeOK, NEW c \in Addrs, NEW req \in Requests, WriteCommand(c, req),
         now' = now
  PROVE  [Store!Next]_<<Show, Deadline, now>>
<1> DEFINE d == dbid[c]
           k == req.key
           s == db[d]
           u == Execute(s, req, now)
<1>1. /\ d \in Dbs /\ k \in Keys /\ req \in WriteRequest
      /\ s \in Database /\ u \in Database /\ now \in Int
  BY WriteRequests, ExecuteType DEF WriteCommand, TypeOK
<1>2. db' = [db EXCEPT ![d] = u] /\ db \in [Dbs -> Database]
  BY DEF WriteCommand, TypeOK
<1>3. Shows(s, u, req, now)
  BY <1>1, ExecuteShows
<1> HIDE DEF d, s, u
<1>4. \A j \in Keys : j # k => Visible(u, j, now) = Visible(s, j, now)
  BY <1>3 DEF Shows
<1>5. Show' = [Show EXCEPT ![d][k] = Visible(u, k, now)]
  BY <1>1, <1>2, <1>4 DEF Show, s
<1>6. Show[d][k] = Visible(s, k, now) /\ Deadline[d] = s.expires
  BY <1>1 DEF Show, Deadline, s
<1>7. Deadline' = [Deadline EXCEPT ![d] = u.expires]
  BY <1>1, <1>2 DEF Deadline
<1>8. CASE /\ u.expires = s.expires
           /\ Visible(u, k, now) = Visible(s, k, now)
  <2>1. [Show EXCEPT ![d][k] = Show[d][k]] = Show
    BY DEF Show
  <2>2. Show' = Show
    BY <1>5, <1>6, <1>8, <2>1
  <2>3. Deadline' = Deadline
    BY <1>1, <1>6, <1>7, <1>8 DEF Deadline
  <2> QED BY <2>2, <2>3
<1>9. CASE /\ req.op = "SET"
           /\ ~(Stale(s, k, now) \/ req.val = None)
  <2>1. u.expires = s.expires /\ Visible(u, k, now) = req.val
    BY <1>3, <1>9 DEF Shows
  <2>2. req.val \in Vals
    BY <1>1, <1>9 DEF WriteRequest
  <2>3. Deadline' = Deadline
    BY <1>1, <1>6, <1>7, <2>1 DEF Deadline
  <2>4. Store!Put(d, k, req.val)
    BY <1>1, <1>5, <1>6, <1>9, <2>1, <2>3
    DEF Store!Put, Store!Lapsed, Show, Deadline, Stale
  <2> QED BY <1>1, <2>2, <2>4 DEF Store!Next
<1>10. CASE req.op = "DEL"
  <2>1. u.expires = s.expires /\ Visible(u, k, now) = None
    BY <1>3, <1>10 DEF Shows
  <2>2. Deadline' = Deadline
    BY <1>1, <1>6, <1>7, <2>1 DEF Deadline
  <2>3. Store!Remove(d, k)
    BY <1>1, <1>5, <2>1, <2>2 DEF Store!Remove, Show, Deadline
  <2> QED BY <1>1, <2>3 DEF Store!Next
<1>11. CASE req.op = "EXPIRE" /\ req.ttl # None /\ s.expires[k] = None
  <2> DEFINE t == now + req.ttl
  <2>1. /\ u.expires = [s.expires EXCEPT ![k] = t]
        /\ Visible(u, k, now) = IF now > t THEN None ELSE Visible(s, k, now)
    BY <1>3, <1>11 DEF Shows
  <2>2. t \in Int
    BY <1>1, <1>11 DEF WriteRequest
  <2> HIDE DEF t
  <2>3. Deadline' = [Deadline EXCEPT ![d][k] = t]
    BY <1>1, <1>6, <1>7, <2>1 DEF Deadline, Database
  <2>4. Deadline'[d][k] = t
    BY <1>1, <1>7, <2>1 DEF Deadline, Database
  <2>5. Show' = [Show EXCEPT ![d][k] = IF now > t THEN None ELSE @]
    BY <1>1, <1>5, <1>6, <2>1 DEF Show
  <2>6. Store!SetDeadline(d, k)
    BY <1>6, <1>11, <2>2, <2>3, <2>4, <2>5
    DEF Store!SetDeadline, Show, Deadline
  <2> QED BY <1>1, <2>6 DEF Store!Next
<1> QED
  BY <1>1, <1>3, <1>8, <1>9, <1>10, <1>11 DEF Shows, WriteRequest

\* Any command is a step of the abstract store or leaves it alone.
LEMMA CommandRefines ==
  ASSUME TypeOK, NEW c \in Addrs, NEW req \in Requests,
         processClientQueryBuf(c, req), now' = now
  PROVE  [Store!Next]_<<Show, Deadline, now>>
<1>1. CASE WriteCommand(c, req)
  BY <1>1, WriteRefines
<1>2. CASE ReadCommand(c, req)
  <2>1. req.key \in Keys /\ dbid[c] \in Dbs /\ db \in [Dbs -> Database] /\ now \in Int
    BY <1>2, KeyedRequests DEF ReadCommand, TypeOK
  <2>2. db' = [db EXCEPT ![dbid[c]] = expireIfNeed(@, req.key, now)]
    BY <1>2 DEF ReadCommand
  <2>3. ASSUME NEW d \in Dbs
        PROVE  /\ db'[d].expires = db[d].expires
               /\ \A k \in Keys : Visible(db'[d], k, now) = Visible(db[d], k, now)
    BY <2>1, <2>2 DEF expireIfNeed, Visible, Stale, Database
  <2>4. Show' = Show /\ Deadline' = Deadline
    BY <2>3 DEF Show, Deadline
  <2> QED BY <2>4
<1>3. CASE \/ clientMultiAdd(c, req)
           \/ InvalidCommand(c, req)
           \/ commandObjectProc(c, req)
           \/ commandSelectProc(c, req)
           \/ commandMultiProc(c, req)
           \/ commandWatchProc(c, req)
           \/ commandByeProc(c, req)
           \/ commandSlaveofProc(c, req)
  <2>1. db' = db
    BY <1>3 DEF clientMultiAdd, InvalidCommand, commandObjectProc, commandSelectProc,
                commandMultiProc, commandWatchProc, dbAddWatch, commandByeProc,
                commandSlaveofProc, data
  <2>2. Show' = Show /\ Deadline' = Deadline
    BY <2>1 DEF Show, Deadline
  <2> QED BY <2>2
<1> QED
  BY <1>1, <1>2, <1>3 DEF processClientQueryBuf, processCommand

\* Any step of the server is one of the abstract store or leaves it alone.
LEMMA NextRefines == TypeOK /\ [Next]_vars => [Store!Next]_<<Show, Deadline, now>>
<1> SUFFICES ASSUME TypeOK, [Next]_vars
             PROVE  [Store!Next]_<<Show, Deadline, now>>
  OBVIOUS
<1> USE DEF data, watches, session, vars
<1>1. ASSUME NEW c \in Addrs, NEW req \in Requests, readFromClient(c, req)
      PROVE  [Store!Next]_<<Show, Deadline, now>>
  BY <1>1, CommandRefines DEF readFromClient
<1>2. CASE ExecNext
  <2> DEFINE c == exec.client
  <2>1. c \in Addrs /\ exec.i \in Nat \ {0}
    BY <1>2 DEF ExecNext, TypeOK
  <2>2. CASE queue[c][exec.i] # None /\ processClientQueryBuf(c, queue[c][exec.i])
    <3>1. queue[c][exec.i] \in Requests
      BY <1>2, <2>1, <2>2 DEF ExecNext, TypeOK
    <3> QED BY <1>2, <2>1, <2>2, <3>1, CommandRefines DEF ExecNext
  <2>3. CASE /\ answer' = None
             /\ UNCHANGED <<data, watches, flags, toclose, dbid, queue, crashed>>
    BY <1>2, <2>3 DEF ExecNext, Show, Deadline
  <2> QED BY <1>2, <2>2, <2>3 DEF ExecNext
<1>3. CASE Tick
  <2>1. /\ now \in Int /\ now' = now + 1 /\ db' = db
        /\ db \in [Dbs -> Database]
    BY <1>3 DEF Tick, TypeOK
  <2>2. ASSUME NEW d \in Dbs, NEW k \in Keys
        PROVE  Visible(db[d], k, now + 1) =
                 IF Deadline[d][k] # None /\ now + 1 > Deadline[d][k]
                   THEN None ELSE Show[d][k]
    BY <2>1, NoneIsFresh DEF Visible, Stale, Show, Deadline, Database
  <2>3. Store!Second
    BY <2>1, <2>2 DEF Store!Second, Show, Deadline
  <2> QED BY <2>3 DEF Store!Next
<1>4. CASE \/ \E c \in Addrs :
                \/ ExecRejected(c) \/ ExecAccepted(c) \/ acceptTcpHandler(c)
                \/ PeerGone(c) \/ sendToClient(c)
           \/ ExecDone
           \/ closeClients
           \/ \E k \in Keys : ReplicaRead(k)
           \/ UNCHANGED vars
  <2>1. UNCHANGED <<db, now>>
    BY <1>4 DEF ExecRejected, ExecAccepted, acceptTcpHandler, PeerGone, sendToClient,
                clientToclose, ExecDone, closeClients, ReplicaRead
  <2> QED BY <2>1 DEF Show, Deadline
<1> QED
  BY <1>1, <1>2, <1>3, <1>4 DEF Next

\* Every behaviour of the server is one of the abstract store, whatever the
\* clients send and however late a stale value is dropped.
THEOREM ImplementsStore == Spec => StoreSpec
<1>1. Init => Store!Init
  BY DEF Init, Store!Init, EmptyDatabase, Visible, Stale
<1>2. TypeOK /\ [Next]_vars => [Store!Next]_Store!kvVars
  BY NextRefines DEF Store!kvVars, Show, Deadline
<1> QED BY <1>1, <1>2, TypeCorrect, PTL DEF Spec, StoreSpec, Store!Spec

(***************************************************************************)
(* Answers.  A reply is a statement about the state in which it is given;  *)
(* the next step, whatever it is, has another reply or none.               *)
(***************************************************************************)

\* processCommand looks at the deadline of the key before the procedure reads
\* its value, so GET answers with what is visible.
LEMMA ReadIsLive ==
  ASSUME TypeOK, NEW c \in Addrs, NEW req \in Requests, ReadCommand(c, req), now' = now
  PROVE  GetSeesLive'
<1>1. req.key \in Keys /\ req.op \in {"GET", "TTL"}
  BY KeyedRequests DEF ReadCommand
<1>2. PICK d, k, s : /\ d \in Dbs /\ k \in Keys
                   /\ d = dbid[c] /\ k = req.key /\ s = expireIfNeed(db[d], k, now)
  BY <1>1 DEF TypeOK
<1>3. /\ db[d] \in Database /\ s \in Database /\ db' = [db EXCEPT ![d] = s]
      /\ db[0] \in Database /\ 0 \in Dbs
  BY <1>2, ExpireIfNeedType, DbsAssumption DEF ReadCommand, TypeOK
<1>4. s.expires = db[d].expires
  BY <1>2, <1>3 DEF expireIfNeed, Database
<1>5. CASE req.op = "GET"
  <2>1. answer' = [op |-> "GET", db |-> d, key |-> k, val |-> s.kv[k]]
    BY <1>2, <1>5 DEF ReadCommand
  <2>2. db'[d] = s
    BY <1>2, <1>3 DEF TypeOK
  <2>3. s.kv[k] = Visible(s, k, now)
    <3>1. Stale(s, k, now) <=> Stale(db[d], k, now)
      BY <1>4 DEF Stale
    <3>2. CASE Stale(db[d], k, now)
      BY <1>2, <1>3, <3>1, <3>2 DEF expireIfNeed, Visible, Database
    <3>3. CASE ~Stale(db[d], k, now)
      BY <3>1, <3>3 DEF Visible
    <3>4. QED
      BY <3>2, <3>3
  <2>4. QED
    BY <2>1, <2>2, <2>3 DEF GetSeesLive
<1>6. CASE req.op = "TTL"
  <2>1. answer' = commandTtlProc(d, k)
    BY <1>2, <1>6 DEF ReadCommand
  <2>2. /\ answer'.op = "TTL" /\ answer'.db = d /\ answer'.key = k
        /\ answer'.ttl = IF db[0].expires[k] = None THEN None ELSE dbGetTTL(d, k)
    BY <2>1 DEF commandTtlProc
  <2>3. ASSUME d = 0
        PROVE  answer'.ttl # None /\ answer'.ttl < 0 <=> Stale(db'[0], k, now)
    <3>1. PICK e : e = db[0].expires[k]
      OBVIOUS
    <3>2. e \in Int \cup {None} /\ now \in Int
      BY <1>2, <1>3, <3>1 DEF Database, TypeOK
    <3>3. db'[0].expires[k] = e
      BY <1>3, <1>4, <2>3, <3>1 DEF TypeOK
    <3>4. answer'.ttl = IF e = None THEN None ELSE e - now
      BY <2>2, <2>3, <3>1 DEF dbGetTTL
    <3>5. CASE e = None
      BY <3>3, <3>4, <3>5 DEF Stale
    <3>6. CASE e # None
      <4>1. e - now \in Int /\ e - now # None
        BY <3>2, <3>6, NoneIsFresh
      <4>2. e - now < 0 <=> now > e
        BY <3>2, <3>6
      <4>3. QED
        BY <3>3, <3>4, <3>6, <4>1, <4>2 DEF Stale
    <3>7. QED
      BY <3>5, <3>6
  <2>4. QED
    BY <2>2, <2>3 DEF GetSeesLive
<1>7. QED
  BY <1>1, <1>5, <1>6

\* No other command answers like a GET or a TTL.
LEMMA CommandIsLive ==
  ASSUME TypeOK, NEW c \in Addrs, NEW req \in Requests,
         processClientQueryBuf(c, req), now' = now
  PROVE  GetSeesLive'
<1>1. CASE ReadCommand(c, req)
  BY <1>1, ReadIsLive
<1>2. CASE commandObjectProc(c, req)
  <2>1. answer'.op = "OBJECT"
    BY <1>2 DEF commandObjectProc
  <2>2. QED
    BY <2>1 DEF GetSeesLive
<1>3. CASE ~ReadCommand(c, req) /\ ~commandObjectProc(c, req)
  <2>1. answer' = None
    BY <1>3 DEF processClientQueryBuf, processCommand, clientMultiAdd, InvalidCommand, WriteCommand,
         commandSelectProc, commandMultiProc, commandWatchProc, commandByeProc, commandSlaveofProc
  <2>2. QED
    BY <2>1 DEF GetSeesLive
<1>4. QED
  BY <1>1, <1>2, <1>3

\* Nor does anything that is not a command.
LEMMA NextIsLive ==
  ASSUME TypeOK, GetSeesLive, [Next]_vars
  PROVE  GetSeesLive'
<1>1. ASSUME NEW c \in Addrs, NEW req \in Requests, readFromClient(c, req)
      PROVE  GetSeesLive'
  BY <1>1, CommandIsLive DEF readFromClient
<1>2. CASE ExecNext
  <2>1. PICK c : c = exec.client
    OBVIOUS
  <2>2. c \in Addrs /\ exec.i \in 1 .. Len(queue[c]) /\ now' = now
    BY <1>2, <2>1 DEF ExecNext, TypeOK
  <2>3. CASE queue[c][exec.i] # None /\ processClientQueryBuf(c, queue[c][exec.i])
    <3>1. queue[c][exec.i] \in Requests
      BY <2>2, <2>3 DEF TypeOK
    <3>2. QED
      BY <2>2, <2>3, <3>1, CommandIsLive
  <2>4. CASE answer' = None
    BY <2>4 DEF GetSeesLive
  <2>5. QED
    BY <1>2, <2>1, <2>3, <2>4 DEF ExecNext
<1>3. CASE answer' = None
  BY <1>3 DEF GetSeesLive
<1>4. CASE UNCHANGED vars
  BY <1>4 DEF vars, data, GetSeesLive
<1>5. QED
  BY <1>1, <1>2, <1>3, <1>4
  DEF Next, ExecRejected, ExecAccepted, acceptTcpHandler, PeerGone, sendToClient, clientToclose,
      ExecDone, closeClients, ReplicaRead, Tick

\* What GET answers is the live value, in whatever database, however much of
\* what is stale is still in memory; and TTL in database 0 answers with less
\* than nothing exactly for the keys that are stale.
THEOREM AnswersAreLive == Spec => []GetSeesLive
<1>1. Init => GetSeesLive
  BY DEF Init, GetSeesLive
<1>2. TypeOK /\ GetSeesLive /\ [Next]_vars => GetSeesLive'
  BY NextIsLive
<1>3. QED
  BY <1>1, <1>2, TypeCorrect, PTL DEF Spec
=============================================================================
