------------------------------ MODULE Commands ------------------------------
(***************************************************************************)
(* One fedis server executing the commands of its clients (redis.c,        *)
(* client.c, db.c): the databases with lazy expiry, transactions with      *)
(* MULTI, EXEC and WATCH, the life of a connection, and what the server    *)
(* propagates to its replicas.                                             *)
(*                                                                         *)
(* The server is one thread around an event loop: a handler runs to its    *)
(* end before the next.  EXEC is the one handler that is split here, into  *)
(* one step per queued command, because its loop reads a queue that the    *)
(* commands it runs may extend; while it runs only the clock moves.        *)
(*                                                                         *)
(* A client is identified by the address of its redisClient.  Watch lists  *)
(* hold addresses, and an address is reused after the client is freed.     *)
(***************************************************************************)
EXTENDS Keyspace, Sequences

CONSTANTS
  Dbs,        \* numbers of the databases in use, 0 among them
  Addrs,      \* addresses malloc may return for a redisClient
  Requests,   \* the requests that clients send
  Role,       \* "MASTER" or "SLAVE": the role in the configuration file
  AofOn,      \* server->aofOn
  QueueCap,   \* slots of multcmds (10 in client.c)
  MaxTime     \* the clock stops here: bound of a run

Request ==
       WriteRequest
  \cup [op : {"GET", "TTL", "OBJECT", "WATCH"}, key : Keys]
  \cup [op : {"SELECT"}, db : Dbs \cup {None}]
  \cup [op : {"MULTI", "EXEC", "BYE", "SLAVEOF"}]

ASSUME DbsAssumption == Dbs \subseteq Nat /\ 0 \in Dbs
ASSUME RequestsAssumption == Requests \subseteq Request
ASSUME ParametersAssumption ==
  /\ Role \in {"MASTER", "SLAVE"}
  /\ AofOn \in BOOLEAN
  /\ QueueCap \in Nat
  /\ MaxTime \in Nat
ASSUME NoneIsNoAddress == None \notin Addrs /\ None \notin Request

VARIABLES
  role,       \* server->flags
  db,         \* server->db: a Database per number
  watched,    \* redisDb.watched_keys: the addresses in each key's list
  clients,    \* server->clients
  flags,      \* redisClient.flags, as the set of its bits
  toclose,    \* redisClient.toclose: close once the reply is flushed
  dbid,       \* redisClient.dbid (and .db)
  queue,      \* multcmds[0 .. multiCmdCount-1]; None is a slot past the array
  exec,       \* None, or who is inside commandExecProc and the loop's index
  now,        \* time(NULL)
  answer,     \* the reply of GET, TTL or OBJECT in the last step, or None
  crashed,    \* the process has died
  watching,   \* history: keys a connection has named in WATCH since its EXEC
  touched,    \* history: connections of which such a key was written since
  replica,    \* history: database 0 of a replica attached from the start
  foreign     \* history: keys written in a database other than 0

data    == <<role, db, replica, foreign>>
watches == <<watched, watching, touched>>
session == <<clients, flags, toclose, dbid, queue>>
vars    == <<data, watches, session, exec, now, answer, crashed>>

Flag == {"NORMAL", "MULTI", "EXEC", "DIRTY_CAS", "TO_CLOSE"}

Answer ==
       [op : {"GET", "OBJECT"}, db : Dbs, key : Keys, val : Vals \cup {None}]
  \cup [op : {"TTL"}, db : Dbs, key : Keys, ttl : Int \cup {None}]

TypeOK ==
  /\ role \in {"MASTER", "SLAVE"}
  /\ db \in [Dbs -> Database]
  /\ watched \in [Dbs -> [Keys -> SUBSET Addrs]]
  /\ clients \in SUBSET Addrs
  /\ flags \in [Addrs -> SUBSET Flag]
  /\ toclose \in [Addrs -> BOOLEAN]
  /\ dbid \in [Addrs -> Dbs]
  /\ queue \in [Addrs -> Seq(Requests \cup {None})]
  /\ exec \in {None} \cup [client : Addrs, i : Nat \ {0}]
  /\ now \in Nat
  /\ answer \in {None} \cup Answer
  /\ crashed \in BOOLEAN
  /\ watching \in [Addrs -> SUBSET (Dbs \X Keys)]
  /\ touched \in [Addrs -> BOOLEAN]
  /\ replica \in Database
  /\ foreign \in SUBSET Keys

\* initServer: empty databases, no connection.
Init ==
  /\ role = Role
  /\ db = [d \in Dbs |-> EmptyDatabase]
  /\ watched = [d \in Dbs |-> [k \in Keys |-> {}]]
  /\ clients = {}
  /\ flags = [a \in Addrs |-> {}]
  /\ toclose = [a \in Addrs |-> FALSE]
  /\ dbid = [a \in Addrs |-> 0]
  /\ queue = [a \in Addrs |-> <<>>]
  /\ exec = None
  /\ now = 0
  /\ answer = None
  /\ crashed = FALSE
  /\ watching = [a \in Addrs |-> {}]
  /\ touched = [a \in Addrs |-> FALSE]
  /\ replica = EmptyDatabase
  /\ foreign = {}

(***************************************************************************)
(* The procedures of the command table, for client c.  Each says nothing   *)
(* of exec, now, clients, which its callers set.                           *)
(***************************************************************************)

\* isSupportedCmd: a replica refuses the writes of normal clients.
isSupportedCmd(c, req) ==
  ~(role = "SLAVE" /\ "NORMAL" \in flags[c] /\ req.op \in WriteOps)

InvalidCommand(c, req) ==
  /\ ~isSupportedCmd(c, req)
  /\ answer' = None
  /\ UNCHANGED <<data, watches, flags, toclose, dbid, queue, crashed>>

\* Mutant: the writer itself is skipped when a key is touched.
TouchOthers(c, d, k) ==
  /\ flags' = [a \in Addrs |-> IF a \in (watched[d][k] \cap clients) \ {c}
                                 THEN flags[a] \cup {"DIRTY_CAS"} ELSE flags[a]]
  /\ watched' = [watched EXCEPT ![d][k] = {}]
  /\ crashed' \in IF watched[d][k] \subseteq clients THEN {FALSE} ELSE BOOLEAN

\* Every client in the key's list gets DIRTY_CAS and the list is emptied.
\* freeClient leaves its client in the lists, so an address may be that of
\* freed memory: the write is lost there, or corrupts the heap.
touchWatchKey(c, d, k) ==
  /\ flags' = [a \in Addrs |-> IF a \in watched[d][k] \cap clients
                                 THEN flags[a] \cup {"DIRTY_CAS"} ELSE flags[a]]
  /\ watched' = [watched EXCEPT ![d][k] = {}]
  /\ crashed' \in IF watched[d][k] \subseteq clients THEN {FALSE} ELSE BOOLEAN

\* Mutant: EXPIRE is not a CMD_WRITE command of the table.
PropagateAllButExpire(req) ==
  replica' = IF role = "MASTER" /\ ~AofOn /\ req.op # "EXPIRE"
               THEN Execute(replica, req, now) ELSE replica

\* A master sends readBuf to its replicas, which execute it in database 0.
\* With the AOF on readBuf is empty by then: sdscatsds moved it to active_buf.
commandPropagate(req) ==
  replica' = IF role = "MASTER" /\ ~AofOn THEN Execute(replica, req, now) ELSE replica

\* CMD_WRITE: expiry, the command, the watchers, the replicas, in this order,
\* whether or not the command succeeded.
WriteCommand(c, req) ==
  LET d == dbid[c] IN
  /\ isSupportedCmd(c, req)
  /\ req.op \in WriteOps
  /\ db' = [db EXCEPT ![d] = Execute(@, req, now)]
  /\ touchWatchKey(c, d, req.key)
  /\ commandPropagate(req)
  /\ foreign' = IF d = 0 THEN foreign ELSE foreign \cup {req.key}
  /\ touched' = [a \in Addrs |-> touched[a] \/ <<d, req.key>> \in watching[a]]
  /\ answer' = None
  /\ UNCHANGED <<role, watching, toclose, dbid, queue>>

\* Mutant: no lazy expiry before a read.
ReadWithoutExpiry(c, req) ==
  /\ req.op \in {"GET", "TTL"}
  /\ answer' = IF req.op = "GET"
                 THEN [op |-> "GET", db |-> dbid[c], key |-> req.key,
                       val |-> db[dbid[c]].kv[req.key]]
                 ELSE None
  /\ UNCHANGED <<data, watches, flags, toclose, dbid, queue, crashed>>

\* The seconds that are left, of a deadline that nothing is left of when the
\* key has none.
dbGetTTL(d, k) == (IF db[d].expires[k] = None THEN 0 ELSE db[d].expires[k]) - now

\* Whether there is a deadline is looked up in database 0.
commandTtlProc(d, k) ==
  [op |-> "TTL", db |-> d, key |-> k,
   ttl |-> IF db[0].expires[k] = None THEN None ELSE dbGetTTL(d, k)]

\* CMD_READ: expiry of argv[1], then the reply.  A read is never propagated.
ReadCommand(c, req) ==
  LET d == dbid[c]
      s == expireIfNeed(db[d], req.key, now)
  IN
  /\ req.op \in {"GET", "TTL"}
  /\ db' = [db EXCEPT ![d] = s]
  /\ answer' = IF req.op = "GET"
                 THEN [op |-> "GET", db |-> d, key |-> req.key, val |-> s.kv[req.key]]
                 ELSE commandTtlProc(d, req.key)
  /\ UNCHANGED <<role, replica, foreign, watches, flags, toclose, dbid, queue, crashed>>

\* OBJECT ENCODING key: argv[1] is "ENCODING", so that is the key whose expiry
\* processCommand looks at; the value read is that of argv[2].
commandObjectProc(c, req) ==
  /\ req.op = "OBJECT"
  /\ answer' = [op |-> "OBJECT", db |-> dbid[c], key |-> req.key,
                val |-> db[dbid[c]].kv[req.key]]
  /\ UNCHANGED <<data, watches, flags, toclose, dbid, queue, crashed>>

\* Mutant: the result of string2long is not looked at.
SelectUnchecked(c, req) ==
  /\ req.op = "SELECT"
  /\ dbid' = [dbid EXCEPT ![c] = req.db]
  /\ answer' = None
  /\ UNCHANGED <<data, watches, flags, toclose, queue, crashed>>

\* None is an argument that is no number.  A number that is not one of the
\* server's databases indexes past server->db; no client of the model sends one.
commandSelectProc(c, req) ==
  /\ req.op = "SELECT"
  /\ dbid' = [dbid EXCEPT ![c] = IF req.db = None THEN @ ELSE req.db]
  /\ answer' = None
  /\ UNCHANGED <<data, watches, flags, toclose, queue, crashed>>

commandMultiProc(c, req) ==
  /\ req.op = "MULTI"
  /\ flags' = [flags EXCEPT ![c] = @ \cup {"MULTI"}]
  /\ answer' = None
  /\ UNCHANGED <<data, watches, toclose, dbid, queue, crashed>>

dbAddWatch(d, k, c) == watched' = [watched EXCEPT ![d][k] = @ \cup {c}]

commandWatchProc(c, req) ==
  LET d == dbid[c] IN
  /\ req.op = "WATCH"
  /\ dbAddWatch(d, req.key, c)
  /\ watching' = [watching EXCEPT ![c] = @ \cup {<<d, req.key>>}]
  /\ answer' = None
  /\ UNCHANGED <<data, touched, flags, toclose, dbid, queue, crashed>>

commandByeProc(c, req) ==
  /\ req.op = "BYE"
  /\ toclose' = [toclose EXCEPT ![c] = TRUE]
  /\ answer' = None
  /\ UNCHANGED <<data, watches, flags, dbid, queue, crashed>>

\* masterToSlave asserts that there is no master connection yet; there is none
\* on a replica either while connectMaster has failed.  What then arrives over
\* that connection is not modelled here.
commandSlaveofProc(c, req) ==
  /\ req.op = "SLAVEOF"
  /\ \/ /\ role' = "SLAVE"
        /\ UNCHANGED crashed
     \/ /\ role = "SLAVE"
        /\ crashed' = TRUE
        /\ UNCHANGED role
  /\ answer' = None
  /\ UNCHANGED <<db, replica, foreign, watches, flags, toclose, dbid, queue>>

processCommand(c, req) ==
  \/ InvalidCommand(c, req)
  \/ WriteCommand(c, req)
  \/ ReadCommand(c, req)
  \/ commandObjectProc(c, req)
  \/ commandSelectProc(c, req)
  \/ commandMultiProc(c, req)
  \/ commandWatchProc(c, req)
  \/ commandByeProc(c, req)
  \/ commandSlaveofProc(c, req)

(***************************************************************************)
(* Transactions.                                                           *)
(***************************************************************************)

\* clientMultiAdd checks no bound.  The word after the last slot reads as NULL
\* (the command is dropped, the count grows) or as a wild pointer.
clientMultiAdd(c, req) ==
  /\ \/ /\ Len(queue[c]) < QueueCap
        /\ queue' = [queue EXCEPT ![c] = Append(@, req)]
        /\ UNCHANGED crashed
     \/ /\ Len(queue[c]) = QueueCap
        /\ queue' = [queue EXCEPT ![c] = Append(@, None)]
        /\ UNCHANGED crashed
     \/ /\ Len(queue[c]) >= QueueCap
        /\ crashed' = TRUE
        /\ UNCHANGED queue
  /\ answer' = None
  /\ UNCHANGED <<data, watches, flags, toclose, dbid>>

\* In MULTI state everything but EXEC is queued.
processClientQueryBuf(c, req) ==
  IF "MULTI" \in flags[c] THEN clientMultiAdd(c, req) ELSE processCommand(c, req)

\* c is registered with the event loop, and no handler is running.
Registered(c) ==
  ~crashed /\ exec = None /\ c \in clients /\ "TO_CLOSE" \notin flags[c]

\* Its read handler may run.  Registering the reply's write event takes the
\* read event of the descriptor away (EPOLL_CTL_MOD) until sendToClient ran:
\* requests and replies alternate.  Sending a reply is therefore left out,
\* but for the one after which the connection is closed.
Readable(c) == Registered(c) /\ ~toclose[c]

readFromClient(c, req) ==
  /\ Readable(c)
  /\ req.op # "EXEC"
  /\ processClientQueryBuf(c, req)
  /\ UNCHANGED <<clients, exec, now>>

ForgetWatch(c) ==
  /\ watching' = [watching EXCEPT ![c] = {}]
  /\ touched' = [touched EXCEPT ![c] = FALSE]
  /\ UNCHANGED watched

\* commandExecProc leaves MULTI, enters EXEC, and then tests for DIRTY_CAS with
\* "client->flags &= REDIS_DIRTY_CAS": an assignment, which drops every other
\* bit.  DIRTY_CAS itself is never dropped.
ExecFlags(f) == ((f \ {"MULTI"}) \cup {"EXEC"}) \cap {"DIRTY_CAS"}

ExecRejected(c) ==
  /\ Readable(c)
  /\ "DIRTY_CAS" \in ExecFlags(flags[c])
  /\ flags' = [flags EXCEPT ![c] = ExecFlags(@) \ {"EXEC"}]
  /\ queue' = [queue EXCEPT ![c] = <<>>]
  /\ ForgetWatch(c)
  /\ answer' = None
  /\ UNCHANGED <<data, clients, toclose, dbid, exec, now, crashed>>

\* Mutant: the check for DIRTY_CAS is dropped.
ExecUnchecked(c) ==
  /\ Readable(c)
  /\ flags' = [flags EXCEPT ![c] = ExecFlags(@)]
  /\ exec' = [client |-> c, i |-> 1]
  /\ ForgetWatch(c)
  /\ answer' = None
  /\ UNCHANGED <<data, clients, toclose, dbid, queue, now, crashed>>

ExecAccepted(c) ==
  /\ Readable(c)
  /\ "DIRTY_CAS" \notin ExecFlags(flags[c])
  /\ flags' = [flags EXCEPT ![c] = ExecFlags(@)]
  /\ exec' = [client |-> c, i |-> 1]
  /\ ForgetWatch(c)
  /\ answer' = None
  /\ UNCHANGED <<data, clients, toclose, dbid, queue, now, crashed>>

\* Mutant: a turn that finds no command leaves the index where it is.
ExecNextStuck ==
  /\ ~crashed
  /\ exec # None
  /\ LET c == exec.client IN
     /\ exec.i <= Len(queue[c])
     /\ queue[c][exec.i] # None
     /\ processClientQueryBuf(c, queue[c][exec.i])
  /\ exec' = [exec EXCEPT !.i = @ + 1]
  /\ UNCHANGED <<clients, now>>

\* One turn of the loop: the queued command goes through the read path again,
\* so one queued MULTI makes the rest of the queue queue up again.
ExecNext ==
  /\ ~crashed
  /\ exec # None
  /\ LET c == exec.client IN
     /\ exec.i <= Len(queue[c])
     /\ \/ /\ queue[c][exec.i] # None
           /\ processClientQueryBuf(c, queue[c][exec.i])
        \/ /\ queue[c][exec.i] = None
           /\ answer' = None
           /\ UNCHANGED <<data, watches, flags, toclose, dbid, queue, crashed>>
  /\ exec' = [exec EXCEPT !.i = @ + 1]
  /\ UNCHANGED <<clients, now>>

ExecDone ==
  /\ ~crashed
  /\ exec # None
  /\ LET c == exec.client IN
     /\ exec.i > Len(queue[c])
     /\ queue' = [queue EXCEPT ![c] = <<>>]
     /\ flags' = [flags EXCEPT ![c] = @ \ {"EXEC"}]
  /\ exec' = None
  /\ answer' = None
  /\ UNCHANGED <<data, watches, clients, toclose, dbid, now, crashed>>

(***************************************************************************)
(* Connections, and the clock.                                             *)
(***************************************************************************)

acceptTcpHandler(c) ==
  /\ ~crashed /\ exec = None
  /\ c \notin clients
  /\ clients' = clients \cup {c}
  /\ flags' = [flags EXCEPT ![c] = {"NORMAL"}]
  /\ toclose' = [toclose EXCEPT ![c] = FALSE]
  /\ dbid' = [dbid EXCEPT ![c] = 0]
  /\ queue' = [queue EXCEPT ![c] = <<>>]
  /\ ForgetWatch(c)
  /\ answer' = None
  /\ UNCHANGED <<data, exec, now, crashed>>

\* The connection is marked; its events are deleted, closeClients does the rest.
clientToclose(c) ==
  /\ Registered(c)
  /\ flags' = [flags EXCEPT ![c] = @ \cup {"TO_CLOSE"}]
  /\ answer' = None
  /\ UNCHANGED <<data, watches, clients, toclose, dbid, queue, exec, now, crashed>>

\* readFromClient reads nothing, or an error.
PeerGone(c) == ~toclose[c] /\ clientToclose(c)

\* The reply after BYE is flushed, or the write fails.
sendToClient(c) == toclose[c] /\ clientToclose(c)

\* serverCron frees every client marked TO_CLOSE; the watch lists keep them.
closeClients ==
  LET gone == {a \in clients : "TO_CLOSE" \in flags[a]} IN
  /\ ~crashed /\ exec = None
  /\ gone # {}
  /\ clients' = clients \ gone
  /\ flags' = [a \in Addrs |-> IF a \in gone THEN {} ELSE flags[a]]
  /\ toclose' = [a \in Addrs |-> toclose[a] /\ a \notin gone]
  /\ dbid' = [a \in Addrs |-> IF a \in gone THEN 0 ELSE dbid[a]]
  /\ queue' = [a \in Addrs |-> IF a \in gone THEN <<>> ELSE queue[a]]
  /\ watching' = [a \in Addrs |-> IF a \in gone THEN {} ELSE watching[a]]
  /\ touched' = [a \in Addrs |-> touched[a] /\ a \notin gone]
  /\ answer' = None
  /\ UNCHANGED <<data, watched, exec, now, crashed>>

\* A client of the replica reads key k there: the same lazy expiry, on its own
\* copy.
ReplicaRead(k) ==
  /\ role = "MASTER"
  /\ ~crashed
  /\ replica' = expireIfNeed(replica, k, now)
  /\ answer' = None
  /\ UNCHANGED <<role, db, foreign, watches, session, exec, now, crashed>>

Tick ==
  /\ ~crashed
  /\ now < MaxTime
  /\ now' = now + 1
  /\ answer' = None
  /\ UNCHANGED <<data, watches, session, exec, crashed>>

Next ==
  \/ \E c \in Addrs, req \in Requests : readFromClient(c, req)
  \/ \E c \in Addrs :
       \/ ExecRejected(c)
       \/ ExecAccepted(c)
       \/ acceptTcpHandler(c)
       \/ PeerGone(c)
       \/ sendToClient(c)
  \/ ExecNext
  \/ ExecDone
  \/ closeClients
  \/ \E k \in Keys : ReplicaRead(k)
  \/ Tick

Spec == Init /\ [][Next]_vars

\* The thread that runs EXEC is never preempted by another handler, so its
\* loop goes on.
FairSpec ==
  /\ Spec
  /\ WF_vars(ExecNext) /\ WF_vars(ExecDone)

(***************************************************************************)
(* Properties.                                                             *)
(***************************************************************************)

\* The databases of commandSetProc, expireIfNeed and the rest implement maps
\* whose keys vanish at their deadline: deleting stale values only when a
\* command names their key is invisible to the readers.
Store == INSTANCE KVStore WITH
  store <- [d \in Dbs |-> [k \in Keys |-> Visible(db[d], k, now)]],
  deadline <- [d \in Dbs |-> db[d].expires],
  clock <- now

StoreSpec == Store!Spec

\* GET never answers with a value whose deadline has passed (processCommand
\* runs expireIfNeed before the procedure), nor misses one that is live; and
\* TTL in database 0 says that less than nothing is left of exactly those keys
\* whose value GET withholds for their deadline.
GetSeesLive ==
  answer # None =>
    /\ answer.op = "GET" =>
         answer.val = Visible(db[answer.db], answer.key, now)
    /\ answer.op = "TTL" /\ answer.db = 0 =>
         (answer.ttl # None /\ answer.ttl < 0 <=> Stale(db[0], answer.key, now))

\* commandWatchProc's promise, which touchWatchKey and commandExecProc keep
\* between them: EXEC is not accepted from a client one of whose watched keys
\* has had a write command since the WATCH.
WatchSafety == [][\A c \in Addrs : ExecAccepted(c) => ~touched[c]]_vars

\* Why: between WATCH and EXEC a client is in the list of each key it watches
\* unless it is dirty already, and it is dirty once such a key was written.
WatchInv ==
  \A c \in clients :
    "DIRTY_CAS" \notin flags[c] =>
       /\ ~touched[c]
       /\ \A w \in watching[c] : c \in watched[w[1]][w[2]]

\* The other half of the promise: EXEC is rejected only if a watched key was
\* written since the WATCH.
RejectOnlyIfTouched == [][\A c \in Addrs : ExecRejected(c) => touched[c]]_vars

\* What commandPropagate sends is enough: executed by a replica in database 0,
\* it keeps every key written only in database 0 looking the same on both
\* sides, though each side drops stale values on its own.
ReplicaAgrees ==
  \A k \in Keys \ foreign :
    role = "MASTER" =>
      /\ replica.expires[k] = db[0].expires[k]
      /\ Visible(replica, k, now) = Visible(db[0], k, now)

\* isSupportedCmd's comment: a slave does not support the write commands of
\* normal clients.  Every connection here is one accepted by acceptTcpHandler.
SlaveReadOnly == Role = "SLAVE" => \A d \in Dbs : db[d] = EmptyDatabase

\* expireIfNeed's comment and log line say that the expired key is deleted,
\* from kv and from expires: a stale value and its deadline go together.
ExpireRemovesBoth ==
  [][\A d \in Dbs, k \in Keys :
       (Stale(db[d], k, now) /\ db[d].kv[k] # None /\ db'[d].kv[k] = None)
          => db'[d].expires[k] = None]_vars

\* An accepted EXEC ends: queued MULTI commands lengthen the queue that the
\* loop walks, but never for ever.
ExecTerminates == (exec # None) ~> (exec = None \/ crashed)
=============================================================================
