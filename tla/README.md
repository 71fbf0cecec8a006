# A TLA+ model of fedis

fedis is a small Redis: one process, an epoll event loop, a keyspace in memory,
transactions, replication, snapshots and an append-only file. This directory
models its source (`src/src/*.c`, `src/include/*.h`) in TLA+, checks the models
with TLC on small instances and proves with TLAPS, for every instance, their
safety properties: of the command core, the hash table, the log, the
snapshot and its encoding, the event loop, the strings, the linked lists, and of
replication.

## 1. Inventory

### How the parts interact

`main` runs one thread around `aeProcessEvents` (ae.c). A round serves every
ready descriptor and then every due timer; a handler runs to its end before the
next one starts. All state below is owned by that thread, with three exceptions:
the AOF writer thread (aof.c), the child that BGSAVE forks (rdb.c), and the
SIGCHLD handler of the parent.

    client socket -> readFromClient -> processClientQueryBuf
        MULTI on and not EXEC -> clientMultiAdd (queue)
        otherwise             -> processCommand
            lookupCommand / isSupportedCmd
            AOF buffer          (sdscatsds: the writer thread flushes it)
            expireIfNeed        (db.c over dict.c)
            cmd->proc
            touchWatchKey       (marks other clients)
            addRepliBuf, commandPropagate  (replicas, their backlog)
    serverCron -> closeClients, BGSAVE, heartbeats, reconnection

### Components

| Component | Source | State | Operations | What makes it correct |
|---|---|---|---|---|
| Keyspace, lazy expiry | db.c, `processCommand` | `kv`, `expires` per database | SET, DEL, EXPIRE, GET, TTL, OBJECT, `expireIfNeed` | readers see a map whose keys vanish at their deadline, although stale data stays in memory until named |
| Transactions | `command{Multi,Exec,Watch}Proc`, `touchWatchKey`, `clientMultiAdd` | client flags, `multcmds[10]`, `watched_keys` | MULTI, queueing, EXEC, WATCH, touch | no EXEC after a write to a watched key, and only then is one refused; EXEC ends |
| Client connections | client.c, net.c, `readFromClient`, `sendToClient`, `closeClients` | `clients`, `clientsToClose`, `toclose`, reply buffer | accept, read, write, mark, free | a client that leaves is freed; a freed address is not used through old lists |
| Dispatch and roles | `lookupCommand`, `isSupportedCmd`, SLAVEOF | role bits, command table | every command | a slave takes no writes from normal clients |
| dict | dict.c | two tables, `rehashidx`, `used` | find, add, replace, fetch, contains, delete, iterate | a map, also in the middle of a rehash; the counts and chains agree |
| Propagation | `commandPropagate` | replica buffers | after each write | a replica agrees with the master |
| Replication | repli.c, SYNC, REPLCONF, REPLACK, `addRepliBuf` | `replState`, offsets, the backlog ring, master connection | handshake, full and partial sync, heartbeat, reconnect | the backlog holds what its offsets say; a slave executes in the master's order, without gaps; a handshake ends |
| RDB | rdb.c, `serverCron`, `sigChildHandler`, `sigIntHandler` | the file, `dirty`, `lastSave`, `isBgSaving`, child pid | BGSAVE, load, the encoding of values and lengths | one process writes the file; what is not counted as a change is in it; a counted change gets into it; a value comes back as it was |
| AOF | aof.c, `processCommand` | two buffers, mutex, condition, file | append, swap, write, load | each write is in the file once, in order, and in the end; a reload rebuilds the memory |
| Event loop | ae.c, client.c | file events, epoll's interest, timers | create, delete, process | the tables agree; a ready connection is served; no handler runs for a freed client |
| Strings | sds.c | bytes, `len`, `free` | append, clear, move | what was put in comes out, nothing is written past the allocation |
| Ring buffer | ringbuffer.c | ring | none is called | (unused) |
| Lists and objects | list.c, robj.c, `closeClients` | `head`, `tail`, `len`; `prev`, `next`, `value` of each node | add, insert, delete, rotate, release, duplicate; the walk of `closeClients` | a list is one chain from both ends; what is called is what happens to the sequence; a loop that removes nodes meets them all |
| RESP and I/O | resp.c, rio.c, net.c | | parse, encode | one request in is one request out |
| Config, log, utilities | conf.c, log.c, util.c, crypto.c, main.c | | | |
| Sentinel | redis.c | one connection | INFO every so often | (the answer is dropped) |
| Command line client | client/client.c | | | |

### What is hard here

* Interleavings of clients: WATCH, a write by somebody else (perhaps inside an
  EXEC), EXEC; watch lists that keep the address of a freed client, and an
  address that malloc gives to the next client.
* State that outlives its cause: the flag bits after EXEC, deadlines after their
  key, stale values until named, the watch lists.
* A loop over a queue that the commands it runs extend, a fixed array without a
  bound check.
* Two copies (master and replica) that drop expired values on their own.
* A hash table used while it is being moved, emptied or shrunk in the middle.
* A handshake that advances by registering and deleting write events, with
  propagated commands between its answers; a read that carries several messages;
  a ring addressed by growing offsets; a persisted offset without its data; a
  connection that ends at any point.
* A counter of changes that the main program and a signal handler both write, a
  child known by a pid that is stored after the child may have ended, a snapshot
  written over its predecessor.
* Two buffers swapped by one thread while another appends, a signal without its
  mutex, a write that comes short.
* Descriptors and client addresses that are given out again while old events of
  them wait in the same round, an epoll mask that is set to the last event
  registered, errors of a socket that can be read once.
* A string whose count of free bytes is believed at the next append.
* A loop that takes nodes out of the list it walks and puts their values into
  another; four links and two ends to be set in each call on a list.

`PROJECT.json` lists each hazard at its line with the property that covers it.

## 2. Plan

Done, in this order:

1. `Keyspace`: one database and the write commands, as functions, shared by all
   modules that execute commands.
2. `Commands`: the server executing its clients' commands (composes `Keyspace`,
   transactions, connections, propagation), and its abstract store `KVStore`.
3. `CommandsProofs`: theorems about `Commands`.
4. `Dict` and its abstract specification `Map`.

5. `Backlog` (the ring alone) and `Replication` (master, slave and the
   connection between them), `ReplicationProofs`.
6. Persistence: `RdbFormat` (the encoding), `Rdb` (BGSAVE in a child, signals,
   crash and restart), `RdbProofs`; `Aof` (event loop, writer thread, crash and
   reload). The iterator that the child walks is in `Dict`.
7. `EventLoop`: registration, epoll and rounds of ae.c with the life of a
   connection, which `Commands` and `Replication` assume (the write event takes
   the read event away, every ready descriptor is served).
8. `Sds`: the strings of a connection and of a replica.

9. Proofs about the components: `RdbProofs`, `AofProofs`, `EventLoopProofs`,
   `SdsProofs`, `DictProofs` (with the refinement of `Map`), and the invariant of a
   connection in `ReplicationProofs`.
10. `List`, its abstract specification `Sequence` and `ListProofs`: the pointers
   under the client and watch lists, which the other modules have as sets.

## 3. Modules and how they correspond to the code

### Keyspace

`Database` is `redisDb` without its watch lists: two total functions, `None` for
"no entry". `commandSetProc`, `commandDelProc`, `commandExpireProc`,
`expireIfNeed`, `dbAdd`, `dbDelete`, `dbSetExpire` are the functions of those
names. `Execute` is what `processCommand` does to the database for a write
command: expiry of `argv[1]`, then the procedure. Two facts of the code shape
everything: `dictAdd` refuses a key that is there, so a deadline is set once;
and `dictDelete` returns `DICT_OK = 0`, so `expireIfNeed` never gets to delete
from `expires`. `Visible` is what a reader may see.

### Commands

An action is a handler. `readFromClient(c, req)` reads one request and queues or
executes it; `processCommand` is the disjunction of the command procedures, each
with the flags, watch lists and propagation that `processCommand` adds. The one
handler that is split is EXEC: `ExecAccepted` or `ExecRejected`, then an
`ExecNext` per queued command and `ExecDone`; no other handler is enabled while
`exec # None`, only the clock and a replica move. The other actions are
`acceptTcpHandler`, `PeerGone` (read fails or returns nothing), `sendToClient`
(the reply after BYE goes out, or cannot), `closeClients` and `Tick`.

Clients are the addresses of their `redisClient`: watch lists hold addresses,
`closeClients` frees an address and `acceptTcpHandler` may return it again.
Undefined behaviour is a choice: marking a freed client may or may not kill the
process; `multcmds[QueueCap]` is the word after the array, which is read as NULL
(the command is lost, the count grows) or as a wild pointer.

Abstracted or left out:

* Replies, except the answer of GET, TTL and OBJECT (`answer`) and the close after
  BYE (`toclose`). TTL finds out in database 0 whether the key has a deadline and
  takes it from the client's database, as the code does. Registering the write event replaces the read event
  (`aeCreateFileEvent` modifies the descriptor's mask, see `EventLoop`), so
  requests and replies of one client alternate and nothing else depends on a reply.
* Connections of replicas and of the master, PING, REPLCONF, SYNC, REPLACK, the
  backlog and the offsets are in `Replication`; `server->dirty` is in `Rdb`; INFO
  and HEARTBEAT only reply.
* SELECT of a number that is not a database: `server->db` is indexed unchecked,
  and no client of the model sends one.
* SLAVEOF changes the role (or runs into the assertion of a second master
  connection) and the command table; what then comes over the new connection is
  left to `Replication`.

History variables, read by properties only: `watching` and `touched` (the keys
named in WATCH since the last EXEC of this connection, and whether one of them
was written since), `replica` (database 0 of a replica attached from the start,
executing what is propagated, at the same second), `foreign` (keys written in
another database).

### KVStore

The promise of the keyspace to its readers: `store` loses a key at the second its
deadline passes, in one step with the clock. `Commands` implements it with
`store <- Visible(...)`, `deadline <- expires`, `clock <- now`. Deletions by
`expireIfNeed` and everything of transactions, clients and replicas are stutters.

### Dict and Map

A dictionary is a record of two tables; a chain is the sequence of its entries,
new ones in front. `dictRehashStep`, `dictExpandIfNeed`, `dictAddEntry`,
`dictFind` are functions from a dictionary to the next one, since one call makes
several of them in turn; an action per call composes them. `dead` says that the
step read past the first table. `Map` is a finite map with the answer of the last
call, and `Dict` implements it with `map <- dictFind`. Keys and values are atoms.
`dictIterNext` is the set of entries that a whole walk returns, since nothing else
touches the dictionary of a child or of a loop while it walks. `power`, of
`_nextpower`, is a recursive function (`2^n` is nothing the provers know). The type's copies and
destructors and `dictRelease`, which only frees, are left out.

### Backlog

The bytes a master propagates are numbered 1, 2, ... in the order it executed their
commands, and `last_offset` is the number of the last one. A slot of `ring` holds
the number of a byte, so that every question about the ring is one about numbers.
`addRepliBuf` is the function of that name with its two `memcpy` calls and its one
adjustment of `begin_offset`; `Covers` and `Missing` are the test and the copy of
`commandSyncProc`, reading past the array included. `HoldsTail` is the promise.

### Replication

One master and one slave with their connection. What a connection carries is a
sequence of messages: a request or a response of the protocol is one, a write
command is its `CmdLen` bytes, named by their numbers. Its two directions are
`toSlave` and `toMaster`; `link` is what the slave's kernel knows: `up`, `closed`
(the master's end is gone in order), `reset` (an error is pending), `broken` (the
error was taken by `aeApiPoll`), `none` (`server->master` is NULL).

| Code | Model |
|---|---|
| `processCommand` of a write on the master | `MasterWrite`: `addRepliBuf`, `commandPropagate` |
| `readFromClient` on the master | `MasterReads`: only with an empty reply buffer, since the read event is away until the reply is sent; the first message counts, the others of the read are cleared |
| `command{Ping,Replconf,Sync,ReplACK}Proc` | actions of those names |
| `sendToClient`, `saveRDBToSlave` | `MasterSends` |
| `masterCheckSlave` | of that name, at any time: `lastinteraction` is uninitialised before the first REPLACK |
| `connectMaster`, `reconnectMaster` | `Connected` or `ConnectFailed` |
| `repliWriteHandler` | `Greeting` of the state, after whatever `writeBuf` holds; deletes the write event |
| `repliReadHandler` | `RepliRead`, then one action per turn of its loop until the rest of the buffer is no complete response (`Turn`, `Parses`) |
| `doAppendSync` | in `ReceiveAppendsync` |
| `readFromClient` of the slave, once its first REPLACK is answered | `SlaveExecutes`, `SlaveIgnores`, `SlaveReadEnd` |
| `slaveCron` | `Heartbeat`, `HeartbeatReconnects`, `HeartbeatDies`, `MasterTimeout` |
| end of the slave's process, `initServer` | `Dies`, `Restart`: the offset is read from the configuration file, the data are gone |

While a turn of the read loop is due (`reading`) the slave runs nothing else; the
master goes on. `status` is `spins` once the loop looks at a complete response
that its state has no use for: nothing changes any more until somebody kills the
process. A command cut short by the code is `Byte(0)` followed by the rest of it;
what `respParse` makes of a head that starts no response is a choice, as its
function ends there without a `return`.

`Pipe` is what the slave has not looked at yet, in the order in which it will: its
`readBuf`, what is on the way, and the master's reply buffer.

Connection losses are cut anywhere the reads could be cut: a prefix of what was
sent arrives. Left out: the content of a snapshot, several slaves, a restart of
the master (its SIGPIPE included), SYNC without an RDB file, the AOF (with it on
nothing is propagated, see finding 4), reads that split a message or a command
(the bytes of a read are looked at as they are, so a command in two reads would be
lost; the server reads up to 1024 bytes), socket errors that arrive while a
handler runs, `events[-1]` in the event table, which `processClientQueryBuf`
touches for the fake client of `doAppendSync`.

History variables: `executed` and `earlier` (commands executed from this
connection, and from previous ones of this process), `merged` (a read of this
connection held several messages).

### RdbFormat

How a value is written and read: the mark, which is its first byte, and the number
behind it; of a string only the length is kept. `_rdbSaveLen`, `_rdbLoadLen`,
`_rdbSaveStringObject` and `_rdbLoadStringObject` are the functions of those names.
`Byte` stands for 256; casts and sign extensions are modulo its powers. `Survives`
names the values that come back as they were; `RereadExact` (in `Rdb`) asks it of what
is in the file and of the set `Tested`, in the runs all values next to a limit.

### Rdb

The server is one thread that signals interrupt between any two of its steps; `pc`
names the step that is next, and `tmp` what the step before left in a register
(`dirty++` is a load and a store, and so is `rdbChildPid = fork()` followed by
`isBgSaving = 1`). A child is the database it was forked with and the stage it got
to; the file outlives all of them.

| Code | Model |
|---|---|
| SET, DEL, EXPIRE with `dirty++` | `command{Set,Del,Expire}Proc`, `StoreDirty` |
| `expireIfNeed` | of that name; nobody counts it |
| `serverCron`, `databasesCron`, `bgsave` | `serverCron`, `Fork` or `ForkFails`, `StorePid`, `StoreSaving`, `EndOfCron` |
| `rdbSave` in the child | `Open`, `WritePart`, `WriteBody`, `WriteHash`, and each of them failing |
| `sigChildHandler` | of that name, between any two steps |
| `sigIntHandler`, `prepareShutdown` | of those names; the second SIGINT is `Crash` |
| `rdbLoad`, `initServer` | `Loadable`, `rdbLoad`, `initServer` |

`fopen("w+")` empties the file before anything is in it; the body arrives with
`fflush`, or earlier in pieces if it is larger than the stream's buffer; the
checksum comes last. `MaxSize` is the room in the 4096 bytes that the checksum is
taken of when it is written (when it is read, of all bytes). The image is the whole
database: which entries the iterator misses, and that a database that `dictIsEmpty`
takes for empty is skipped, is in `Dict`. A child of an earlier run of the server
ends before the next one forks, as saves are ten seconds apart. History variables:
`lost` (a fork failed, or a child was reaped before bgsave had stored both words)
and `excused` (the last save missed a change or did not write its file).

### Aof

Commands are numbered; a buffer and the file are sequences of commands and of
marks: `Hole` (zero bytes), `Torn` (the beginning of a command), `Lead` (one without
the end of its first line). The event loop appends in three steps, as it takes no
lock: `processCommand` fetches `active_buf`, `CatBegin` reads the length (and
stores the new one if the buffer grows), `CatEnd` copies, and stores the length if
it did not. The command runs after that. The thread is `erverySecAOF`, one action
per step: `Test`, `Wait`, `Swap`, `Write` or `WriteFails`, `fsync`, `Clear`,
`Finish`. `flushAppendOnlyFile` wakes it if it waits, and is lost if it does not.
The mutex is left out: only one side takes it where it matters. `Crash` keeps what
fsync has seen and any piece of the rest, `initServer` runs the commands that
`respParse` finds (`Loads`). Left out: what two threads in one buffer do to memory
outside of it, and the string's counters (`Sds`); databases and deadlines of the
reloaded commands. `Only`, a selection of items, is a recursive function, of which proofs can be written.
History variables: `logged`, `riders` (commands that shared a read
with the one that ran), `torn` (the two threads met in one buffer, or a write failed).

### EventLoop

The tables (`mask` and `data` of the loop, `interest` of epoll, sockets, clients)
are one record `net`, since a handler changes several of them in turn: each function
of the code is an operator from one record to the next, each handler one action.
`aeApiPoll` collects the events of a round in `fired`, the handlers take them in any
order and look at the mask again, `serverCron` or `NotDue` ends the round. Peers
send, close and reset whenever they like; an error of a socket is read once, by
`getsockopt`, `read`, `write` or the loop itself. A write to a peer after its reset
has been read is SIGPIPE, which nobody handles (`dead`). Requests are what they do
to the tables: answered, answered twice (EXEC of a queued command), BYE, REPLCONF
(a slave from then on), SYNC (a snapshot behind the answer), SET (propagated to the
slaves). Descriptors are given out lowest first, client addresses in any order. The
list of time events is the choice whether the timer is due in a round; the timeout
of `epoll_wait` is left out, as are connections the server opens itself. History
variable: `cut` (a snapshot could not be sent, which closes a descriptor and leaves
its client).

### Sds

A string has its allocated bytes `buf`, its two counters, and `over` (a byte past
the allocation was touched: the model stops there, as anything may follow). One
connection of a master with a replica: `readFromClient` collects a request in
`readBuf`, `clientMultiAdd` moves it to a slot, EXEC moves it back, and
`commandPropagate` copies `readBuf->buf` to the replica *as a C string*, so that the
model needs the bytes behind `len` as well. Byte n + 1 fills a command of length n,
so that commands can be told apart byte by byte. Left out: replies (the same appends
on another string), the AOF's buffer, `sdsrange` (see `ReceiveRdbPart`), strings that
are never appended to.

### List and Sequence

All lists live in one memory, `heap`: `head`, `tail` and `len` of each list, `prev`,
`next` and `value` of each node, and the nodes in use. A function of list.c is an
operator from a heap to the next one, with the assignments of the code. `listDelNode`
and `listRelease` free nodes, whose fields are then `NULL`, so that a walk that goes on
from a freed node goes wrong. `Others` are the lists that any function may be called
for, the watch lists among them: `AddNodeTail` is `dbAddWatch`, `DelNode` a turn of
`touchWatchKey`, `Release` the destructor of a watch list. `AddNodeHead`, `InsertNode`,
`Rotate` and `listDup` have no caller and are modelled as what list.h offers. A call
names an existing node by its place, since callers have nodes from a walk.

The list of clients changes as the server changes it: `acceptTcpHandler` adds one at the
end (as `initServer` of a sentinel does), `clientToclose` marks one, `DropFlags` is EXEC
and REPLCONF, which overwrite the mark, and `closeClients` frees the marked ones in two
loops. `loop` is the loop that walks a list, with its local variables; its place `at` is
a ghost. A turn of a loop is an action; nothing else runs in between, in the one
thread. `call` is a ghost: the last call.

`Sequence` is what a caller expects: a list is a sequence, and a call inserts, removes,
rotates, clears, copies or moves. `List` implements it with `seqs <- Contents(heap)`, the
values along `next`. A turn of `closeClients` is one `Move`, a turn of `listDup` one
`Copy`, of the element behind the one before it. Left out: `listIndex` and
`listSearchKey`, which only read and have no caller, the `dup`, `free` and `compare`
methods, which nobody sets, and `listClear`: it frees the nodes and leaves `head`, `tail`
and `len` as they were, so that the list may not be used again; nobody calls it. Of
`freeClient` only the end of the client is here; its events and descriptor are in
`EventLoop`.

## 4. Runs

| Run | Instance | Shows |
|---|---|---|
| `commands_data` | 2 clients, 2 databases, 1 key, 2 values, clock 0..2, every data command, SELECT, SLAVEOF | `TypeOK`; GET answers with exactly what is live and TTL, in database 0, says when it ceases to be (`GetSeesLive`); the replica agrees (`ReplicaAgrees`); the server implements `KVStore` (`StoreSpec`) |
| `commands_txn` | 2 addresses, SET, WATCH, MULTI, BYE, EXEC, breaks and reuse, queue of 2, fair | `WatchSafety` and the invariant behind it (`WatchInv`); an EXEC ends, with a queue that its own commands extend (`ExecTerminates`) |
| `dict_map` | 5 keys with colliding hashes, 2 values, initial size 1, load bound 1/3 | `TypeOK`, `WellFormed`, `MapSpec`; a walk misses at most one chain, and only during a rehash (`IterMissesOneChain`); rehashing dies only after a deletion emptied the first table (`DiesOnlyEmptied`) |
| `replication` | ring of 6 bytes, 4 writes of 2, 2 ends of a connection, 2 heartbeats, fair | `TypeOK`; the ring (`RingHoldsTail`); order (`InOrder`); nothing lost but in a read of several messages (`StreamIntact`); one thing pending in each step of the handshake (`HandshakeToken`); it ends (`HandshakeCompletes`) unless a write comes in between (`SpinsOnWriteOnly`) |
| `rdb` | 1 key, the number -1 and a string of 20, bytes of 16 values, 2 pids, 2 counted changes, fair | `TypeOK`; one process writes the file, and `isBgSaving` stands for it (`OneSave`); a database without counted changes is the one in the file (`CleanIsSaved`); which values come back (`RereadExact`); a counted change is saved (`ChangeGetsSaved`) |
| `aof` | 4 commands, 1 or 2 in a read, fair | `TypeOK`; file and buffers hold what was logged, in order, and the file no command twice (`NothingLost`); a reload rebuilds the memory (`ReloadAgrees`); what is logged is written although signals are lost (`LoggedGetsWritten`) |
| `event_loop` | 2 addresses, 2 descriptors, fair | `TypeOK`; loop, epoll and clients agree (`TablesAgree`); each connection is polled for what it waits for (`NobodyDeaf`); one that is marked or said BYE is freed (`LeaversGetFreed`); a request of a client is read (`RequestGetsRead`) |
| `sds` | commands of 2, 3 and 6 bytes, doubling below 5, 2 slots, 8 requests | `TypeOK`; the queue holds what was queued (`QueueHoldsRequests`); the replica gets each command whole (`ReplicaGetsCommand`); an overrun needs an overstated `free` (`OverrunsOverstated`) |
| `list` | 3 lists, 4 nodes and 1 more for `closeClients`, 3 values | the links are chains from both ends, and no node is lost or shared (`WellFormed`); `closeClients` meets all that were marked and frees no other (`MarkedAreCollected`); the lists implement `Sequence` (`SequenceSpec`) |
| `exec_stays_dirty` | as `commands_txn` | violation of `RejectOnlyIfTouched` |
| `write_hangs_handshake` | 1 write | violation of `NeverSpins` |
| `sds_free_overstated` | as `sds` | violation of `FreeIsLeft` |

`commands_txn`, `replication`, `rdb`, `aof` and `event_loop` state fairness, the
others do not. `CHECK_DEADLOCK FALSE` is stated everywhere but in `list`: a process may have died
(`crashed`, `dead`, an overrun), and then no step is left; the server never blocks
otherwise, an idle server accepts, ticks or polls. In `Replication`, `Aof` and `Sds`
the bounds end a behaviour too.

Ten more configurations lie beside these, each a statement of a comment or of plain
expectation that does not hold. `tlc -config X.cfg M` gives the counterexample:

| Configuration | Module | What does not hold |
|---|---|---|
| `slave_accepts_write` | `MCCommands` | `SlaveReadOnly` |
| `deadline_outlives_key` | `MCCommands` | `ExpireRemovesBoth` |
| `aof_stops_propagation` | `MCCommands` | `ReplicaAgrees`, with the AOF on |
| `dict_rehash_fails` | `MCDict` | `RehashFindsEntry` |
| `appendsync_resends` | `Replication` | `AppendSyncBringsMissing` |
| `sync_reorders` | `Replication` | `SyncKeepsOrder` |
| `dirty_forgets_writes` | `MCRdb` | `UnsavedIsDirty` |
| `aof_buffer_not_empty` | `Aof` | `IoBufEmpty` |
| `slave_not_read` | `EventLoop` | `SlaveGetsRead` |
| `marked_not_polled` | `EventLoop` | `MarkedNotPolled` |

### Bounds

* `MaxTime` 2: a key set with EXPIRE 1 is live in the second of its deadline and
  stale in the one after; EXPIRE -1 makes it stale at once. Both the deadline
  boundary (`>`) and what happens after it are reached.
* `QueueCap` 2 for 10: a transaction of three commands is past the array, a
  queued MULTI has something behind it to queue again.
* Two addresses: the writer and the watcher, or a watcher that leaves and the
  client that gets its address while another writes.
* Two databases, one key: the same key in another database must not be touched,
  and SELECT reaches the difference. Two values show a lost update.
* One key is enough in the transaction runs, because flags and lists are per key
  and the history variables forget which key was touched.
* `dict_map` shrinks the two constants of dict.h: tables then shrink at sizes
  that five keys can fill. Keys k1 and k5 collide in every table, k1 and k3 in
  the smaller ones. `dict_rehash_fails` keeps the numbers of dict.h.
* `replication`: four commands of two bytes are more than the ring of six, so that
  it goes round its end in the middle of a command and then overwrites one that
  `begin_offset` still promises. Two ends of a
  connection allow full sync, partial sync and another reconnection in one
  behaviour. `MaxBeats` bounds the heartbeats on their way, not their number: two
  let an answer meet the next heartbeat and propagated commands in one read. What
  `InOrder` leaves open needs a ring of eight and six writes: only then can what is sent
  from the ring begin with a command that overwrote an older one and end with a whole
  older one (in a smaller ring what is left of it is cut, and the slave stops before
  it). `replication_ring.cfg` checks `RingHoldsTail` and `InOrder` there (1 931 425
  states), `sync_reorders` shows what is left open.
* `rdb`: with bytes of 16 values every limit of the encoding has numbers on either
  side of it, and the theorems cover every size, 256 included. One key is enough, as keys do not interact
  in a snapshot; the value -1 comes back as another one, the string of 20 does not
  fit into `MaxSize` 10. Two pids let an orphan of an earlier run be there when the
  next child is forked; two counted changes, one lost in the other's `dirty++`.
* `aof`: four commands are one being appended, one in each buffer and one in the file.
  A read of two commands has one that is logged and does not run.
* `event_loop`: with two descriptors one is closed and given out again while the other
  has an event in the same round; `MaxSize` 3 accepts both. 162 995 states.
* `sds`: a command fits into the space of the one before it or does not, for strings
  that were doubled and for one that grew by the constant; eight requests fill the
  slots twice. 582 120 states.
* `list`: three lists are the clients, those to be closed and one for every call; up
  to four nodes are a list with an inner pair, of which either may be the walker's next
  one. `MaxNodes` bounds every caller but `closeClients`, which finds a fifth node when
  four are in use. 5 641 states.
* Symmetry of addresses, nodes and values in runs without liveness properties.

### Fairness

`FairSpec` of `Commands` assumes weak fairness of `ExecNext` and `ExecDone`: they
are turns of a loop in one handler, and the thread that runs it is not preempted by
another handler. Nothing is assumed of clients.

`FairSpec` of `Replication` assumes weak fairness of each side's handlers: of the
master's (`Master`), of the slave's read and write handlers, of the turns of its
read loop and of its heartbeat timer. Each loop serves what is ready before it
waits again, and what is ready here stays ready until it is served, except when the
connection or the process ends, which `HandshakeCompletes` allows for. Nothing is
assumed of writes, timeouts, breaks and restarts.

`FairSpec` of `Rdb` assumes weak fairness of what a handler still has to do
(`Continues`), of the child's steps (`rdbSave`), of SIGCHLD and of time; strong fairness of
`serverCron`, because commands come in between but the timer is served in the round
in which it is due. That of `Aof` assumes weak fairness of the append and of the
thread, and strong fairness of `flushAppendOnlyFile`: every round of the loop ends with
it, and the timer wakes the loop each second. That of `EventLoop` assumes weak fairness of
the handlers of a round, of `aeApiPoll` and of a round's end; strong fairness of
`serverCron` (the timer is due again and again) and, per descriptor, of a write that
sends all (a peer that stays reads in the end). Nothing is assumed of commands, peers,
failures, signals from outside and crashes.

## 5. Proofs

One module of proofs per component, for all sets of keys, values, databases, addresses
and requests, every hash function, any queue capacity and clock bound, any ring that a
command fits into, any number of commands, writes, descriptors and lost connections:

| Theorem | Statement | Argument |
|---|---|---|
| `TypeCorrect` | `Spec => []TypeOK` | inductive by itself, per action |
| `WatchInvariant` | `Spec => []WatchInv` | inductive with `TypeOK`. WatchSafety alone is not: a step may touch a client that is not marked, unless one knows that a client that is not dirty is still in the list of each key it watches. touchWatchKey empties the list and marks all of it in one step; reuse of an address starts a new history |
| `WatchIsSafe` | `Spec => WatchSafety` | `ExecAccepted` requires a client without DIRTY_CAS, of which `WatchInv` says that it is not touched |
| `ReplicaFollows` | `~AofOn => (Spec => []ReplicaAgrees)` | agreement means equal deadlines and equal visible values, not equal databases: each side may have dropped what the other still holds. Expiry on either side, the same command on both sides and the clock preserve it |
| `AnswersAreLive` | `Spec => []GetSeesLive` | an answer is given in one step and gone in the next; the expiry of the key in front of the procedure makes the value in memory the visible one |
| `ImplementsStore` | `Spec => StoreSpec` | each step maps to a step of `KVStore` or a stutter. A write on a stale key is a stutter or a Remove, since a stale key has a deadline for good |
| `RingKeepsTail` | `Spec => []RingHoldsTail` (`Replication`) | inductive with the backlog's type. A new byte lies `d` slots behind the last one, round the end if need be; an older one that still counts is at a distance that the call does not reach (`AddHoldsTail`). No other handler, on either side, touches the backlog (`OnlyWritesMoveBacklog`) |
| `MissingExact` | until the ring has gone round, the bytes SYNC sends behind an accepted offset are those that follow it | from `HoldsTail`: below `Size` an offset is its own slot. The bound is needed: after the first round the accepted offsets include overwritten ones (section 6) |
| `LengthsReread` | every length is read back as it was written | one case per form: the mark tells the form, and the marks of the forms do not meet |
| `ValuesReread` | `Reread(obj) = obj` if and only if `Survives(obj)`, for every value | a lemma for numbers (one case per range of `_rdbSaveStringObject`) and one for strings; that the cast of a long to an int is exact for what fits is a lemma of its own. `Byte` is any multiple of 4 from 16 on: the limits are ordered the same for all of them (`FormLimits`) |
| `ReplicationTypeCorrect` | `Spec => []TypeOK` (`Replication`) | inductive by itself, per action; what `SubSeq` and `\o` return are lemmas |
| `ReplicationInOrder`, `ReplicationHandshakeToken`, `ReplicationSpinsOnWriteOnly` | `Spec => []InOrder`, `[]HandshakeToken`, `[]SpinsOnWriteOnly` | from `ConnectionInvariant`, see below |
| `ReplicationStreamIntact` | `Spec => []StreamIntact` | from `Gapless`, on top of `ConnInv` and `RingHoldsTail`, see below |
| `RdbTypeCorrect`, `OneSaveAtATime`, `CleanServerIsSaved` | `Spec => []TypeOK`, `[]OneSave`, `[]CleanIsSaved` (`Rdb`) | from `RdbInv`, see below |
| `RereadIsExact` | `Spec => []RereadExact` (`Rdb`) | what is in the file is a value (`RdbInv`), hence `ValuesReread` and `LengthsReread` |
| `AofTypeCorrect`, `LogIsKept`, `ReloadRebuilds` | `Spec => []TypeOK`, `[]NothingLost`, `[]ReloadAgrees` (`Aof`) | from `AofInv` and `Memory`, see below |
| `EventLoopTypeCorrect`, `TablesStayInStep`, `NobodyIsDeaf` | `Spec => []TypeOK`, `[]TablesAgree`, `[]NobodyDeaf` (`EventLoop`) | from `EventLoopInv`, see below |
| `SdsTypeCorrect`, `QueueIsKept`, `ReplicaIsServed`, `OverrunsNeedOverstated` | `Spec => []TypeOK`, `[]QueueHoldsRequests`, `[]ReplicaGetsCommand`, `OverrunsOverstated` (`Sds`) | from `SdsInv`, see below |
| `DictTypeCorrect`, `TablesWellFormed`, `IterationMisses`, `DiesOnlyWhenEmptied` | `Spec => []TypeOK`, `[]WellFormed`, `[]IterMissesOneChain`, `DiesOnlyEmptied` (`Dict`) | from `DictInv`, see below |
| `ListsAreWellFormed`, `MarkedAreCollectedAlways` | `Spec => []WellFormed`, `[]MarkedAreCollected` (`List`) | from `IInv` of `ListProofs`, see below |
| `ListsAreSequences` | `Spec => SequenceSpec` | from the same invariant: what each function of list.c does to the chains is a lemma (`Inserted`, `Removed`), from which follows what it does to the sequences |
| `DictIsAMap` | `Spec => MapSpec` | from `DictInv`, of which follows what `dictFind` returns: the value of the one entry of the key, in whichever table. Moving a chain keeps the set of entries, so a rehash is a stutter of `Map`, and each call one step of it |

### The inductive invariants

* `ConnInv` (`Replication`) says, for each state of the handshake, what may be in the
  slave's buffer, on the way and in the master's buffer (`Pipe`), and what is on the way
  to the master. Up to SYNC one thing is pending (`Awaits`), or the state could be
  answered twice or never. A snapshot has its length in front, once (`Framed`). What
  the master sent behind its answer to SYNC is in order (`Rising`), unless the bytes
  came from a ring that has gone round; then there is a byte in it that belongs to no
  whole command (`Blocked`), in front of everything that is not one: the read loop does not get
  past it, never sees the +OK that would make it a client's connection, and so never
  gets to the steady state. This is why `InOrder` holds there. In the steady state
  (`Clean`) what was executed and what is to come are one rising sequence. That the
  bytes of the ring are such is `MissingBytes`, which needs `RingKeepsTail`, and that
  whole commands go into it (`backlog.last = 2 * q`). A connection that has ended has
  nothing for the master (`Ended`), since its message would be answered on the next one.
  Appending, cutting off the end and taking from the front are lemmas per predicate,
  and each step of a process is one of them.
* `Gapless` (`Replication`) is `ConnInv` with "without a gap" for "in order". As long
  as no read held several messages, the bytes of the history that are in `Pipe` or in an
  executed command are all from some byte on (`Closed`), the second byte of a command
  follows its first (`Paired`), and no command begins on one side of a buffer's end and
  goes on on the other (`Unsplit`, `StartsWhole`), or a read would lose half of one
  (`Whole`). The answer to a SYNC whose offset lies in an overwritten part
  of the ring is not such; but then the read loop has a byte in front of it that it does
  not get past (`Stuck`), and the slave does not reach the steady state. A full sync
  starts with nothing, a partial one with the end of the history, the latter by
  `MissingBytes`. That nothing is propagated to a connection before REPLCONF is why
  both start in front of what follows, hence what `Gapless` says of `peer.slave`.
* `RdbInv`: with a pid stored after the fork and `isBgSaving` after the pid, "one child"
  is only inductive with where the child's pid is at each step of bgsave
  (`ChildIsKnown`) and that the step is not taken while one is known
  (`NoSaveWhileStoring`). `CleanIsSaved` needs what the file is at each stage of its
  writer (`FileFollows`) and that the child's image differs from the database only by
  what deadlines took away, as long as nothing is counted as excused
  (`ImageIsCurrent`).
* `AofInv`: file, the rest of `io_buf` and the active buffer, in this order, are the log
  (`Exact`); an append under way may concern either buffer, so that `Settled` cuts the
  buffer where the append began. A command is in one place, but while the thread has
  written a buffer and not cleared it (`OnePlace`). `Memory` adds that the first command
  of a read is the one that ran.
* `EventLoopInv`: `TablesAgree` and `NobodyDeaf` are lost by a handler that closes a
  descriptor which another client has too, so a descriptor in use belongs to one client
  (`Apart`), is open, and has it as its `privData` (`FdFits`), until a transfer is cut.
  A call changes one client and its descriptor, hence one lemma (`LocalChange`) carries
  the invariant over all of them, and over the folds of `commandPropagate`,
  `masterCheckSlave` and `closeClients`.
* `SdsInv`: a string is overstated or its last byte is NUL, from which an overrun is
  traced back; the bytes behind the longest queued request are blank (`Blank`), which
  bounds the tail that a replica is sent.
* `DictInv`: each table counts its entries and has them in their chains (`Sound`), the
  two have no key in common, and there are two exactly during a rehash, with empty
  chains in front of `rehashidx`. Without the last the first table would be freed with
  entries in it.
* `IInv` (`ListProofs`): there is a function from lists to chains that fits the heap
  (`Chained`), and only one (`ChainIs`), so that what `next` leads to is known as soon as
  the chains after a call can be named: with the new node put in (`SplicedChained`), with
  one taken out (`UnlinkedChained`), turned or cleared. The head, the tail and the middle
  of a list are cases of these. `Loops` says that the node a loop is at is the one at its
  place `at`, which appending to the other list does not change, nor moving the node away
  whose successor the loop has read. `Kept` says that no client is in the lists twice,
  those that wait to be freed are marked, and behind the walker none is. Without the
  first, a client could be freed, and its mark with it, while it is still in a list.

Where a proof needs induction (over the length of a chain, the places of a command, a
fold), it takes the least counterexample: the set of numbers for which the claim fails
is a set, whose minimum `WFMin` gives.

Assumptions are those of the modules: requests have a form the parser delivers,
database 0 exists, `None` is none of the other values, role, AOF switch and
bounds have their type; addresses of clients are finitely many, as memory is.
`ReplicaFollows` needs the AOF off because with it on the
code sends nothing (`aof_stops_propagation`). `RingKeepsTail` needs a command to be
no longer than the ring: `readFromClient` reads at most 1024 bytes and the ring
has as many. `ReplicaFollows` covers writes inside EXEC too, which the instance of
`commands_data` leaves out. `Byte`, 256 in the program, is a multiple of 4 that is at least
16, which is what keeps the marks of `RdbFormat` apart. A command
of `Replication` is two bytes, in the theorems as in the runs: a first and a last one.

Only model-checked: liveness (`ExecTerminates`, `HandshakeCompletes`,
`ChangeGetsSaved`, `LoggedGetsWritten`, `LeaversGetFreed`, `RequestGetsRead`;
fairness and ENABLED are out of the prover's reach). The violations are counterexamples on the instance named.

## 6. Findings

1, 6 and 8 have runs of their own; the others are shown by the configuration named.

1. `redis.c:509` writes `client->flags &= REDIS_DIRTY_CAS` where a test is meant.
   DIRTY_CAS is the one bit it keeps and nothing clears it: after one rejected
   EXEC every later one of the connection is rejected (`exec_stays_dirty`).
2. The same line drops `REDIS_CLIENT_NORMAL`, by which `isSupportedCmd` knows
   whose writes a slave refuses (`slave_accepts_write`).
3. `expireIfNeed` deletes the value and never the deadline
   (`deadline_outlives_key`). A key can get no second deadline, and once past it
   loses every later value at the next access. `KVStore` says so: a lapsed key is
   gone for good.
4. With the AOF on, `sdscatsds` has emptied the request before it is propagated
   (`aof_stops_propagation`).
5. `dictDelete` can take the last entry of the first table during a rehash
   (`dict_rehash_fails`).
6. A write that the master propagates during a slave's handshake stays at the head
   of the slave's buffer, and the loop of `repliReadHandler` never ends
   (`write_hangs_handshake`).
7. A full sync sets the slave's offset to 0 whatever the master's is, and
   `doAppendSync` counts each byte twice: a partial sync then starts at the wrong
   command (`appendsync_resends`).
8. `sdscatlen` leaves `free` as it was when an append fits, `sdsclear` adds the length
   to it, `sdscatsds` one more: the count grows with each use of a string until an
   append runs past the allocation (`sds_free_overstated`; sds.h:8 says what `free`
   is). The AOF's `active_buf` is used in the same way.
9. `sigChildHandler` sets `dirty` to 0 however the child ended and whatever was
   written since the fork (`dirty_forgets_writes`; redis.h calls it the number of
   changes since the last save).
10. The buffer that the AOF thread is about to write into is not always empty
    (`aof_buffer_not_empty`; aof.c:99 says it is): an append that had fetched it
    before the swap lands in it, and the next `Clear` takes it or the next write
    writes it out of order.
11. A slave that is sent writes all the time is not read: every propagated write
    leaves epoll with its write event alone (`slave_not_read`).
12. A client is marked with its events still polled when `aeCreateFileEvent` fails
    over an error: reading the error takes it away, and the registration that
    follows in the same handler succeeds (`marked_not_polled`; client.c:78 says the
    mark cancels epoll). Until the timer frees it,
    its handlers may still be called.

Two more disagreements show in the models without a run of their own: OBJECT
ENCODING has the expiry of the key "ENCODING" checked (`processCommand` looks at
`argv[1]`) and so answers for a stale key; and SELECT is not propagated, so that
`ReplicaAgrees` can only speak of keys written in database 0.

More of replication, visible in `Replication` and `Backlog`:

* `begin_offset` only moves in the call that goes round the end (redis.c:1073). The
  calls after it overwrite bytes that `Covers` still accepts, and SYNC reads them
  in one piece from the slot after the offset, past the end of the array
  (`Missing`). A slave that asks for them executes commands that overwrote older ones
  before the older ones that are left (`sync_reorders`). What `InOrder` says is that it
  gets no further: it finds no whole command behind them and is stuck.
* A slave in the steady state executes the first command of a read and drops the
  rest, counting all of it in its offset (`SlaveExecutes`); one that reads `+OK`
  first drops everything (`SlaveIgnores`). `StreamIntact` says that this is the only
  way to lose one.
* After `reconnectMaster` has failed to connect, `slaveCron` follows the NULL
  `server->master` (`HeartbeatDies`, repli.c:325); a first connect that fails is
  never tried again.
* The end of the connection fails an assertion of `repliReadHandler`, and a snapshot
  whose length arrives without its data one of `sdsrange` (`RepliReadEnd`,
  `ReceiveRdbPart`).
* The file of a received snapshot is loaded before it is closed, so nothing is
  loaded, and the databases are not emptied (`ReceiveRdb`).

More of persistence, in `RdbFormat`, `Rdb`, `Aof` and `Dict`:

* Negative numbers, 2^15, numbers from 2^31 on and strings of 2^14 bytes or more do
  not come back from a snapshot as they were (`Survives`, a theorem).
* After a failed fork `isBgSaving` stays set and nothing is saved any more; the same
  after a child that ends between the stores of bgsave (`lost`).
* The snapshot is written over its predecessor: a crash of the child, or a restart
  while it writes, leaves neither; a torn one ends the server at its start. One of
  more than 4096 bytes is never loaded, as its checksum is not that of its content.
* A walk during a rehash misses the first chain of the second table, and a database
  that `dictIsEmpty` takes for empty is not saved.
* A failed or short write of the log loses the whole buffer, and the torn command
  stays in the file: every later load stops there, and the commands appended behind
  it are never run again. The second command of a read is logged, does not run, and
  runs at a reload.

More of connections, in `EventLoop`, `Sds` and `Commands`:

* SIGPIPE is not ignored: a write to a connection that was reset ends the server
  (`WriteKills`). A write that sends a part sends all of it again (`SendPart`).
* `lastinteraction` of a new client is never set: `masterCheckSlave` may give up a
  slave that has just connected.
* `saveRDBToSlave` tests an `sio.error` that nobody has set and closes the
  descriptor without its client: the next connection gets the number, and the old
  client's end closes it (`RdbCut`).
* The fake client of the loaders has descriptor -1, and its events are read from
  `events[-1]` (client.c:88, ae.c:426); the models do not follow it there.
* `sdscatsds` clears one byte of its source, so that a short command is propagated
  with the tail of a longer one that was queued before (`ReplicaGetsCommand`).
* TTL looks for the deadline in database 0, whatever the client selected.

## 7. Not modelled

The ring buffer (ringbuffer.c) has no caller. Objects (robj.c) are values in the
models, and lists are sets or sequences outside `List`, which is what `ListsAreSequences`
allows. The RESP parser and the
formatters work byte by byte on strings; what of it decides about states, which
messages of a read count, is in `Replication`, and what a torn log gives in `Aof`.
Configuration, logging, utilities and the checksum are I/O and formatting; the one
field of the configuration that outlives the process, the slave's offset, is in
`Replication`. Sentinel asks for INFO and drops the answer. The command line client is
a blocking loop around a vendored line editor.
