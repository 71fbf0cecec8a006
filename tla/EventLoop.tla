----------------------------- MODULE EventLoop -----------------------------
(***************************************************************************)
(* The connections of a master: which events of a file descriptor the      *)
(* event loop and epoll know, who is called for them, and how a connection *)
(* ends (ae.c, acceptTcpHandler, readFromClient, sendToClient,             *)
(* commandPropagate, clientToclose, freeClient, closeClients).             *)
(*                                                                         *)
(* A handler is one step.  It makes several calls that each change the     *)
(* tables of the loop and of the kernel, so these are one record, and a    *)
(* function of the code an operator from one such record to the next.      *)
(* Peers send, close and reset their connections at any time.              *)
(***************************************************************************)
EXTENDS Integers, FiniteSets, FiniteSetsExt

CONSTANTS
  Addrs, None,  \* addresses malloc may return for a redisClient
  MaxFd,        \* descriptors are 1 to MaxFd, 0 is the one that listens
  MaxSize       \* loop->maxsize: descriptors from here on are refused

ASSUME AddrsAssumption == IsFiniteSet(Addrs) /\ None \notin Addrs
ASSUME FdsAssumption == MaxFd \in Nat /\ MaxSize \in 1 .. MaxFd + 1

Listen == 0
Fds == 1 .. MaxFd
Bits == {"r", "w"}      \* AE_READABLE and AE_WRITABLE

VARIABLES
  net,      \* [mask, data: loop->events; interest: epoll's; sock; client]
  fired,    \* the events of fireEvents that are still to be handled
  phase,    \* "poll", or "files": the handlers of one round
  cut,      \* ghost: saveRDBToSlave has closed a descriptor
  dead      \* SIGPIPE has ended the process

vars == <<net, fired, phase, cut, dead>>

NoSock == [open |-> FALSE, peer |-> "up", input |-> FALSE, err |-> FALSE]
NoClient == [state |-> "free", fd |-> Listen, out |-> FALSE, toclose |-> FALSE,
             slave |-> FALSE, sync |-> FALSE]

In(n, state) == {c \in Addrs : n.client[c].state = state}

(***************************************************************************)
(* ae.c.                                                                   *)
(***************************************************************************)
\* The error of a socket is read once: the next call finds none.
checkSockErr(n, fd) == n.sock[fd].open /\ ~n.sock[fd].err
ErrRead(n, fd) == [n EXCEPT !.sock[fd].err = FALSE]

\* epoll_ctl adds what it does not have and modifies what it has: the code
\* goes by the mask of the loop, which aeDeleteFileEvent keeps in step.
CtlFails(n, fd) == (n.mask[fd] = {}) # (n.interest[fd] = {})

CreateFails(n, fd) == ~checkSockErr(n, fd) \/ fd >= MaxSize \/ CtlFails(n, fd)

\* The mask of the loop gains the event; epoll is left with that one alone.
aeCreateFileEvent(n, fd, bit, c) ==
  IF CreateFails(n, fd) THEN ErrRead(n, fd)
  ELSE [n EXCEPT !.mask[fd] = @ \cup {bit}, !.data[fd] = c, !.interest[fd] = {bit}]

\* Mutant: epoll is told to forget the descriptor whatever is left.
DeleteAll(n, fd, bit) ==
  IF fd >= MaxSize \/ n.mask[fd] = {} THEN n
  ELSE [n EXCEPT !.mask[fd] = @ \ {bit}, !.interest[fd] = {}]

\* Mutant: the mask of the loop is reset, epoll is not.
DeleteMaskOnly(n, fd, bit) ==
  IF fd >= MaxSize \/ n.mask[fd] = {} THEN n
  ELSE [n EXCEPT !.mask[fd] = @ \ {bit}]

\* epoll gets the rest of the mask, if it has the descriptor at all.
aeDeleteFileEvent(n, fd, bit) ==
  IF fd >= MaxSize \/ n.mask[fd] = {} THEN n
  ELSE [n EXCEPT !.mask[fd] = @ \ {bit},
                 !.interest[fd] = IF @ = {} THEN {} ELSE n.mask[fd] \ {bit}]

(***************************************************************************)
(* client.c.                                                               *)
(***************************************************************************)
\* A client that is marked already is left as it is.
clientToclose(n, c) ==
  LET fd == n.client[c].fd IN
  IF n.client[c].state = "marked" THEN n
  ELSE [aeDeleteFileEvent(aeDeleteFileEvent(n, fd, "w"), fd, "r")
          EXCEPT !.client[c].state = "marked"]

\* aeCreateFileEvent, and the client marked if it fails.
Register(n, c, bit) ==
  LET fd == n.client[c].fd
      m  == aeCreateFileEvent(n, fd, bit, c)
  IN
  IF CreateFails(n, fd) THEN clientToclose(m, c) ELSE m

\* The kernel forgets a closed descriptor, and hands it out again.
CloseFd(n, fd) == [n EXCEPT !.sock[fd] = NoSock, !.interest[fd] = {}]

freeClient(n, c) ==
  LET fd == n.client[c].fd IN
  [CloseFd(aeDeleteFileEvent(aeDeleteFileEvent(n, fd, "r"), fd, "w"), fd)
     EXCEPT !.client[c] = NoClient]

(***************************************************************************)
(* The handlers.                                                           *)
(***************************************************************************)
Handles(fd, bit) ==
  /\ ~dead /\ phase = "files"
  /\ <<fd, bit>> \in fired
  /\ fired' = fired \ {<<fd, bit>>}
  /\ UNCHANGED phase

\* The mask is looked at again before the call.
Calls(fd, bit) == Handles(fd, bit) /\ bit \in net.mask[fd]

\* The lowest descriptor that is free.
Lowest(fd) == ~net.sock[fd].open /\ \A f \in 1 .. fd - 1 : net.sock[f].open

acceptTcpHandler(c, fd) ==
  /\ Handles(Listen, "r")
  /\ c \in In(net, "free") /\ Lowest(fd)
  /\ net' = Register([net EXCEPT !.sock[fd] = [NoSock EXCEPT !.open = TRUE],
                                 !.client[c] = [NoClient EXCEPT !.state = "live", !.fd = fd]],
                     c, "r")
  /\ UNCHANGED <<cut, dead>>

\* No descriptor is left; or no address, which is a bound of the model.
acceptFails ==
  /\ Handles(Listen, "r")
  /\ (\A fd \in Fds : net.sock[fd].open) \/ In(net, "free") = {}
  /\ UNCHANGED <<net, cut, dead>>

\* An event of a descriptor that the round has deleted.
Skip(fd, bit) ==
  /\ Handles(fd, bit) /\ fd # Listen
  /\ bit \notin net.mask[fd]
  /\ UNCHANGED <<net, cut, dead>>

Request == {"PING", "BYE", "EXEC", "REPLCONF", "SYNC", "SET"}

Answered(n, c) == Register([n EXCEPT !.client[c].out = TRUE], c, "w")

\* The write event of a client whose read event could not be set is tried all
\* the same, and the error has been read by then.
PropagateTo(c, n) ==
  Register(Register([n EXCEPT !.client[c].out = TRUE], c, "r"), c, "w")

\* Only clients whose flags are REDIS_CLIENT_SLAVE and nothing else.
commandPropagate(n) ==
  FoldSet(PropagateTo, n, {c \in In(n, "live") : n.client[c].slave})

\* processClientQueryBuf.  EXEC calls it for a queued command as well, so that
\* the write event is set twice.
processClientQueryBuf(n, c, req) ==
  LET asked == CASE req = "BYE"      -> [n EXCEPT !.client[c].toclose = TRUE]
                 [] req = "REPLCONF" -> [n EXCEPT !.client[c].slave = TRUE]
                 [] req = "SYNC"     -> [n EXCEPT !.client[c].sync = TRUE]
                 [] req = "EXEC"     -> Answered(n, c)
                 [] req = "SET"      -> commandPropagate(n)
                 [] OTHER            -> n
  IN Answered(asked, c)

\* read gives what has arrived, or 0 from a peer that has gone, or an error.
checkSockReadWrite(n, fd) == n.sock[fd].input /\ ~n.sock[fd].err

readFromClient(fd, req) ==
  LET c == net.data[fd] IN
  /\ Calls(fd, "r")
  /\ net' = IF checkSockReadWrite(net, fd)
              THEN processClientQueryBuf([net EXCEPT !.sock[fd].input = FALSE], c, req)
              ELSE clientToclose(ErrRead(net, fd), c)
  /\ UNCHANGED <<cut, dead>>

\* The reset of a peer is an error of the next call on the socket, of write
\* and getsockopt alike.  A write after that raises SIGPIPE.
Reset(fd) == net.sock[fd].peer = "reset"

WriteFails(fd) ==
  /\ Calls(fd, "w") /\ net.sock[fd].err
  /\ net' = clientToclose(ErrRead(net, fd), net.data[fd])
  /\ UNCHANGED <<cut, dead>>

WriteKills(fd) ==
  /\ Calls(fd, "w") /\ Reset(fd)
  /\ dead' = TRUE
  /\ UNCHANGED <<net, cut>>

\* Mutant: the write event is left on when everything has been written.
SentKeepingEvent(n, fd, c) ==
  LET m == [n EXCEPT !.client[c].out = FALSE, !.client[c].sync = FALSE]
  IN IF m.client[c].toclose THEN clientToclose(m, c) ELSE m

Sent(n, fd, c) ==
  LET m == aeDeleteFileEvent([n EXCEPT !.client[c].out = FALSE, !.client[c].sync = FALSE], fd, "w")
  IN IF m.client[c].toclose THEN clientToclose(m, c) ELSE m

\* sendToClient, with saveRDBToSlave after the answer to SYNC.
SendAll(fd) ==
  /\ Calls(fd, "w") /\ ~Reset(fd)
  /\ net' = Sent(net, fd, net.data[fd])
  /\ UNCHANGED <<cut, dead>>

\* The event stays set, and so does the whole of writeBuf.
SendPart(fd) ==
  /\ Calls(fd, "w") /\ ~Reset(fd)
  /\ UNCHANGED <<net, cut, dead>>

\* saveRDBToSlave cannot send the length, and sio.error, which nobody has set,
\* says so: it closes the descriptor, which stays that of the client.
RdbCut(fd) ==
  LET c == net.data[fd] IN
  /\ Calls(fd, "w") /\ ~Reset(fd) /\ net.client[c].sync
  /\ net' = Sent(CloseFd(net, fd), fd, c)
  /\ cut' = TRUE
  /\ UNCHANGED dead

sendToClient(fd) == WriteFails(fd) \/ WriteKills(fd) \/ SendAll(fd) \/ SendPart(fd) \/ RdbCut(fd)

(***************************************************************************)
(* The rounds of aeMain.                                                   *)
(***************************************************************************)
\* Of the registered descriptors, those where the peer has done something, and
\* all for writing.
Ready(fd) ==
  net.interest[fd] \cap
    ({"w"} \cup IF net.sock[fd].input \/ net.sock[fd].peer # "up" THEN {"r"} ELSE {})

\* A connection may wait to be accepted.  EPOLLERR comes unasked for, and
\* reading the error is all that is done.
aeApiPoll ==
  /\ ~dead /\ phase = "poll"
  /\ \E connects \in SUBSET {<<Listen, "r">>} :
       fired' = connects \cup UNION {{<<fd, bit>> : bit \in Ready(fd)} : fd \in Fds}
  /\ net' = [net EXCEPT !.sock = [fd \in Fds |-> IF net.interest[fd] # {}
                                                  THEN [@[fd] EXCEPT !.err = FALSE] ELSE @[fd]]]
  /\ phase' = "files"
  /\ UNCHANGED <<cut, dead>>

\* Mutant: marked clients are only collected.
CloseNone(n) == n

closeClients(n) == FoldSet(LAMBDA c, m : freeClient(m, c), n, In(n, "marked"))

\* masterCheckSlave gives up a slave that has been silent for a minute, or has
\* not sent its first REPLACK: lastinteraction holds anything until then.
masterCheckSlave(n, silent) == FoldSet(LAMBDA c, m : clientToclose(m, c), n, silent)

\* The timer is due in the rounds that end with serverCron, and in no other.
\* Mutant: the timers do not wait for the last of the events.
RoundEndsEarly == ~dead /\ phase = "files" /\ phase' = "poll"

RoundEnds == ~dead /\ phase = "files" /\ fired = {} /\ phase' = "poll"

serverCron ==
  /\ RoundEnds
  /\ \E silent \in SUBSET {c \in In(net, "live") : net.client[c].slave} :
       net' = closeClients(masterCheckSlave(net, silent))
  /\ UNCHANGED <<fired, cut, dead>>

NotDue == RoundEnds /\ UNCHANGED <<net, fired, cut, dead>>

(***************************************************************************)
(* The peers.                                                              *)
(***************************************************************************)
PeerDoes(fd, sock) ==
  /\ net.sock[fd].open
  /\ net' = [net EXCEPT !.sock[fd] = sock]
  /\ UNCHANGED <<fired, phase, cut, dead>>

PeerSends(fd) ==
  net.sock[fd].peer = "up" /\ ~net.sock[fd].input /\ PeerDoes(fd, [net.sock[fd] EXCEPT !.input = TRUE])
PeerCloses(fd) ==
  net.sock[fd].peer = "up" /\ PeerDoes(fd, [net.sock[fd] EXCEPT !.peer = "closed"])
PeerResets(fd) ==
  net.sock[fd].peer # "reset"
  /\ PeerDoes(fd, [open |-> TRUE, peer |-> "reset", input |-> FALSE, err |-> TRUE])

(***************************************************************************)
(* The specification.                                                      *)
(***************************************************************************)
Init ==
  /\ net = [mask     |-> [fd \in Fds |-> {}],
            data     |-> [fd \in Fds |-> None],
            interest |-> [fd \in Fds |-> {}],
            sock     |-> [fd \in Fds |-> NoSock],
            client   |-> [c \in Addrs |-> NoClient]]
  /\ fired = {} /\ phase = "poll"
  /\ cut = FALSE /\ dead = FALSE

Handler ==
  \/ \E c \in Addrs, fd \in Fds : acceptTcpHandler(c, fd)
  \/ acceptFails
  \/ \E fd \in Fds :
       \/ \E bit \in Bits : Skip(fd, bit)
       \/ \E req \in Request : readFromClient(fd, req)
       \/ sendToClient(fd)

Peer == \E fd \in Fds : PeerSends(fd) \/ PeerCloses(fd) \/ PeerResets(fd)

Next == Handler \/ aeApiPoll \/ serverCron \/ NotDue \/ Peer

Spec == Init /\ [][Next]_vars

(***************************************************************************)
(* aeMain goes round; a peer that stays reads what it is sent.             *)
(***************************************************************************)
Fairness ==
  /\ WF_vars(Handler) /\ WF_vars(aeApiPoll) /\ WF_vars(serverCron \/ NotDue)
  /\ SF_vars(serverCron)
  /\ \A fd \in Fds : SF_vars(SendAll(fd))

FairSpec == Spec /\ Fairness

(***************************************************************************)
(* Properties.                                                             *)
(***************************************************************************)
TypeOK ==
  /\ net.mask \in [Fds -> SUBSET Bits] /\ net.interest \in [Fds -> SUBSET Bits]
  /\ net.data \in [Fds -> Addrs \cup {None}]
  /\ net.sock \in [Fds -> [open : BOOLEAN, peer : {"up", "closed", "reset"},
                           input : BOOLEAN, err : BOOLEAN]]
  /\ net.client \in [Addrs -> [state : {"free", "live", "marked"}, fd : Fds \cup {Listen},
                               out : BOOLEAN, toclose : BOOLEAN, slave : BOOLEAN, sync : BOOLEAN]]
  /\ fired \subseteq ((Fds \cup {Listen}) \X Bits)
  /\ phase \in {"poll", "files"} /\ (phase = "poll" => fired = {})
  /\ cut \in BOOLEAN /\ dead \in BOOLEAN

\* The tables of the loop, of epoll and of the clients fit together.  epoll is
\* asked for one event of a descriptor at a time, and one that the loop has a
\* handler for; the two agree on which descriptors they know, or the next
\* epoll_ctl would fail; and no handler is called with a client that has been
\* freed, or that has another descriptor.
TablesAgree ==
  \A fd \in Fds :
    /\ net.interest[fd] \subseteq net.mask[fd] /\ Cardinality(net.interest[fd]) <= 1
    /\ ~cut => ~CtlFails(net, fd)
    /\ net.mask[fd] # {} =>
         net.data[fd] \in Addrs \ In(net, "free") /\ net.client[net.data[fd]].fd = fd

\* A connection in use is heard: it waits for a request, or to be written the
\* reply that it has; unless a transfer of the snapshot was cut.
NobodyDeaf ==
  ~cut => \A c \in In(net, "live") :
    /\ net.sock[net.client[c].fd].open
    /\ net.interest[net.client[c].fd] = IF net.client[c].out THEN {"w"} ELSE {"r"}

\* A client that is marked is freed by the timer, whatever the files do; and
\* so is one that said BYE, after its reply.
Leaving(c) == net.client[c].state = "marked"

LeaversGetFreed ==
  \A c \in Addrs :
    (Leaving(c) \/ (net.client[c].toclose /\ ~cut))
      ~> (net.client[c].state = "free" \/ dead \/ (cut /\ ~Leaving(c)))

\* A request that has arrived is read, or its connection given up: writing
\* replies, accepting and the timer never crowd it out.  Slaves are excepted,
\* see SlaveGetsRead.
Reading(fd) ==
  net.sock[fd].input /\ \E c \in In(net, "live") : net.client[c].fd = fd

BySlave(fd) == \E c \in In(net, "live") : net.client[c].fd = fd /\ net.client[c].slave

RequestGetsRead ==
  \A fd \in Fds : Reading(fd) ~> (~Reading(fd) \/ BySlave(fd) \/ cut \/ dead)

\* The same of a slave.  ae.c says that reading is for the peer to trigger, by
\* sending something; but every write that is propagated leaves epoll with the
\* write event of the slave alone.
SlaveGetsRead == \A fd \in Fds : Reading(fd) ~> (~Reading(fd) \/ cut \/ dead)

\* clientToclose says of itself that it "sets the mark and cancels epoll", and
\* of its two calls that they do so "at once".
MarkedNotPolled == \A c \in In(net, "marked") : net.interest[net.client[c].fd] = {}
=============================================================================
