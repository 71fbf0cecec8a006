-------------------------- MODULE EventLoopProofs --------------------------
(***************************************************************************)
(* Proofs about EventLoop.                                                 *)
(***************************************************************************)
EXTENDS EventLoop, FiniteSetTheorems, WellFoundedInduction, TLAPS

(***************************************************************************)
(* Folds.  commandPropagate, masterCheckSlave and closeClients go through  *)
(* a list of clients with the tables of the loop in hand.                  *)
(***************************************************************************)
\* What holds of the empty set, and of a set when it holds of the set without
\* any one of its members, holds of every finite set.
LEMMA SetInduction ==
  ASSUME NEW S, IsFiniteSet(S), NEW Good,
         \A s \in SUBSET S : (\A x \in s : s \ {x} \in Good) => s \in Good
  PROVE  \A s \in SUBSET S : s \in Good
<1> DEFINE Bad == {s \in SUBSET S : s \notin Good}
<1> SUFFICES ASSUME Bad # {} PROVE FALSE
  OBVIOUS
<1>1. IsWellFoundedOn(StrictSubsetOrdering(S), SUBSET S)
  <2>1. FiniteSubsetsOf(S) = SUBSET S
    BY FS_FiniteSubsetsOfFinite
  <2>2. IsWellFoundedOn(StrictSubsetOrdering(S), FiniteSubsetsOf(S))
    BY FS_StrictSubsetOrderingWellFounded
  <2> QED
    BY <2>1, <2>2
<1>2. Bad \subseteq SUBSET S
  OBVIOUS
<1> HIDE DEF Bad
<1>3. PICK s \in Bad : \A t \in Bad : <<t, s>> \notin StrictSubsetOrdering(S)
  BY <1>1, <1>2, WFMin
<1> USE DEF Bad
<1>4. ASSUME NEW x \in s PROVE s \ {x} \in Good
  <2>1. s \ {x} \in SUBSET S /\ s \ {x} \subseteq s /\ s \ {x} # s /\ s \in SUBSET S
    BY <1>3
  <2>2. <<s \ {x}, s>> \in StrictSubsetOrdering(S)
    BY <2>1 DEF StrictSubsetOrdering
  <2> QED
    BY <1>3, <2>1, <2>2
<1> QED
  BY <1>3, <1>4

\* The equation of a fold with the step G, a function.
Picked(s) == CHOOSE x \in s : TRUE

Folds(S, G, base, f) ==
  \A s \in SUBSET S : f[s] = IF s = {} THEN base ELSE G[Picked(s), f[s \ {Picked(s)}]]

\* Two functions that fold a set agree on all of its subsets.
LEMMA FoldUnique ==
  ASSUME NEW S, IsFiniteSet(S), NEW G, NEW base, NEW f, NEW g,
         Folds(S, G, base, f), Folds(S, G, base, g)
  PROVE  \A s \in SUBSET S : f[s] = g[s]
<1> DEFINE Good == {s \in SUBSET S : f[s] = g[s]}
<1>1. ASSUME NEW s \in SUBSET S, \A x \in s : s \ {x} \in Good PROVE s \in Good
  <2>1. CASE s = {}
    BY <2>1 DEF Folds
  <2>2. CASE s # {}
    <3>1. Picked(s) \in s
      BY <2>2 DEF Picked
    <3>2. f[s \ {Picked(s)}] = g[s \ {Picked(s)}]
      BY <1>1, <3>1
    <3> QED
      BY <2>2, <3>2 DEF Folds
  <2> QED
    BY <2>1, <2>2
<1> HIDE DEF Good
<1>2. \A s \in SUBSET S : s \in Good
  BY <1>1, SetInduction
<1> QED
  BY <1>2 DEF Good

\* Every step that stays within N has a fold over a finite set.
LEMMA FoldExists ==
  ASSUME NEW S, IsFiniteSet(S), NEW N, NEW G \in [S \X N -> N], NEW base \in N
  PROVE  \E f \in [SUBSET S -> N] : Folds(S, G, base, f)
<1> DEFINE Has(t) == \E f \in [SUBSET t -> N] : Folds(t, G, base, f)
           Good == {t \in SUBSET S : Has(t)}
           Of(t) == CHOOSE f \in [SUBSET t -> N] : Folds(t, G, base, f)
<1>0. \A t \in SUBSET S : IsFiniteSet(t)
  BY FS_Subset
<1>1. ASSUME NEW s \in SUBSET S, \A x \in s : s \ {x} \in Good PROVE s \in Good
  <2>1. CASE s = {}
    <3> DEFINE f == [t \in SUBSET s |-> base]
    <3>1. f \in [SUBSET s -> N] /\ Folds(s, G, base, f)
      BY <2>1 DEF Folds
    <3> QED
      BY <3>1
  <2>2. CASE s # {}
    <3> DEFINE p == Picked(s)
    <3>1. p \in s
      BY <2>2 DEF Picked
    <3>2. \A x \in s : Of(s \ {x}) \in [SUBSET (s \ {x}) -> N] /\ Folds(s \ {x}, G, base, Of(s \ {x}))
      BY <1>1
    \* Two of the folds agree where both are defined.
    <3>3. ASSUME NEW x \in s, NEW y \in s, NEW t \in SUBSET (s \ {x}), t \in SUBSET (s \ {y})
          PROVE  Of(s \ {x})[t] = Of(s \ {y})[t]
      <4> DEFINE fx == Of(s \ {x})  fy == Of(s \ {y})
      <4>1. Folds(t, G, base, fx) /\ Folds(t, G, base, fy)
        <5>1. Folds(s \ {x}, G, base, fx) /\ Folds(s \ {y}, G, base, fy)
          BY <3>2
        <5>2. SUBSET t \subseteq SUBSET (s \ {x}) /\ SUBSET t \subseteq SUBSET (s \ {y})
          BY <3>3
        <5> HIDE DEF fx, fy
        <5> QED
          BY <5>1, <5>2 DEF Folds
      <4> HIDE DEF fx, fy
      <4>2. fx[t] = fy[t]
        BY <1>0, <4>1, FoldUnique
      <4> QED
        BY <4>2 DEF fx, fy
    <3> DEFINE out(t) == CHOOSE x \in s : x \notin t
               f == [t \in SUBSET s |-> IF t = s THEN G[p, Of(s \ {p})[s \ {p}]]
                                                 ELSE Of(s \ {out(t)})[t]]
    <3>4. \A t \in SUBSET s : t # s => out(t) \in s /\ out(t) \notin t
      OBVIOUS
    <3>5. ASSUME NEW x \in s, NEW t \in SUBSET (s \ {x}) PROVE f[t] = Of(s \ {x})[t]
      <4>1. t \in SUBSET s /\ t # s
        BY <3>5
      <4>2. f[t] = Of(s \ {out(t)})[t]
        BY <4>1
      <4>3. t \in SUBSET (s \ {out(t)}) /\ out(t) \in s
        BY <3>4, <4>1
      <4> HIDE DEF out, Of, f
      <4> QED
        BY <3>3, <4>2, <4>3
    <3>6. f \in [SUBSET s -> N]
      <4>1. \A x \in s : \A t \in SUBSET (s \ {x}) : Of(s \ {x})[t] \in N
        BY <3>2
      <4>2. Of(s \ {p})[s \ {p}] \in N
        BY <3>1, <4>1
      <4>3. G[p, Of(s \ {p})[s \ {p}]] \in N
        BY <3>1, <4>2
      <4>4. \A t \in SUBSET s : t # s => Of(s \ {out(t)})[t] \in N
        <5> HIDE DEF out, Of
        <5> QED
          BY <3>4, <4>1
      <4> HIDE DEF out, Of, p
      <4> QED
        BY <4>3, <4>4
    <3>7. Folds(s, G, base, f)
      <4> SUFFICES ASSUME NEW t \in SUBSET s
                   PROVE  f[t] = IF t = {} THEN base ELSE G[Picked(t), f[t \ {Picked(t)}]]
        BY DEF Folds
      <4>1. CASE t = s
        <5>1. s \ {p} \in SUBSET (s \ {p})
          OBVIOUS
        <5>2. f[s \ {p}] = Of(s \ {p})[s \ {p}]
          <6> HIDE DEF f, Of, p
          <6> QED
            BY <3>1, <3>5, <5>1
        <5>3. f[s] = G[p, Of(s \ {p})[s \ {p}]]
          <6> HIDE DEF Of, p, out
          <6> QED
            OBVIOUS
        <5> HIDE DEF f, Of
        <5> QED
          BY <2>2, <4>1, <5>2, <5>3
      <4>2. CASE t # s
        <5>1. PICK x \in s : x \notin t
          BY <4>2
        <5> DEFINE g == Of(s \ {x})
        <5>2. t \in SUBSET (s \ {x})
          BY <5>1
        <5>3. Folds(s \ {x}, G, base, g)
          BY <3>2
        <5>4. \A u \in SUBSET (s \ {x}) : f[u] = g[u]
          <6> HIDE DEF f, Of
          <6> QED
            BY <3>5
        <5>5. t \ {Picked(t)} \in SUBSET (s \ {x})
          BY <5>2
        <5>6. g[t] = IF t = {} THEN base ELSE G[Picked(t), g[t \ {Picked(t)}]]
          <6> HIDE DEF g
          <6> QED
            BY <5>2, <5>3 DEF Folds
        <5> HIDE DEF g, f
        <5> QED
          BY <5>2, <5>4, <5>5, <5>6
      <4> QED
        BY <4>1, <4>2
    <3> HIDE DEF f
    <3>8. Has(s)
      BY <3>6, <3>7
    <3> QED
      BY <3>8
  <2> QED
    BY <2>1, <2>2
<1> HIDE DEF Good
<1>2. \A t \in SUBSET S : t \in Good
  BY <1>1, SetInduction
<1>3. S \in Good
  BY <1>2
<1> QED
  BY <1>3 DEF Good

(***************************************************************************)
(* The tables.                                                             *)
(***************************************************************************)
Sock == [open : BOOLEAN, peer : {"up", "closed", "reset"}, input : BOOLEAN, err : BOOLEAN]
Client == [state : {"free", "live", "marked"}, fd : Fds \cup {Listen},
           out : BOOLEAN, toclose : BOOLEAN, slave : BOOLEAN, sync : BOOLEAN]
Net == [mask : [Fds -> SUBSET Bits], data : [Fds -> Addrs \cup {None}],
        interest : [Fds -> SUBSET Bits], sock : [Fds -> Sock], client : [Addrs -> Client]]

\* From n to m nothing changes but at the descriptor fd and the client c.
ChangedAt(n, m, fd, c) ==
  /\ m \in Net
  /\ \A f \in Fds \ {fd} :
       /\ m.mask[f] = n.mask[f] /\ m.data[f] = n.data[f]
       /\ m.interest[f] = n.interest[f] /\ m.sock[f] = n.sock[f]
  /\ \A d \in Addrs \ {c} : m.client[d] = n.client[d]

\* What a handler reads of a client before it calls another one.
LEMMA ClosedTypes == NoSock \in Sock /\ NoClient \in Client
BY DEF NoSock, NoClient, Sock, Client

\* Reading SO_ERROR clears the error and touches nothing else.
LEMMA ErrReadEffect ==
  ASSUME NEW n \in Net, NEW fd \in Fds \cup {Listen}, NEW c \in Addrs
  PROVE  LET m == ErrRead(n, fd) IN
         /\ ChangedAt(n, m, fd, c)
         /\ m.mask = n.mask /\ m.data = n.data /\ m.interest = n.interest /\ m.client = n.client
         /\ fd \in Fds => m.sock[fd].open = n.sock[fd].open
<1> DEFINE m == ErrRead(n, fd)
<1>1. m = [n EXCEPT !.sock = [n.sock EXCEPT ![fd] = [n.sock[fd] EXCEPT !.err = FALSE]]]
  BY DEF ErrRead, Net
<1>2. fd \in Fds => [n.sock[fd] EXCEPT !.err = FALSE] \in Sock
  BY DEF Net, Sock
<1> DEFINE sock == [n.sock EXCEPT ![fd] = [n.sock[fd] EXCEPT !.err = FALSE]]
<1>3. /\ sock \in [Fds -> Sock]
      /\ \A f \in Fds \ {fd} : sock[f] = n.sock[f]
      /\ fd \in Fds => sock[fd].open = n.sock[fd].open
  BY <1>2 DEF Net, Sock
<1> HIDE DEF sock
<1>4. m \in Net /\ m.sock = sock /\ m.mask = n.mask /\ m.data = n.data
      /\ m.interest = n.interest /\ m.client = n.client
  BY <1>1, <1>3 DEF Net, sock
<1> HIDE DEF m
<1> QED
  BY <1>3, <1>4 DEF ChangedAt, m

\* What an event of fd does to the tables, when it is taken away.
LEMMA DeleteEffect ==
  ASSUME NEW n \in Net, NEW fd \in Fds \cup {Listen}, NEW bit \in Bits, NEW c \in Addrs
  PROVE  LET m == aeDeleteFileEvent(n, fd, bit) IN
         /\ ChangedAt(n, m, fd, c)
         /\ m.sock = n.sock /\ m.data = n.data /\ m.client = n.client
         /\ fd \in Fds /\ fd < MaxSize =>
              m.mask[fd] = n.mask[fd] \ {bit}
         /\ fd \in Fds /\ fd < MaxSize /\ n.interest[fd] = {} => m.interest[fd] = {}
         /\ fd \in Fds /\ fd < MaxSize /\ n.interest[fd] # {} /\ n.interest[fd] \subseteq n.mask[fd] =>
              m.interest[fd] = n.mask[fd] \ {bit}
<1> DEFINE m == aeDeleteFileEvent(n, fd, bit)
           mask == [n.mask EXCEPT ![fd] = n.mask[fd] \ {bit}]
           interest == [n.interest EXCEPT ![fd] = IF n.interest[fd] = {} THEN {} ELSE n.mask[fd] \ {bit}]
<1>1. \/ m = n /\ (fd >= MaxSize \/ n.mask[fd] = {})
      \/ m = [[n EXCEPT !.mask = mask] EXCEPT !.interest = interest]
  BY DEF aeDeleteFileEvent, Net
<1>2. /\ mask \in [Fds -> SUBSET Bits] /\ interest \in [Fds -> SUBSET Bits]
      /\ \A f \in Fds \ {fd} : mask[f] = n.mask[f] /\ interest[f] = n.interest[f]
  BY DEF Net
<1>3. fd \in Fds => /\ mask[fd] = n.mask[fd] \ {bit}
                    /\ interest[fd] = IF n.interest[fd] = {} THEN {} ELSE n.mask[fd] \ {bit}
  BY DEF Net
<1> HIDE DEF mask, interest, m
<1>4. CASE m = [[n EXCEPT !.mask = mask] EXCEPT !.interest = interest]
  <2>1. m \in Net /\ m.mask = mask /\ m.interest = interest /\ m.sock = n.sock /\ m.data = n.data
        /\ m.client = n.client
    BY <1>2, <1>4 DEF Net
  <2> QED
    BY <1>2, <1>3, <2>1 DEF ChangedAt, m
<1>5. CASE m = n /\ (fd >= MaxSize \/ n.mask[fd] = {})
  <2>1. ChangedAt(n, m, fd, c)
    BY <1>5 DEF ChangedAt
  <2>2. fd \in Fds /\ fd < MaxSize => n.mask[fd] = {}
    BY <1>5, FdsAssumption DEF Fds
  <2> QED
    BY <1>5, <2>1, <2>2 DEF m
<1> QED
  BY <1>1, <1>4, <1>5

\* And when it is set: only of a socket without an error, below the limit.
LEMMA CreateEffect ==
  ASSUME NEW n \in Net, NEW fd \in Fds \cup {Listen}, NEW bit \in Bits, NEW c \in Addrs
  PROVE  LET m == aeCreateFileEvent(n, fd, bit, c) IN
         /\ ChangedAt(n, m, fd, c)
         /\ m.client = n.client
         /\ fd \in Fds => m.sock[fd].open = n.sock[fd].open
         /\ CreateFails(n, fd) => m = ErrRead(n, fd)
         /\ ~CreateFails(n, fd) => ~(fd >= MaxSize)
         /\ fd \in Fds /\ ~CreateFails(n, fd) =>
              m.mask[fd] = n.mask[fd] \cup {bit} /\ m.data[fd] = c /\ m.interest[fd] = {bit}
<1> DEFINE m == aeCreateFileEvent(n, fd, bit, c)
           mask == [n.mask EXCEPT ![fd] = n.mask[fd] \cup {bit}]
           data == [n.data EXCEPT ![fd] = c]
           interest == [n.interest EXCEPT ![fd] = {bit}]
<1>1. CASE CreateFails(n, fd)
  <2>1. m = ErrRead(n, fd)
    BY <1>1 DEF aeCreateFileEvent
  <2> QED
    BY <1>1, <2>1, ErrReadEffect
<1>2. CASE ~CreateFails(n, fd)
  <2>1. m = [[[n EXCEPT !.mask = mask] EXCEPT !.data = data] EXCEPT !.interest = interest]
    BY <1>2 DEF aeCreateFileEvent, Net
  <2>2. /\ mask \in [Fds -> SUBSET Bits] /\ interest \in [Fds -> SUBSET Bits]
        /\ data \in [Fds -> Addrs \cup {None}]
        /\ \A f \in Fds \ {fd} :
             mask[f] = n.mask[f] /\ interest[f] = n.interest[f] /\ data[f] = n.data[f]
        /\ fd \in Fds => mask[fd] = n.mask[fd] \cup {bit} /\ interest[fd] = {bit} /\ data[fd] = c
    BY DEF Net
  <2> HIDE DEF mask, data, interest, m
  <2>3. m \in Net /\ m.mask = mask /\ m.interest = interest /\ m.data = data /\ m.sock = n.sock
        /\ m.client = n.client
    BY <2>1, <2>2 DEF Net
  <2>4. ~(fd >= MaxSize)
    BY <1>2 DEF CreateFails
  <2> QED
    BY <1>2, <2>2, <2>3, <2>4 DEF ChangedAt, m
<1> QED
  BY <1>1, <1>2

\* Only the record of one client changes.
LEMMA ClientEffect ==
  ASSUME NEW n \in Net, NEW c \in Addrs, NEW x \in Client, NEW fd \in Fds
  PROVE  LET m == [n EXCEPT !.client = [n.client EXCEPT ![c] = x]] IN
         /\ ChangedAt(n, m, fd, c)
         /\ m.mask = n.mask /\ m.data = n.data /\ m.interest = n.interest /\ m.sock = n.sock
         /\ m.client[c] = x
BY DEF ChangedAt, Net

\* Only one socket changes.
LEMMA SockEffect ==
  ASSUME NEW n \in Net, NEW fd \in Fds, NEW x \in Sock, NEW c \in Addrs
  PROVE  LET m == [n EXCEPT !.sock = [n.sock EXCEPT ![fd] = x]] IN
         /\ ChangedAt(n, m, fd, c)
         /\ m.mask = n.mask /\ m.data = n.data /\ m.interest = n.interest /\ m.client = n.client
         /\ m.sock[fd] = x
BY DEF ChangedAt, Net

\* Two changes at the same place are one.
LEMMA ChangedTwice ==
  ASSUME NEW n, NEW m, NEW k, NEW fd, NEW c, ChangedAt(n, m, fd, c), ChangedAt(m, k, fd, c)
  PROVE  ChangedAt(n, k, fd, c)
BY DEF ChangedAt

\* No change is one too.
LEMMA NothingChanged ==
  ASSUME NEW n \in Net, NEW fd, NEW c
  PROVE  ChangedAt(n, n, fd, c)
BY DEF ChangedAt

(***************************************************************************)
(* The inductive invariant of EventLoop, for the tables n.  Some of it is  *)
(* lost when a transfer has been cut: g is the ghost cut.                  *)
(***************************************************************************)
\* A descriptor: the loop below its limit, with the client of this descriptor,
\* and epoll with one event of those the loop has.
FdFits(n, fd, g) ==
  /\ n.mask[fd] # {} =>
       /\ ~(fd >= MaxSize)
       /\ n.data[fd] \in Addrs /\ n.client[n.data[fd]].state # "free"
       /\ n.client[n.data[fd]].fd = fd
  /\ n.interest[fd] \subseteq n.mask[fd]
  /\ n.interest[fd] \in {{}, {"r"}, {"w"}}
  /\ ~g => (n.mask[fd] = {} <=> n.interest[fd] = {})

\* A client that is used reads, and is polled for its reply or else for its
\* next request.
Polled(n, fd, c) ==
  "r" \in n.mask[fd] /\ n.interest[fd] = IF n.client[c].out THEN {"w"} ELSE {"r"}

\* A client has an open descriptor until it is freed.
ClientFits(n, c, g) ==
  n.client[c].state # "free" =>
    /\ n.client[c].fd \in Fds
    /\ ~g => n.sock[n.client[c].fd].open
    /\ ~g /\ n.client[c].state = "live" => Polled(n, n.client[c].fd, c)

\* And no two have the same.
Apart(n, g) ==
  ~g => \A c, d \in Addrs :
    n.client[c].state # "free" /\ n.client[d].state # "free"
      /\ n.client[c].fd = n.client[d].fd => c = d

Fits(n, g) ==
  /\ n \in Net
  /\ \A fd \in Fds : FdFits(n, fd, g)
  /\ \A c \in Addrs : ClientFits(n, c, g)
  /\ Apart(n, g)

EventLoopInv ==
  /\ TypeOK
  /\ Fits(net, cut)

(***************************************************************************)
(* A call changes one client and its descriptor: to keep the invariant it  *)
(* is enough to keep it there.                                             *)
(***************************************************************************)
LEMMA LocalChange ==
  ASSUME NEW n, NEW g \in BOOLEAN, Fits(n, g), NEW fd \in Fds, NEW c \in Addrs,
         NEW m, ChangedAt(n, m, fd, c),
         \/ n.client[c].state # "free" /\ n.client[c].fd = fd
         \/ n.client[c].state = "free" /\ (~g => ~n.sock[fd].open),
         m.client[c].state # "free" => m.client[c].fd = fd,
         FdFits(m, fd, g), ClientFits(m, c, g)
  PROVE  Fits(m, g)
<1>1. ASSUME NEW f \in Fds, f # fd PROVE FdFits(m, f, g)
  <2>1. m.mask[f] = n.mask[f] /\ m.data[f] = n.data[f] /\ m.interest[f] = n.interest[f]
    BY <1>1 DEF ChangedAt
  <2>2. FdFits(n, f, g)
    BY DEF Fits
  <2>3. m.mask[f] # {} => n.data[f] # c
    BY <1>1, <2>1, <2>2 DEF FdFits
  <2> QED
    BY <2>1, <2>2, <2>3 DEF FdFits, ChangedAt
<1>2. ASSUME NEW d \in Addrs, d # c, n.client[d].state # "free", ~g
      PROVE  n.client[d].fd \in Fds \ {fd}
  <2>1. n.client[d].fd \in Fds /\ n.sock[n.client[d].fd].open
    BY <1>2 DEF Fits, ClientFits
  <2>2. n.client[d].fd # fd
    BY <1>2, <2>1 DEF Fits, Apart
  <2> QED
    BY <2>1, <2>2
<1>3. ASSUME NEW d \in Addrs, d # c PROVE ClientFits(m, d, g)
  <2>1. m.client[d] = n.client[d] /\ ClientFits(n, d, g)
    BY <1>3 DEF ChangedAt, Fits
  <2>2. CASE g
    BY <2>1, <2>2 DEF ClientFits
  <2>3. CASE ~g
    BY <1>2, <1>3, <2>1, <2>3 DEF ClientFits, ChangedAt, Polled
  <2> QED
    BY <2>2, <2>3
<1>4. Apart(m, g)
  <2> SUFFICES ASSUME ~g, NEW d \in Addrs, NEW e \in Addrs,
                      m.client[d].state # "free", m.client[e].state # "free",
                      m.client[d].fd = m.client[e].fd
               PROVE  d = e
    BY DEF Apart
  <2>1. \A a \in Addrs : a # c => m.client[a] = n.client[a]
    BY DEF ChangedAt
  <2>2. CASE d # c /\ e # c
    BY <2>1, <2>2 DEF Fits, Apart
  <2>3. CASE d = c \/ e = c
    BY <1>2, <2>1, <2>3
  <2> QED
    BY <2>2, <2>3
<1>5. m \in Net
  BY DEF ChangedAt
<1> QED
  BY <1>1, <1>3, <1>4, <1>5 DEF Fits

\* What a call finds: a client that has not been freed, at its descriptor.
Here(n, fd, c, g) ==
  /\ n \in Net
  /\ n.client[c].state # "free" /\ n.client[c].fd = fd
  /\ FdFits(n, fd, g)
  /\ ~g => n.sock[fd].open

\* Marked by now, or read from.
Reads(n, fd, c) == n.client[c].state = "marked" \/ "r" \in n.mask[fd]

\* What Fits says of one client.
LEMMA FitsHere ==
  ASSUME NEW n, NEW g \in BOOLEAN, Fits(n, g), NEW c \in Addrs, n.client[c].state # "free"
  PROVE  /\ n.client[c].fd \in Fds
         /\ Here(n, n.client[c].fd, c, g)
         /\ ~g => Reads(n, n.client[c].fd, c)
<1>1. n.client[c].state \in {"live", "marked"}
  BY DEF Fits, Net, Client
<1> QED
  BY <1>1 DEF Fits, Here, ClientFits, Polled, Reads

\* A change at one client keeps Fits when that client still fits.
LEMMA HereFits ==
  ASSUME NEW n, NEW g \in BOOLEAN, Fits(n, g), NEW c \in Addrs, NEW fd \in Fds,
         n.client[c].state # "free" /\ n.client[c].fd = fd, NEW m, ChangedAt(n, m, fd, c),
         Here(m, fd, c, g), ~g => m.client[c].state = "marked" \/ Polled(m, fd, c)
  PROVE  Fits(m, g)
<1>1. ClientFits(m, c, g)
  BY DEF Here, ClientFits
<1> QED
  BY <1>1, LocalChange DEF Here

\* The handler of a registered event finds the client of its descriptor.
LEMMA CalledHere ==
  ASSUME NEW n, NEW g \in BOOLEAN, Fits(n, g), NEW fd \in Fds, n.mask[fd] # {}
  PROVE  /\ n.data[fd] \in Addrs /\ n.client[n.data[fd]].state # "free"
         /\ n.client[n.data[fd]].fd = fd
BY DEF Fits, FdFits

\* Changes of a client that leave its state and its descriptor alone.
LEMMA SetClient ==
  ASSUME NEW n, NEW g \in BOOLEAN, NEW fd \in Fds, NEW c \in Addrs, Here(n, fd, c, g),
         NEW x \in Client, x.state # "free", x.fd = fd
  PROVE  LET m == [n EXCEPT !.client = [n.client EXCEPT ![c] = x]] IN
         /\ ChangedAt(n, m, fd, c) /\ Here(m, fd, c, g) /\ m.client[c] = x
         /\ m.mask = n.mask /\ m.interest = n.interest /\ m.data = n.data /\ m.sock = n.sock
<1> DEFINE m == [n EXCEPT !.client = [n.client EXCEPT ![c] = x]]
<1>0. n \in Net
  BY DEF Here
<1>1. /\ ChangedAt(n, m, fd, c) /\ m.client[c] = x
      /\ m.mask = n.mask /\ m.interest = n.interest /\ m.data = n.data /\ m.sock = n.sock
  BY <1>0, ClientEffect
<1> HIDE DEF m
<1>2. m \in Net /\ \A d \in Addrs \ {c} : m.client[d] = n.client[d]
  BY <1>1 DEF ChangedAt
<1>3. FdFits(m, fd, g)
  BY <1>1, <1>2 DEF Here, FdFits
<1>4. Here(m, fd, c, g)
  BY <1>1, <1>2, <1>3 DEF Here
<1> QED
  BY <1>1, <1>4 DEF m

(***************************************************************************)
(* The calls.                                                              *)
(***************************************************************************)
LEMMA ErrReadHere ==
  ASSUME NEW n, NEW g \in BOOLEAN, NEW fd \in Fds, NEW c \in Addrs, Here(n, fd, c, g)
  PROVE  LET m == ErrRead(n, fd) IN
         /\ ChangedAt(n, m, fd, c) /\ Here(m, fd, c, g)
         /\ m.mask = n.mask /\ m.interest = n.interest /\ m.client = n.client
<1> DEFINE m == ErrRead(n, fd)
<1>0. n \in Net
  BY DEF Here
<1>1. /\ ChangedAt(n, m, fd, c) /\ m.mask = n.mask /\ m.data = n.data /\ m.interest = n.interest
      /\ m.client = n.client /\ m.sock[fd].open = n.sock[fd].open
  BY <1>0, ErrReadEffect
<1> HIDE DEF m
<1>2. m \in Net
  BY <1>1 DEF ChangedAt
<1>3. Here(m, fd, c, g)
  BY <1>1, <1>2 DEF Here, FdFits
<1> QED
  BY <1>1, <1>3 DEF m

\* aeDeleteFileEvent at the client's own socket.
LEMMA DeleteHere ==
  ASSUME NEW n, NEW g \in BOOLEAN, NEW fd \in Fds, NEW c \in Addrs, Here(n, fd, c, g), NEW bit \in Bits
  PROVE  LET m == aeDeleteFileEvent(n, fd, bit) IN
         /\ ChangedAt(n, m, fd, c) /\ Here(m, fd, c, g)
         /\ m.client = n.client /\ m.sock = n.sock
         /\ m.mask[fd] = n.mask[fd] \ {bit}
         /\ n.interest[fd] # {} => m.interest[fd] = n.mask[fd] \ {bit}
<1> DEFINE m == aeDeleteFileEvent(n, fd, bit)
<1>0. n \in Net /\ fd \in Int /\ MaxSize \in Int /\ n.mask[fd] \subseteq Bits
  BY FdsAssumption DEF Here, Net, Fds
<1>1. /\ ChangedAt(n, m, fd, c)
      /\ m.data = n.data /\ m.client = n.client /\ m.sock = n.sock
      /\ fd < MaxSize /\ n.interest[fd] \subseteq n.mask[fd] =>
           /\ m.mask[fd] = n.mask[fd] \ {bit}
           /\ m.interest[fd] = IF n.interest[fd] = {} THEN {} ELSE n.mask[fd] \ {bit}
  <2>1. fd \in Fds \cup {Listen}
    OBVIOUS
  <2>2. /\ ChangedAt(n, m, fd, c)
        /\ m.sock = n.sock /\ m.data = n.data /\ m.client = n.client
        /\ fd \in Fds /\ fd < MaxSize => m.mask[fd] = n.mask[fd] \ {bit}
        /\ fd \in Fds /\ fd < MaxSize /\ n.interest[fd] = {} => m.interest[fd] = {}
        /\ fd \in Fds /\ fd < MaxSize /\ n.interest[fd] # {} /\ n.interest[fd] \subseteq n.mask[fd] =>
             m.interest[fd] = n.mask[fd] \ {bit}
    BY <1>0, <2>1, DeleteEffect
  <2> HIDE DEF m
  <2> QED
    BY <2>2
<1>2. /\ m.mask[fd] = n.mask[fd] \ {bit}
      /\ m.interest[fd] = IF n.interest[fd] = {} THEN {} ELSE n.mask[fd] \ {bit}
  <2>1. CASE fd < MaxSize
    BY <1>1, <2>1 DEF Here, FdFits
  <2>2. CASE fd >= MaxSize
    <3>1. n.mask[fd] = {} /\ n.interest[fd] = {}
      BY <2>2 DEF Here, FdFits
    <3>2. m = n
      BY <3>1 DEF aeDeleteFileEvent
    <3> QED
      BY <3>1, <3>2
  <2> QED
    BY <1>0, <2>1, <2>2
<1> HIDE DEF m
<1>3. m \in Net
  BY <1>1 DEF ChangedAt
<1>4. m.mask[fd] \subseteq n.mask[fd] /\ m.interest[fd] \in {{}, {"r"}, {"w"}}
  BY <1>0, <1>2 DEF Bits
<1>5. FdFits(m, fd, g)
  <2>1. m.interest[fd] \subseteq m.mask[fd]
    BY <1>2
  <2>2. ~g => (m.mask[fd] = {} <=> m.interest[fd] = {})
    BY <1>2 DEF Here, FdFits
  <2> QED
    BY <1>1, <1>4, <2>1, <2>2 DEF Here, FdFits
<1>6. Here(m, fd, c, g)
  BY <1>1, <1>3, <1>5 DEF Here
<1> QED
  BY <1>1, <1>2, <1>6 DEF m

\* clientToclose leaves a client that is marked, whatever it was.
LEMMA ClientToclose ==
  ASSUME NEW n, NEW g \in BOOLEAN, NEW fd \in Fds, NEW c \in Addrs, Here(n, fd, c, g)
  PROVE  LET m == clientToclose(n, c) IN
         /\ ChangedAt(n, m, fd, c) /\ Here(m, fd, c, g)
         /\ m.client[c].state = "marked"
<1> DEFINE m == clientToclose(n, c)
           m1 == aeDeleteFileEvent(n, fd, "w")
           m2 == aeDeleteFileEvent(m1, fd, "r")
           x == [m2.client[c] EXCEPT !.state = "marked"]
<1>0. n \in Net /\ n.client[c].fd = fd
  BY DEF Here
<1>1. CASE n.client[c].state = "marked"
  <2>1. m = n
    BY <1>1 DEF clientToclose
  <2>2. ChangedAt(n, n, fd, c)
    BY <1>0, NothingChanged
  <2> QED
    BY <1>1, <2>1, <2>2
<1>2. CASE n.client[c].state # "marked"
  <2>1. ChangedAt(n, m1, fd, c) /\ Here(m1, fd, c, g)
    <3>1. "w" \in Bits
      BY DEF Bits
    <3> QED
      BY <3>1, DeleteHere
  <2> HIDE DEF m1
  <2>2. ChangedAt(m1, m2, fd, c) /\ Here(m2, fd, c, g)
    <3>1. "r" \in Bits
      BY DEF Bits
    <3> QED
      BY <2>1, <3>1, DeleteHere
  <2> HIDE DEF m2
  <2>3. m2 \in Net /\ m2.client[c].fd = fd
    BY <2>2 DEF Here
  <2>4. x \in Client /\ x.state = "marked" /\ x.state # "free" /\ x.fd = fd
    BY <2>3 DEF Net, Client
  <2>5. m = [m2 EXCEPT !.client = [m2.client EXCEPT ![c] = x]]
    BY <1>0, <1>2, <2>3 DEF clientToclose, m1, m2, Net
  <2> HIDE DEF x, m
  <2>6. ChangedAt(m2, m, fd, c) /\ Here(m, fd, c, g) /\ m.client[c] = x
    BY <2>2, <2>4, <2>5, SetClient
  <2>7. ChangedAt(n, m, fd, c)
    BY <2>1, <2>2, <2>6, ChangedTwice
  <2> QED
    BY <2>4, <2>6, <2>7 DEF m
<1> QED
  BY <1>1, <1>2

\* After Register the event is set, and epoll waits for nothing else; or the
\* client is marked.
LEMMA RegisterHere ==
  ASSUME NEW n, NEW g \in BOOLEAN, NEW fd \in Fds, NEW c \in Addrs, Here(n, fd, c, g), NEW bit \in Bits
  PROVE  LET m == Register(n, c, bit) IN
         /\ ChangedAt(n, m, fd, c) /\ Here(m, fd, c, g)
         /\ \/ m.client[c].state = "marked"
            \/ m.client = n.client /\ m.mask[fd] = n.mask[fd] \cup {bit} /\ m.interest[fd] = {bit}
         /\ n.client[c].state = "marked" => m.client[c].state = "marked"
<1> DEFINE m == Register(n, c, bit)
           k == aeCreateFileEvent(n, fd, bit, c)
<1>0. n \in Net /\ n.client[c].fd = fd /\ n.client[c].state # "free"
  BY DEF Here
<1>1. CASE CreateFails(n, fd)
  <2>1. k = ErrRead(n, fd)
    BY <1>1 DEF aeCreateFileEvent
  <2>2. ChangedAt(n, k, fd, c) /\ Here(k, fd, c, g)
    BY <2>1, ErrReadHere
  <2>3. m = clientToclose(k, c)
    BY <1>0, <1>1 DEF Register
  <2> HIDE DEF k, m
  <2>4. ChangedAt(k, m, fd, c) /\ Here(m, fd, c, g) /\ m.client[c].state = "marked"
    BY <2>2, <2>3, ClientToclose
  <2>5. ChangedAt(n, m, fd, c)
    BY <2>2, <2>4, ChangedTwice
  <2> QED
    BY <2>4, <2>5 DEF m
<1>2. CASE ~CreateFails(n, fd)
  <2>1. m = k
    BY <1>0, <1>2 DEF Register
  <2>2. /\ ChangedAt(n, k, fd, c) /\ k.client = n.client /\ k.sock[fd].open = n.sock[fd].open
        /\ ~(fd >= MaxSize)
        /\ k.mask[fd] = n.mask[fd] \cup {bit} /\ k.data[fd] = c /\ k.interest[fd] = {bit}
    BY <1>0, <1>2, CreateEffect
  <2> HIDE DEF k, m
  <2>3. FdFits(k, fd, g)
    <3>1. {bit} \in {{}, {"r"}, {"w"}}
      BY DEF Bits
    <3>2. k.interest[fd] \subseteq k.mask[fd] /\ k.interest[fd] # {} /\ k.mask[fd] # {}
      BY <2>2
    <3> QED
      BY <1>0, <2>2, <3>1, <3>2 DEF FdFits
  <2>4. k \in Net
    BY <2>2 DEF ChangedAt
  <2>5. Here(k, fd, c, g)
    BY <1>0, <2>2, <2>3, <2>4 DEF Here
  <2> QED
    BY <2>1, <2>2, <2>5 DEF m
<1> QED
  BY <1>1, <1>2

\* Setting the read event makes a client read.
LEMMA RegisterReads ==
  ASSUME NEW n, NEW g \in BOOLEAN, NEW fd \in Fds, NEW c \in Addrs, Here(n, fd, c, g)
  PROVE  Reads(Register(n, c, "r"), fd, c)
<1>1. "r" \in Bits
  BY DEF Bits
<1> DEFINE m == Register(n, c, "r")
<1>2. \/ m.client[c].state = "marked"
      \/ m.mask[fd] = n.mask[fd] \cup {"r"}
  BY <1>1, RegisterHere
<1> HIDE DEF m
<1>3. Reads(m, fd, c)
  BY <1>2 DEF Reads
<1> QED
  BY <1>3 DEF m

(***************************************************************************)
(* The loops over clients are folds.                                       *)
(***************************************************************************)
\* commandPropagate goes from n to the last table of f.
LEMMA PropagateFold ==
  ASSUME NEW S, IsFiniteSet(S), NEW N, NEW n \in N,
         \A c \in S, m \in N : PropagateTo(c, m) \in N
  PROVE  FoldSet(PropagateTo, n, S) \in N
<1> DEFINE G == [p \in S \X N |-> PropagateTo(p[1], p[2])]
           Step(h) == [s \in SUBSET S |->
                         IF s = {} THEN n
                         ELSE PropagateTo(CHOOSE x \in s : TRUE, h[s \ {CHOOSE x \in s : TRUE}])]
           iter == CHOOSE h : h = Step(h)
<1>1. G \in [S \X N -> N] /\ \A c \in S, m \in N : G[c, m] = PropagateTo(c, m)
  OBVIOUS
<1> HIDE DEF G
<1>2. PICK f \in [SUBSET S -> N] : Folds(S, G, n, f)
  BY <1>1, FoldExists
<1>3. \A s \in SUBSET S : s # {} => Picked(s) \in s /\ f[s] = PropagateTo(Picked(s), f[s \ {Picked(s)}])
  <2> SUFFICES ASSUME NEW s \in SUBSET S, s # {}
               PROVE  Picked(s) \in s /\ f[s] = PropagateTo(Picked(s), f[s \ {Picked(s)}])
    OBVIOUS
  <2>1. Picked(s) \in s
    BY DEF Picked
  <2>2. f[s] = G[Picked(s), f[s \ {Picked(s)}]]
    BY <1>2 DEF Folds
  <2>3. f[s \ {Picked(s)}] \in N
    BY <1>2
  <2> QED
    BY <1>1, <2>1, <2>2, <2>3
<1>4. f[{}] = n
  BY <1>2 DEF Folds
<1>5. f = Step(f)
  BY <1>2, <1>3, <1>4 DEF Picked
<1>6. iter = Step(iter)
  BY <1>5
<1> HIDE DEF iter
<1> DEFINE Good == {s \in SUBSET S : iter[s] = f[s]}
<1>7. ASSUME NEW s \in SUBSET S, \A x \in s : s \ {x} \in Good PROVE s \in Good
  <2>1. CASE s = {}
    BY <1>4, <1>6, <2>1
  <2>2. CASE s # {}
    <3>1. iter[s \ {Picked(s)}] = f[s \ {Picked(s)}]
      BY <1>3, <1>7, <2>2
    <3>2. iter[s] = PropagateTo(Picked(s), iter[s \ {Picked(s)}])
      BY <1>6, <2>2 DEF Picked
    <3> QED
      BY <1>3, <2>2, <3>1, <3>2
  <2> QED
    BY <2>1, <2>2
<1> HIDE DEF Good
<1>8. \A s \in SUBSET S : s \in Good
  BY <1>7, SetInduction
<1>9. iter[S] = f[S]
  BY <1>8 DEF Good
<1>10. FoldSet(PropagateTo, n, S) = iter[S]
  BY DEF FoldSet, MapThenFoldSet, iter
<1> QED
  BY <1>2, <1>9, <1>10

\* masterCheckSlave likewise.
LEMMA TocloseFold ==
  ASSUME NEW S, IsFiniteSet(S), NEW N, NEW n \in N,
         \A c \in S, m \in N : clientToclose(m, c) \in N
  PROVE  FoldSet(LAMBDA c, m : clientToclose(m, c), n, S) \in N
<1> DEFINE G == [p \in S \X N |-> clientToclose(p[2], p[1])]
           Step(h) == [s \in SUBSET S |->
                         IF s = {} THEN n
                         ELSE clientToclose(h[s \ {CHOOSE x \in s : TRUE}], CHOOSE x \in s : TRUE)]
           iter == CHOOSE h : h = Step(h)
<1>1. G \in [S \X N -> N] /\ \A c \in S, m \in N : G[c, m] = clientToclose(m, c)
  OBVIOUS
<1> HIDE DEF G
<1>2. PICK f \in [SUBSET S -> N] : Folds(S, G, n, f)
  BY <1>1, FoldExists
<1>3. \A s \in SUBSET S : s # {} => Picked(s) \in s /\ f[s] = clientToclose(f[s \ {Picked(s)}], Picked(s))
  <2> SUFFICES ASSUME NEW s \in SUBSET S, s # {}
               PROVE  Picked(s) \in s /\ f[s] = clientToclose(f[s \ {Picked(s)}], Picked(s))
    OBVIOUS
  <2>1. Picked(s) \in s
    BY DEF Picked
  <2>2. f[s] = G[Picked(s), f[s \ {Picked(s)}]]
    BY <1>2 DEF Folds
  <2>3. f[s \ {Picked(s)}] \in N
    BY <1>2
  <2> QED
    BY <1>1, <2>1, <2>2, <2>3
<1>4. f[{}] = n
  BY <1>2 DEF Folds
<1>5. f = Step(f)
  BY <1>2, <1>3, <1>4 DEF Picked
<1>6. iter = Step(iter)
  BY <1>5
<1> HIDE DEF iter
<1> DEFINE Good == {s \in SUBSET S : iter[s] = f[s]}
<1>7. ASSUME NEW s \in SUBSET S, \A x \in s : s \ {x} \in Good PROVE s \in Good
  <2>1. CASE s = {}
    BY <1>4, <1>6, <2>1
  <2>2. CASE s # {}
    <3>1. iter[s \ {Picked(s)}] = f[s \ {Picked(s)}]
      BY <1>3, <1>7, <2>2
    <3>2. iter[s] = clientToclose(iter[s \ {Picked(s)}], Picked(s))
      BY <1>6, <2>2 DEF Picked
    <3> QED
      BY <1>3, <2>2, <3>1, <3>2
  <2> QED
    BY <2>1, <2>2
<1> HIDE DEF Good
<1>8. \A s \in SUBSET S : s \in Good
  BY <1>7, SetInduction
<1>9. iter[S] = f[S]
  BY <1>8 DEF Good
<1>10. FoldSet(LAMBDA c, m : clientToclose(m, c), n, S) = iter[S]
  BY DEF FoldSet, MapThenFoldSet, iter
<1> QED
  BY <1>2, <1>9, <1>10

\* And closeClients, whose tables are related to what is left of the list.
Freed(n, S) == FoldSet(LAMBDA c, m : freeClient(m, c), n, S)
FreeSteps(n, S, f) ==
  /\ f[{}] = n
  /\ \A s \in SUBSET S : s # {} =>
       Picked(s) \in s /\ f[s] = freeClient(f[s \ {Picked(s)}], Picked(s))
  /\ Freed(n, S) = f[S]

\* The loop that frees marked clients one by one ends.
LEMMA FreeFold ==
  ASSUME NEW S, IsFiniteSet(S), NEW N, NEW n \in N,
         \A c \in S, m \in N : freeClient(m, c) \in N
  PROVE  \E f \in [SUBSET S -> N] : FreeSteps(n, S, f)
<1> DEFINE G == [p \in S \X N |-> freeClient(p[2], p[1])]
           Step(h) == [s \in SUBSET S |->
                         IF s = {} THEN n
                         ELSE freeClient(h[s \ {CHOOSE x \in s : TRUE}], CHOOSE x \in s : TRUE)]
           iter == CHOOSE h : h = Step(h)
<1>1. G \in [S \X N -> N] /\ \A c \in S, m \in N : G[c, m] = freeClient(m, c)
  OBVIOUS
<1> HIDE DEF G
<1>2. PICK f \in [SUBSET S -> N] : Folds(S, G, n, f)
  BY <1>1, FoldExists
<1>3. \A s \in SUBSET S : s # {} => Picked(s) \in s /\ f[s] = freeClient(f[s \ {Picked(s)}], Picked(s))
  <2> SUFFICES ASSUME NEW s \in SUBSET S, s # {}
               PROVE  Picked(s) \in s /\ f[s] = freeClient(f[s \ {Picked(s)}], Picked(s))
    OBVIOUS
  <2>1. Picked(s) \in s
    BY DEF Picked
  <2>2. f[s] = G[Picked(s), f[s \ {Picked(s)}]]
    BY <1>2 DEF Folds
  <2>3. f[s \ {Picked(s)}] \in N
    BY <1>2
  <2> QED
    BY <1>1, <2>1, <2>2, <2>3
<1>4. f[{}] = n
  BY <1>2 DEF Folds
<1>5. f = Step(f)
  BY <1>2, <1>3, <1>4 DEF Picked
<1>6. iter = Step(iter)
  BY <1>5
<1> HIDE DEF iter
<1> DEFINE Good == {s \in SUBSET S : iter[s] = f[s]}
<1>7. ASSUME NEW s \in SUBSET S, \A x \in s : s \ {x} \in Good PROVE s \in Good
  <2>1. CASE s = {}
    BY <1>4, <1>6, <2>1
  <2>2. CASE s # {}
    <3>1. iter[s \ {Picked(s)}] = f[s \ {Picked(s)}]
      BY <1>3, <1>7, <2>2
    <3>2. iter[s] = freeClient(iter[s \ {Picked(s)}], Picked(s))
      BY <1>6, <2>2 DEF Picked
    <3> QED
      BY <1>3, <2>2, <3>1, <3>2
  <2> QED
    BY <2>1, <2>2
<1> HIDE DEF Good
<1>8. \A s \in SUBSET S : s \in Good
  BY <1>7, SetInduction
<1>9. iter[S] = f[S]
  BY <1>8 DEF Good
<1>10. Freed(n, S) = iter[S]
  BY DEF Freed, FoldSet, MapThenFoldSet, iter
<1> QED
  BY <1>3, <1>4, <1>9, <1>10 DEF FreeSteps

(***************************************************************************)
(* What the handlers do with one client.                                   *)
(***************************************************************************)
LEMMA OutHere ==
  ASSUME NEW n, NEW g \in BOOLEAN, NEW fd \in Fds, NEW c \in Addrs, Here(n, fd, c, g)
  PROVE  LET m == [n EXCEPT !.client[c].out = TRUE] IN
         /\ ChangedAt(n, m, fd, c) /\ Here(m, fd, c, g)
         /\ m.mask = n.mask /\ m.interest = n.interest
         /\ m.client[c].out = TRUE /\ m.client[c].state = n.client[c].state
<1> DEFINE x == [n.client[c] EXCEPT !.out = TRUE]
           m == [n EXCEPT !.client = [n.client EXCEPT ![c] = x]]
<1>0. n \in Net
  BY DEF Here
<1>1. x \in Client /\ x.state = n.client[c].state /\ x.state # "free" /\ x.fd = fd /\ x.out = TRUE
  BY <1>0 DEF Here, Net, Client
<1>2. [n EXCEPT !.client[c].out = TRUE] = m
  BY <1>0 DEF Net
<1> HIDE DEF x
<1>3. ChangedAt(n, m, fd, c) /\ Here(m, fd, c, g) /\ m.client[c] = x
      /\ m.mask = n.mask /\ m.interest = n.interest
  BY <1>1, SetClient
<1> HIDE DEF m
<1> QED
  BY <1>1, <1>2, <1>3

\* With the write event set, a client that is read from is polled for its
\* reply.
LEMMA WritesPolled ==
  ASSUME NEW n, NEW g \in BOOLEAN, NEW fd \in Fds, NEW c \in Addrs, Here(n, fd, c, g),
         Reads(n, fd, c), n.client[c].out = TRUE
  PROVE  LET m == Register(n, c, "w") IN m.client[c].state = "marked" \/ Polled(m, fd, c)
<1> DEFINE m == Register(n, c, "w")
<1>1. "w" \in Bits
  BY DEF Bits
<1>2. /\ \/ m.client[c].state = "marked"
         \/ m.client = n.client /\ m.mask[fd] = n.mask[fd] \cup {"w"} /\ m.interest[fd] = {"w"}
      /\ n.client[c].state = "marked" => m.client[c].state = "marked"
  BY <1>1, RegisterHere
<1> HIDE DEF m
<1>3. m.client[c].state = "marked" \/ Polled(m, fd, c)
  BY <1>2 DEF Reads, Polled
<1> QED
  BY <1>3 DEF m

\* The answer of a command at one client.
LEMMA AnsweredHere ==
  ASSUME NEW n, NEW g \in BOOLEAN, NEW fd \in Fds, NEW c \in Addrs, Here(n, fd, c, g)
  PROVE  LET m == Answered(n, c) IN
         /\ ChangedAt(n, m, fd, c) /\ Here(m, fd, c, g)
         /\ Reads(n, fd, c) => m.client[c].state = "marked" \/ Polled(m, fd, c)
<1> DEFINE k == [n EXCEPT !.client[c].out = TRUE]
           m == Register(k, c, "w")
<1>1. /\ ChangedAt(n, k, fd, c) /\ Here(k, fd, c, g) /\ k.client[c].out = TRUE
      /\ k.mask = n.mask /\ k.client[c].state = n.client[c].state
  BY OutHere
<1>2. "w" \in Bits /\ Answered(n, c) = m
  BY DEF Bits, Answered
<1> HIDE DEF k
<1>3. ChangedAt(k, m, fd, c) /\ Here(m, fd, c, g)
  BY <1>1, <1>2, RegisterHere
<1>4. Reads(k, fd, c) => m.client[c].state = "marked" \/ Polled(m, fd, c)
  BY <1>1, WritesPolled
<1> HIDE DEF m
<1>5. ChangedAt(n, m, fd, c)
  BY <1>1, <1>3, ChangedTwice
<1> QED
  BY <1>1, <1>2, <1>3, <1>4, <1>5 DEF Reads

\* A slave gets its read event back before its write event.
LEMMA PropagateHere ==
  ASSUME NEW n, NEW g \in BOOLEAN, NEW fd \in Fds, NEW c \in Addrs, Here(n, fd, c, g)
  PROVE  LET m == PropagateTo(c, n) IN
         /\ ChangedAt(n, m, fd, c) /\ Here(m, fd, c, g)
         /\ m.client[c].state = "marked" \/ Polled(m, fd, c)
<1> DEFINE k == [n EXCEPT !.client[c].out = TRUE]
           l == Register(k, c, "r")
           m == Register(l, c, "w")
<1>1. ChangedAt(n, k, fd, c) /\ Here(k, fd, c, g) /\ k.client[c].out = TRUE
  BY OutHere
<1>2. "r" \in Bits /\ "w" \in Bits /\ PropagateTo(c, n) = m
  BY DEF Bits, PropagateTo
<1> HIDE DEF k
<1>3. ChangedAt(k, l, fd, c) /\ Here(l, fd, c, g)
      /\ (l.client[c].state = "marked" \/ l.client = k.client)
  BY <1>1, <1>2, RegisterHere
<1>4. Reads(l, fd, c)
  BY <1>1, RegisterReads
<1> HIDE DEF l
<1>5. ChangedAt(l, m, fd, c) /\ Here(m, fd, c, g)
      /\ (l.client[c].state = "marked" => m.client[c].state = "marked")
  BY <1>2, <1>3, RegisterHere
<1>6. l.client[c].out = TRUE => m.client[c].state = "marked" \/ Polled(m, fd, c)
  BY <1>3, <1>4, WritesPolled
<1> HIDE DEF m
<1>7. ChangedAt(n, m, fd, c)
  BY <1>1, <1>3, <1>5, ChangedTwice
<1> QED
  BY <1>1, <1>2, <1>3, <1>5, <1>6, <1>7

(***************************************************************************)
(* And so the invariant.                                                   *)
(***************************************************************************)
\* The same clients are in use, at the same descriptors.
SameUse(n, m) ==
  \A d \in Addrs :
    /\ m.client[d].state # "free" <=> n.client[d].state # "free"
    /\ m.client[d].fd = n.client[d].fd

\* A change at one client keeps who is in use when it still fits.
LEMMA SameUseAt ==
  ASSUME NEW n, NEW m, NEW g, NEW fd \in Fds, NEW c \in Addrs, ChangedAt(n, m, fd, c),
         n.client[c].state # "free" /\ n.client[c].fd = fd, Here(m, fd, c, g)
  PROVE  SameUse(n, m)
BY DEF SameUse, ChangedAt, Here

\* clientToclose keeps Fits.
LEMMA TocloseFits ==
  ASSUME NEW n, NEW g \in BOOLEAN, Fits(n, g), NEW c \in Addrs, n.client[c].state # "free"
  PROVE  Fits(clientToclose(n, c), g) /\ SameUse(n, clientToclose(n, c))
<1> DEFINE m == clientToclose(n, c)
           fd == n.client[c].fd
<1>1. fd \in Fds /\ Here(n, fd, c, g)
  BY FitsHere
<1> HIDE DEF fd
<1>2. ChangedAt(n, m, fd, c) /\ Here(m, fd, c, g) /\ m.client[c].state = "marked"
  BY <1>1, ClientToclose
<1> HIDE DEF m
<1>3. Fits(m, g)
  BY <1>1, <1>2, HereFits DEF fd
<1>4. SameUse(n, m)
  BY <1>1, <1>2, SameUseAt DEF fd
<1> QED
  BY <1>3, <1>4 DEF m

\* Handing a command to one replica keeps Fits.
LEMMA PropagateFits ==
  ASSUME NEW n, NEW g \in BOOLEAN, Fits(n, g), NEW c \in Addrs, n.client[c].state # "free"
  PROVE  Fits(PropagateTo(c, n), g) /\ SameUse(n, PropagateTo(c, n))
<1> DEFINE m == PropagateTo(c, n)
           fd == n.client[c].fd
<1>1. fd \in Fds /\ Here(n, fd, c, g)
  BY FitsHere
<1> HIDE DEF fd
<1>2. ChangedAt(n, m, fd, c) /\ Here(m, fd, c, g) /\ (m.client[c].state = "marked" \/ Polled(m, fd, c))
  BY <1>1, PropagateHere
<1> HIDE DEF m
<1>3. Fits(m, g)
  BY <1>1, <1>2, HereFits DEF fd
<1>4. SameUse(n, m)
  BY <1>1, <1>2, SameUseAt DEF fd
<1> QED
  BY <1>3, <1>4 DEF m

\* Answering a client keeps Fits.
LEMMA AnsweredFits ==
  ASSUME NEW n, NEW g \in BOOLEAN, Fits(n, g), NEW c \in Addrs, n.client[c].state # "free"
  PROVE  Fits(Answered(n, c), g) /\ SameUse(n, Answered(n, c))
<1> DEFINE m == Answered(n, c)
           fd == n.client[c].fd
<1>1. fd \in Fds /\ Here(n, fd, c, g) /\ (~g => Reads(n, fd, c))
  BY FitsHere
<1> HIDE DEF fd
<1>2. ChangedAt(n, m, fd, c) /\ Here(m, fd, c, g)
      /\ (Reads(n, fd, c) => m.client[c].state = "marked" \/ Polled(m, fd, c))
  BY <1>1, AnsweredHere
<1> HIDE DEF m
<1>3. Fits(m, g)
  BY <1>1, <1>2, HereFits DEF fd
<1>4. SameUse(n, m)
  BY <1>1, <1>2, SameUseAt DEF fd
<1> QED
  BY <1>3, <1>4 DEF m

\* Fields of a client that nothing else depends on.
LEMMA FieldFits ==
  ASSUME NEW n, NEW g \in BOOLEAN, Fits(n, g), NEW c \in Addrs, n.client[c].state # "free",
         NEW x \in Client, x.state = n.client[c].state, x.fd = n.client[c].fd, x.out = n.client[c].out
  PROVE  LET m == [n EXCEPT !.client = [n.client EXCEPT ![c] = x]] IN Fits(m, g) /\ SameUse(n, m)
<1> DEFINE m == [n EXCEPT !.client = [n.client EXCEPT ![c] = x]]
           fd == n.client[c].fd
<1>1. fd \in Fds /\ Here(n, fd, c, g)
  BY FitsHere
<1>2. ClientFits(n, c, g)
  BY DEF Fits
<1>0. x.fd = fd /\ x.state # "free"
  OBVIOUS
<1> HIDE DEF fd
<1>3. /\ ChangedAt(n, m, fd, c) /\ Here(m, fd, c, g) /\ m.client[c] = x
      /\ m.mask = n.mask /\ m.interest = n.interest
  BY <1>0, <1>1, SetClient
<1> HIDE DEF m
<1>4. ~g => m.client[c].state = "marked" \/ Polled(m, fd, c)
  <2>1. n.client[c].state \in {"live", "marked"}
    BY DEF Fits, Net, Client
  <2> QED
    BY <1>2, <1>3, <2>1 DEF ClientFits, Polled, fd
<1>5. Fits(m, g)
  BY <1>1, <1>3, <1>4, HereFits DEF fd
<1>6. SameUse(n, m)
  BY <1>1, <1>3, SameUseAt DEF fd
<1> QED
  BY <1>5, <1>6 DEF m

\* What peers and errors do to the sockets.
LEMMA SocksFit ==
  ASSUME NEW n, NEW g \in BOOLEAN, Fits(n, g), NEW sock \in [Fds -> Sock],
         \A fd \in Fds : sock[fd].open = n.sock[fd].open
  PROVE  LET m == [n EXCEPT !.sock = sock] IN Fits(m, g) /\ SameUse(n, m)
<1> DEFINE m == [n EXCEPT !.sock = sock]
<1>1. /\ m \in Net /\ m.mask = n.mask /\ m.data = n.data /\ m.interest = n.interest
      /\ m.client = n.client /\ m.sock = sock
  BY DEF Fits, Net
<1> HIDE DEF m
<1>2. \A fd \in Fds : FdFits(m, fd, g)
  BY <1>1 DEF Fits, FdFits
<1>3. \A c \in Addrs : ClientFits(m, c, g)
  BY <1>1 DEF Fits, ClientFits, Polled
<1>4. Apart(m, g) /\ SameUse(n, m)
  BY <1>1 DEF Fits, Apart, SameUse
<1> QED
  BY <1>1, <1>2, <1>3, <1>4 DEF Fits, m

\* A loop over clients ends: there are finitely many.
LEMMA FinitelyMany == \A S \in SUBSET Addrs : IsFiniteSet(S)
BY AddrsAssumption, FS_Subset

\* The loop of commandPropagate keeps Fits.
LEMMA PropagateLoopFits ==
  ASSUME NEW n, NEW g \in BOOLEAN, Fits(n, g)
  PROVE  Fits(commandPropagate(n), g) /\ SameUse(n, commandPropagate(n))
<1> DEFINE S == {c \in In(n, "live") : n.client[c].slave}
           N == {m \in Net : Fits(m, g) /\ SameUse(n, m)}
<1>1. S \in SUBSET Addrs /\ \A c \in S : n.client[c].state # "free"
  BY DEF In
<1>2. IsFiniteSet(S)
  BY <1>1, FinitelyMany
<1>3. n \in N
  BY DEF Fits, SameUse
<1>4. ASSUME NEW c \in S, NEW m \in N PROVE PropagateTo(c, m) \in N
  <2>1. c \in Addrs /\ m.client[c].state # "free"
    BY <1>1 DEF SameUse
  <2>2. Fits(PropagateTo(c, m), g) /\ SameUse(m, PropagateTo(c, m))
    BY <2>1, PropagateFits
  <2>3. SameUse(n, PropagateTo(c, m))
    BY <2>2 DEF SameUse
  <2> QED
    BY <2>2, <2>3 DEF Fits
<1>5. commandPropagate(n) = FoldSet(PropagateTo, n, S)
  BY DEF commandPropagate
<1> HIDE DEF S, N
<1>6. FoldSet(PropagateTo, n, S) \in N
  BY <1>2, <1>3, <1>4, PropagateFold
<1> QED
  BY <1>5, <1>6 DEF N

\* The loop of masterCheckSlave keeps Fits.
LEMMA CheckLoopFits ==
  ASSUME NEW n, NEW g \in BOOLEAN, Fits(n, g), NEW silent \in SUBSET In(n, "live")
  PROVE  Fits(masterCheckSlave(n, silent), g)
<1> DEFINE N == {m \in Net : Fits(m, g) /\ SameUse(n, m)}
<1>1. silent \in SUBSET Addrs /\ \A c \in silent : n.client[c].state # "free"
  BY DEF In
<1>2. IsFiniteSet(silent)
  BY <1>1, FinitelyMany
<1>3. n \in N
  BY DEF Fits, SameUse
<1>4. ASSUME NEW c \in silent, NEW m \in N PROVE clientToclose(m, c) \in N
  <2>1. c \in Addrs /\ m.client[c].state # "free"
    BY <1>1 DEF SameUse
  <2>2. Fits(clientToclose(m, c), g) /\ SameUse(m, clientToclose(m, c))
    BY <2>1, TocloseFits
  <2>3. SameUse(n, clientToclose(m, c))
    BY <2>2 DEF SameUse
  <2> QED
    BY <2>2, <2>3 DEF Fits
<1>5. masterCheckSlave(n, silent) = FoldSet(LAMBDA c, m : clientToclose(m, c), n, silent)
  BY DEF masterCheckSlave
<1> HIDE DEF N
<1>6. FoldSet(LAMBDA c, m : clientToclose(m, c), n, silent) \in N
  BY <1>2, <1>3, <1>4, TocloseFold
<1> QED
  BY <1>5, <1>6 DEF N

\* A descriptor that is closed, with the events that the loop has left.
LEMMA CloseEffect ==
  ASSUME NEW n \in Net, NEW fd \in Fds \cup {Listen}, NEW c \in Addrs
  PROVE  LET m == CloseFd(n, fd) IN
         /\ ChangedAt(n, m, fd, c)
         /\ m.mask = n.mask /\ m.data = n.data /\ m.client = n.client
         /\ fd \in Fds => m.interest[fd] = {}
<1> DEFINE sock == [n.sock EXCEPT ![fd] = NoSock]
           interest == [n.interest EXCEPT ![fd] = {}]
           m == CloseFd(n, fd)
<1>1. m = [[n EXCEPT !.sock = sock] EXCEPT !.interest = interest]
  BY DEF CloseFd, Net
<1>2. /\ sock \in [Fds -> Sock] /\ interest \in [Fds -> SUBSET Bits]
      /\ \A f \in Fds \ {fd} : sock[f] = n.sock[f] /\ interest[f] = n.interest[f]
      /\ fd \in Fds => interest[fd] = {}
  BY ClosedTypes DEF Net
<1> HIDE DEF sock, interest, m
<1>3. /\ m \in Net /\ m.mask = n.mask /\ m.data = n.data /\ m.client = n.client
      /\ m.sock = sock /\ m.interest = interest
  BY <1>1, <1>2 DEF Net
<1> QED
  BY <1>2, <1>3 DEF ChangedAt, m

\* freeClient empties what the loop and epoll have of the descriptor.
LEMMA FreeEffect ==
  ASSUME NEW n \in Net, NEW c \in Addrs
  PROVE  LET m == freeClient(n, c)
             fd == n.client[c].fd IN
         /\ ChangedAt(n, m, fd, c) /\ m.client[c] = NoClient
         /\ \A g \in BOOLEAN : fd \in Fds /\ Here(n, fd, c, g) => m.mask[fd] = {} /\ m.interest[fd] = {}
<1> DEFINE fd == n.client[c].fd
           m1 == aeDeleteFileEvent(n, fd, "r")
           m2 == aeDeleteFileEvent(m1, fd, "w")
           m3 == CloseFd(m2, fd)
           m4 == [m3 EXCEPT !.client = [m3.client EXCEPT ![c] = NoClient]]
<1>0. fd \in Fds \cup {Listen} /\ "r" \in Bits /\ "w" \in Bits
  BY DEF Net, Client, Bits
<1>1. ChangedAt(n, m1, fd, c)
  BY <1>0, DeleteEffect
<1>2. m1 \in Net
  BY <1>1 DEF ChangedAt
<1>3. ASSUME NEW g \in BOOLEAN, fd \in Fds, Here(n, fd, c, g)
      PROVE  Here(m1, fd, c, g) /\ m1.mask[fd] = n.mask[fd] \ {"r"}
  BY <1>0, <1>3, DeleteHere
<1> HIDE DEF m1
<1>4. ChangedAt(m1, m2, fd, c)
  BY <1>0, <1>2, DeleteEffect
<1>5. m2 \in Net
  BY <1>4 DEF ChangedAt
<1>6. ASSUME NEW g \in BOOLEAN, fd \in Fds, Here(n, fd, c, g)
      PROVE  m2.mask[fd] = {}
  <2>1. Here(m1, fd, c, g) /\ m1.mask[fd] = n.mask[fd] \ {"r"}
    BY <1>3, <1>6
  <2>2. m2.mask[fd] = m1.mask[fd] \ {"w"}
    BY <1>0, <1>6, <2>1, DeleteHere
  <2>3. n.mask[fd] \subseteq {"r", "w"}
    BY <1>6 DEF Net, Bits
  <2> QED
    BY <2>1, <2>2, <2>3
<1> HIDE DEF m2
<1>7. /\ ChangedAt(m2, m3, fd, c) /\ m3.mask = m2.mask
      /\ fd \in Fds => m3.interest[fd] = {}
  BY <1>0, <1>5, CloseEffect
<1>8. m3 \in Net
  BY <1>7 DEF ChangedAt
<1>9. freeClient(n, c) = m4
  BY <1>8 DEF freeClient, m1, m2, Net
<1> HIDE DEF m3
<1>10. /\ m4 \in Net /\ m4.mask = m3.mask /\ m4.interest = m3.interest
       /\ m4.data = m3.data /\ m4.sock = m3.sock
       /\ m4.client[c] = NoClient /\ \A d \in Addrs \ {c} : m4.client[d] = m3.client[d]
  BY <1>8, ClosedTypes DEF Net
<1> HIDE DEF m4
<1>11. ChangedAt(m3, m4, fd, c)
  BY <1>10 DEF ChangedAt
<1> HIDE DEF fd
<1>12. ChangedAt(n, m4, fd, c)
  <2>1. ChangedAt(n, m2, fd, c)
    BY <1>1, <1>4, ChangedTwice
  <2>2. ChangedAt(n, m3, fd, c)
    BY <1>7, <2>1, ChangedTwice
  <2> QED
    BY <1>11, <2>2, ChangedTwice
<1>13. \A g \in BOOLEAN : fd \in Fds /\ Here(n, fd, c, g) => m4.mask[fd] = {} /\ m4.interest[fd] = {}
  BY <1>6, <1>7, <1>10
<1> QED
  BY <1>9, <1>10, <1>12, <1>13 DEF fd

\* freeClient keeps Fits.
LEMMA FreeFits ==
  ASSUME NEW n, NEW g \in BOOLEAN, Fits(n, g), NEW c \in Addrs, n.client[c].state # "free"
  PROVE  Fits(freeClient(n, c), g)
<1> DEFINE fd == n.client[c].fd
           m == freeClient(n, c)
<1>1. n \in Net /\ fd \in Fds /\ Here(n, fd, c, g)
  BY FitsHere DEF Fits
<1>2. ChangedAt(n, m, fd, c) /\ m.client[c] = NoClient /\ m.mask[fd] = {} /\ m.interest[fd] = {}
  BY <1>1, FreeEffect
<1> HIDE DEF m
<1>3. FdFits(m, fd, g)
  BY <1>2 DEF FdFits
<1>4. ClientFits(m, c, g) /\ m.client[c].state = "free"
  BY <1>2 DEF ClientFits, NoClient
<1>5. n.client[c].fd = fd
  OBVIOUS
<1> HIDE DEF fd
<1>6. Fits(m, g)
  BY <1>1, <1>2, <1>3, <1>4, <1>5, LocalChange
<1> QED
  BY <1>6 DEF m

\* closeClients frees every marked client once: those that it has not come to
\* are as they were.
LEMMA CloseLoopFits ==
  ASSUME NEW n, NEW g \in BOOLEAN, Fits(n, g)
  PROVE  Fits(closeClients(n), g)
<1> DEFINE S == In(n, "marked")
<1>1. S \in SUBSET Addrs /\ n \in Net
  BY DEF In, Fits
<1>2. IsFiniteSet(S) /\ \A c \in S : n.client[c].state = "marked"
  BY <1>1, FinitelyMany DEF In
<1>3. \A c \in S, m \in Net : freeClient(m, c) \in Net
  <2> SUFFICES ASSUME NEW c \in S, NEW m \in Net PROVE freeClient(m, c) \in Net
    OBVIOUS
  <2>1. c \in Addrs
    BY <1>1
  <2>2. ChangedAt(m, freeClient(m, c), m.client[c].fd, c)
    BY <2>1, FreeEffect
  <2> QED
    BY <2>2 DEF ChangedAt
<1>4. closeClients(n) = Freed(n, S)
  BY DEF closeClients, Freed
<1> HIDE DEF S
<1>5. PICK f \in [SUBSET S -> Net] :
        /\ f[{}] = n
        /\ \A s \in SUBSET S : s # {} =>
             Picked(s) \in s /\ f[s] = freeClient(f[s \ {Picked(s)}], Picked(s))
        /\ Freed(n, S) = f[S]
  <2>1. \E f \in [SUBSET S -> Net] : FreeSteps(n, S, f)
    BY <1>1, <1>2, <1>3, FreeFold
  <2> QED
    BY <2>1 DEF FreeSteps
<1> DEFINE Good == {s \in SUBSET S :
                      Fits(f[s], g) /\ \A c \in Addrs \ s : f[s].client[c] = n.client[c]}
<1>6. ASSUME NEW s \in SUBSET S, \A x \in s : s \ {x} \in Good PROVE s \in Good
  <2>1. CASE s = {}
    BY <1>5, <2>1
  <2>2. CASE s # {}
    <3> DEFINE c == Picked(s)
               k == f[s \ {c}]
    <3>1. c \in s /\ f[s] = freeClient(k, c) /\ c \in Addrs /\ c \in S
      BY <1>1, <1>5, <2>2
    <3> HIDE DEF c
    <3>2. s \ {c} \in Good
      BY <1>6, <3>1
    <3>3. Fits(k, g) /\ \A d \in Addrs \ (s \ {c}) : k.client[d] = n.client[d]
      BY <3>2
    <3> HIDE DEF k
    <3>4. k.client[c].state # "free" /\ k \in Net
      BY <1>2, <3>1, <3>3 DEF Fits
    <3>5. Fits(f[s], g)
      BY <3>1, <3>3, <3>4, FreeFits
    <3>6. ChangedAt(k, f[s], k.client[c].fd, c)
      BY <3>1, <3>4, FreeEffect
    <3>7. \A d \in Addrs \ s : f[s].client[d] = n.client[d]
      BY <3>1, <3>3, <3>6 DEF ChangedAt
    <3> QED
      BY <3>5, <3>7
  <2> QED
    BY <2>1, <2>2
<1> HIDE DEF Good
<1>7. \A s \in SUBSET S : s \in Good
  BY <1>2, <1>6, SetInduction
<1>8. S \in Good
  BY <1>7
<1> QED
  BY <1>4, <1>5, <1>8 DEF Good

(***************************************************************************)
(* The actions.                                                            *)
(***************************************************************************)
LEMMA AsksFits ==
  ASSUME NEW n, NEW g \in BOOLEAN, Fits(n, g), NEW c \in Addrs, n.client[c].state # "free"
  PROVE  /\ Fits([n EXCEPT !.client[c].toclose = TRUE], g)
         /\ SameUse(n, [n EXCEPT !.client[c].toclose = TRUE])
         /\ Fits([n EXCEPT !.client[c].slave = TRUE], g)
         /\ SameUse(n, [n EXCEPT !.client[c].slave = TRUE])
         /\ Fits([n EXCEPT !.client[c].sync = TRUE], g)
         /\ SameUse(n, [n EXCEPT !.client[c].sync = TRUE])
<1> DEFINE x == [n.client[c] EXCEPT !.toclose = TRUE]
           y == [n.client[c] EXCEPT !.slave = TRUE]
           z == [n.client[c] EXCEPT !.sync = TRUE]
           old(w) == w \in Client /\ w.state = n.client[c].state /\ w.fd = n.client[c].fd
                       /\ w.out = n.client[c].out
<1>1. n \in Net
  BY DEF Fits
<1>2. old(x) /\ old(y) /\ old(z)
  BY <1>1 DEF Net, Client
<1>3. /\ [n EXCEPT !.client[c].toclose = TRUE] = [n EXCEPT !.client = [n.client EXCEPT ![c] = x]]
      /\ [n EXCEPT !.client[c].slave = TRUE] = [n EXCEPT !.client = [n.client EXCEPT ![c] = y]]
      /\ [n EXCEPT !.client[c].sync = TRUE] = [n EXCEPT !.client = [n.client EXCEPT ![c] = z]]
  BY <1>1 DEF Net
<1> HIDE DEF x, y, z
<1>4. ASSUME NEW w, old(w)
      PROVE  Fits([n EXCEPT !.client = [n.client EXCEPT ![c] = w]], g)
               /\ SameUse(n, [n EXCEPT !.client = [n.client EXCEPT ![c] = w]])
  BY <1>4, FieldFits
<1> QED
  BY <1>2, <1>3, <1>4

\* Processing a request keeps Fits.
LEMMA QueryFits ==
  ASSUME NEW n, NEW g \in BOOLEAN, Fits(n, g), NEW c \in Addrs, n.client[c].state # "free",
         NEW req \in Request
  PROVE  Fits(processClientQueryBuf(n, c, req), g)
<1> DEFINE asked == CASE req = "BYE"      -> [n EXCEPT !.client[c].toclose = TRUE]
                      [] req = "REPLCONF" -> [n EXCEPT !.client[c].slave = TRUE]
                      [] req = "SYNC"     -> [n EXCEPT !.client[c].sync = TRUE]
                      [] req = "EXEC"     -> Answered(n, c)
                      [] req = "SET"      -> commandPropagate(n)
                      [] OTHER            -> n
<1>1. Fits(asked, g) /\ SameUse(n, asked)
  <2>1. CASE req \in {"BYE", "REPLCONF", "SYNC"}
    BY <2>1, AsksFits
  <2>2. CASE req = "EXEC"
    BY <2>2, AnsweredFits
  <2>3. CASE req = "SET"
    BY <2>3, PropagateLoopFits
  <2>4. CASE req = "PING"
    BY <2>4 DEF SameUse
  <2> QED
    BY <2>1, <2>2, <2>3, <2>4 DEF Request
<1>2. processClientQueryBuf(n, c, req) = Answered(asked, c)
  BY DEF processClientQueryBuf
<1> HIDE DEF asked
<1>3. asked.client[c].state # "free"
  BY <1>1 DEF SameUse
<1> QED
  BY <1>1, <1>2, <1>3, AnsweredFits

\* A socket is written, and the client marked that asked for it.
LEMMA SentHere ==
  ASSUME NEW n, NEW g \in BOOLEAN, NEW fd \in Fds, NEW c \in Addrs, Here(n, fd, c, g)
  PROVE  LET m == Sent(n, fd, c) IN
         /\ ChangedAt(n, m, fd, c) /\ Here(m, fd, c, g)
         /\ ~g /\ Reads(n, fd, c) => m.client[c].state = "marked" \/ Polled(m, fd, c)
<1> DEFINE x == [n.client[c] EXCEPT !.out = FALSE, !.sync = FALSE]
           k == [n EXCEPT !.client = [n.client EXCEPT ![c] = x]]
           l == aeDeleteFileEvent(k, fd, "w")
           m == Sent(n, fd, c)
<1>0. n \in Net
  BY DEF Here
<1>1. x \in Client /\ x.state = n.client[c].state /\ x.state # "free" /\ x.fd = fd /\ x.out = FALSE
  BY <1>0 DEF Here, Net, Client
<1>2. m = IF l.client[c].toclose THEN clientToclose(l, c) ELSE l
  <2>1. [n EXCEPT !.client[c].out = FALSE, !.client[c].sync = FALSE] = k
    BY <1>0 DEF Net
  <2> QED
    BY <2>1 DEF Sent
<1> HIDE DEF x, m
<1>3. ChangedAt(n, k, fd, c) /\ Here(k, fd, c, g) /\ k.client[c] = x
      /\ k.mask = n.mask /\ k.interest = n.interest
  BY <1>1, SetClient
<1> HIDE DEF k
<1>4. /\ ChangedAt(k, l, fd, c) /\ Here(l, fd, c, g)
      /\ l.client = k.client /\ l.mask[fd] = k.mask[fd] \ {"w"}
      /\ k.interest[fd] # {} => l.interest[fd] = k.mask[fd] \ {"w"}
  <2>1. "w" \in Bits
    BY DEF Bits
  <2> QED
    BY <1>3, <2>1, DeleteHere
<1>5. ChangedAt(n, l, fd, c)
  BY <1>3, <1>4, ChangedTwice
<1>6. ~g /\ Reads(n, fd, c) => l.client[c].state = "marked" \/ Polled(l, fd, c)
  <2> SUFFICES ASSUME ~g, "r" \in n.mask[fd] PROVE Polled(l, fd, c)
    BY <1>1, <1>3, <1>4 DEF Reads
  <2>1. k.interest[fd] # {}
    BY <1>3 DEF Here, FdFits
  <2>2. n.mask[fd] \subseteq {"r", "w"}
    BY <1>0 DEF Net, Bits
  <2>3. l.interest[fd] = {"r"} /\ "r" \in l.mask[fd]
    BY <1>3, <1>4, <2>1, <2>2
  <2> QED
    BY <1>1, <1>3, <1>4, <2>3 DEF Polled
<1> HIDE DEF l
<1>7. CASE l.client[c].toclose
  <2>1. ChangedAt(l, m, fd, c) /\ Here(m, fd, c, g) /\ m.client[c].state = "marked"
    BY <1>2, <1>4, <1>7, ClientToclose
  <2>2. ChangedAt(n, m, fd, c)
    BY <1>5, <2>1, ChangedTwice
  <2> QED
    BY <2>1, <2>2 DEF m
<1>8. CASE ~l.client[c].toclose
  <2>1. m = l
    BY <1>2, <1>8
  <2> QED
    BY <1>4, <1>5, <1>6, <2>1 DEF m
<1> QED
  BY <1>7, <1>8

\* The descriptor that accept returns is of no client.
LEMMA AcceptFits ==
  ASSUME EventLoopInv, NEW c \in Addrs, NEW fd \in Fds, acceptTcpHandler(c, fd)
  PROVE  Fits(net', cut')
<1> DEFINE g == cut
           x == [NoClient EXCEPT !.state = "live", !.fd = fd]
           y == [NoSock EXCEPT !.open = TRUE]
           sock == [net.sock EXCEPT ![fd] = y]
           client == [net.client EXCEPT ![c] = x]
           k == [[net EXCEPT !.sock = sock] EXCEPT !.client = client]
           m == Register(k, c, "r")
<1>0. net \in Net /\ g \in BOOLEAN /\ Fits(net, g)
  BY DEF EventLoopInv, Fits, TypeOK
<1>1. /\ x \in Client /\ x.state = "live" /\ x.fd = fd /\ x.out = FALSE
      /\ y \in Sock /\ y.open
  BY DEF NoClient, NoSock, Client, Sock
<1>2. net.client[c].state = "free" /\ ~net.sock[fd].open /\ cut' = cut
  BY DEF acceptTcpHandler, In, Lowest
<1>3. net' = m
  BY <1>0 DEF acceptTcpHandler, Net
<1> HIDE DEF x, y
<1>4. /\ sock \in [Fds -> Sock] /\ client \in [Addrs -> Client]
      /\ sock[fd] = y /\ \A f \in Fds \ {fd} : sock[f] = net.sock[f]
      /\ client[c] = x /\ \A d \in Addrs \ {c} : client[d] = net.client[d]
  BY <1>0, <1>1 DEF Net
<1> HIDE DEF sock, client
<1>5. /\ k \in Net /\ k.mask = net.mask /\ k.data = net.data /\ k.interest = net.interest
      /\ k.sock = sock /\ k.client = client
  BY <1>0, <1>4 DEF Net
<1> HIDE DEF k
<1>6. ChangedAt(net, k, fd, c)
  BY <1>4, <1>5 DEF ChangedAt
<1>7. Here(k, fd, c, g)
  <2>1. FdFits(net, fd, g)
    BY <1>0 DEF Fits
  <2>2. FdFits(k, fd, g)
    BY <1>2, <1>4, <1>5, <2>1 DEF FdFits
  <2> QED
    BY <1>1, <1>4, <1>5, <2>2 DEF Here
<1>8. /\ ChangedAt(k, m, fd, c) /\ Here(m, fd, c, g)
      /\ \/ m.client[c].state = "marked"
         \/ m.client = k.client /\ m.mask[fd] = k.mask[fd] \cup {"r"} /\ m.interest[fd] = {"r"}
  <2>1. "r" \in Bits
    BY DEF Bits
  <2> QED
    BY <1>0, <1>7, <2>1, RegisterHere
<1> HIDE DEF m
<1>9. ChangedAt(net, m, fd, c)
  BY <1>6, <1>8, ChangedTwice
<1>10. m.client[c].state = "marked" \/ Polled(m, fd, c)
  BY <1>1, <1>4, <1>5, <1>8 DEF Polled
<1>11. FdFits(m, fd, g) /\ m.client[c].fd = fd /\ ClientFits(m, c, g)
  BY <1>8, <1>10 DEF Here, ClientFits
<1> HIDE DEF g
<1>12. Fits(m, g)
  BY <1>0, <1>2, <1>9, <1>11, LocalChange
<1> QED
  BY <1>2, <1>3, <1>12 DEF g

\* The handler is called with the client of the descriptor.
LEMMA Called ==
  ASSUME EventLoopInv, NEW fd \in Fds, NEW bit, Calls(fd, bit)
  PROVE  /\ net \in Net /\ cut \in BOOLEAN /\ Fits(net, cut)
         /\ net.data[fd] \in Addrs /\ net.client[net.data[fd]].state # "free"
         /\ net.client[net.data[fd]].fd = fd
         /\ Here(net, fd, net.data[fd], cut)
         /\ ~cut => Reads(net, fd, net.data[fd])
<1>1. net \in Net /\ cut \in BOOLEAN /\ Fits(net, cut)
  BY DEF EventLoopInv, Fits, TypeOK
<1>2. net.mask[fd] # {}
  BY DEF Calls
<1>3. net.data[fd] \in Addrs /\ net.client[net.data[fd]].state # "free"
      /\ net.client[net.data[fd]].fd = fd
  BY <1>1, <1>2, CalledHere
<1>4. Here(net, fd, net.data[fd], cut) /\ (~cut => Reads(net, fd, net.data[fd]))
  BY <1>1, <1>3, FitsHere
<1> QED
  BY <1>1, <1>3, <1>4

\* Reading SO_ERROR keeps Fits.
LEMMA ErrReadFits ==
  ASSUME NEW n, NEW g \in BOOLEAN, Fits(n, g), NEW fd \in Fds
  PROVE  Fits(ErrRead(n, fd), g) /\ SameUse(n, ErrRead(n, fd))
<1> DEFINE sock == [n.sock EXCEPT ![fd] = [n.sock[fd] EXCEPT !.err = FALSE]]
<1>0. n \in Net
  BY DEF Fits
<1>1. [n.sock[fd] EXCEPT !.err = FALSE] \in Sock
      /\ [n.sock[fd] EXCEPT !.err = FALSE].open = n.sock[fd].open
  BY <1>0 DEF Net, Sock
<1>2. sock \in [Fds -> Sock] /\ \A f \in Fds : sock[f].open = n.sock[f].open
  BY <1>0, <1>1 DEF Net
<1>3. ErrRead(n, fd) = [n EXCEPT !.sock = sock]
  BY <1>0 DEF ErrRead, Net
<1> HIDE DEF sock
<1> QED
  BY <1>2, <1>3, SocksFit

\* The handler of a readable socket.
LEMMA ReadFits ==
  ASSUME EventLoopInv, NEW fd \in Fds, NEW req \in Request, readFromClient(fd, req)
  PROVE  Fits(net', cut')
<1> DEFINE c == net.data[fd]
           g == cut
           y == [net.sock[fd] EXCEPT !.input = FALSE]
           sock == [net.sock EXCEPT ![fd] = y]
           k == [net EXCEPT !.sock = sock]
<1>1. /\ net \in Net /\ g \in BOOLEAN /\ Fits(net, g)
      /\ c \in Addrs /\ net.client[c].state # "free" /\ net.client[c].fd = fd
  BY Called DEF readFromClient
<1>2. g' = g
  BY DEF readFromClient
<1>3. CASE checkSockReadWrite(net, fd)
  <2>1. net' = processClientQueryBuf(k, c, req)
    BY <1>1, <1>3 DEF readFromClient, Net
  <2>2. y \in Sock /\ y.open = net.sock[fd].open
    <3>1. net.sock[fd] \in Sock
      BY <1>1 DEF Net
    <3> QED
      BY <3>1 DEF Sock
  <2> HIDE DEF y
  <2>3. sock \in [Fds -> Sock] /\ \A f \in Fds : sock[f].open = net.sock[f].open
    BY <1>1, <2>2 DEF Net
  <2> HIDE DEF sock, g, c
  <2>4. Fits(k, g) /\ SameUse(net, k)
    BY <1>1, <2>3, SocksFit
  <2> HIDE DEF k
  <2>5. k.client[c].state # "free"
    BY <1>1, <2>4 DEF SameUse
  <2>6. Fits(processClientQueryBuf(k, c, req), g)
    BY <1>1, <2>4, <2>5, QueryFits
  <2> QED
    BY <1>2, <2>1, <2>6 DEF g
<1>4. CASE ~checkSockReadWrite(net, fd)
  <2>1. net' = clientToclose(ErrRead(net, fd), c)
    BY <1>4 DEF readFromClient
  <2> HIDE DEF g, c
  <2>2. Fits(ErrRead(net, fd), g) /\ SameUse(net, ErrRead(net, fd))
    BY <1>1, ErrReadFits
  <2>3. ErrRead(net, fd).client[c].state # "free"
    BY <1>1, <2>2 DEF SameUse
  <2>4. Fits(clientToclose(ErrRead(net, fd), c), g)
    BY <1>1, <2>2, <2>3, TocloseFits
  <2> QED
    BY <1>2, <2>1, <2>4 DEF g
<1> QED
  BY <1>3, <1>4

\* The handler of a writable socket.
LEMMA WriteFits ==
  ASSUME EventLoopInv, NEW fd \in Fds, sendToClient(fd)
  PROVE  Fits(net', cut')
<1> DEFINE c == net.data[fd]
           g == cut
<1>1. /\ net \in Net /\ g \in BOOLEAN /\ Fits(net, g)
      /\ c \in Addrs /\ net.client[c].state # "free" /\ net.client[c].fd = fd
      /\ Here(net, fd, c, g) /\ (~g => Reads(net, fd, c))
  BY Called DEF sendToClient, WriteFails, WriteKills, SendAll, SendPart, RdbCut
<1>2. CASE WriteFails(fd)
  <2>1. net' = clientToclose(ErrRead(net, fd), c) /\ cut' = g
    BY <1>2 DEF WriteFails
  <2> HIDE DEF g, c
  <2>2. Fits(ErrRead(net, fd), g) /\ SameUse(net, ErrRead(net, fd))
    BY <1>1, ErrReadFits
  <2>3. ErrRead(net, fd).client[c].state # "free"
    BY <1>1, <2>2 DEF SameUse
  <2>4. Fits(clientToclose(ErrRead(net, fd), c), g)
    BY <1>1, <2>2, <2>3, TocloseFits
  <2> QED
    BY <2>1, <2>4
<1>3. CASE WriteKills(fd) \/ SendPart(fd)
  BY <1>1, <1>3 DEF WriteKills, SendPart
<1>4. CASE SendAll(fd)
  <2> DEFINE m == Sent(net, fd, c)
  <2>1. net' = m /\ cut' = g
    BY <1>4 DEF SendAll
  <2> HIDE DEF g, c
  <2>2. ChangedAt(net, m, fd, c) /\ Here(m, fd, c, g)
        /\ (~g => m.client[c].state = "marked" \/ Polled(m, fd, c))
    BY <1>1, SentHere
  <2> HIDE DEF m
  <2>3. Fits(m, g)
    BY <1>1, <2>2, HereFits
  <2> QED
    BY <2>1, <2>3
<1>5. CASE RdbCut(fd)
  <2> DEFINE k == CloseFd(net, fd)
             m == Sent(k, fd, c)
  <2>1. net' = m /\ cut' = TRUE
    BY <1>5 DEF RdbCut
  <2> HIDE DEF c
  <2>2. Fits(net, TRUE) /\ Here(net, fd, c, TRUE)
    BY <1>1 DEF Fits, FdFits, ClientFits, Apart, Here
  <2>3. /\ ChangedAt(net, k, fd, c)
        /\ k.mask = net.mask /\ k.data = net.data /\ k.client = net.client
        /\ k.interest[fd] = {}
    BY <1>1, CloseEffect
  <2> HIDE DEF k
  <2>4. k \in Net
    BY <2>3 DEF ChangedAt
  <2>5. Here(k, fd, c, TRUE)
    BY <2>2, <2>3, <2>4 DEF Here, FdFits
  <2>6. ChangedAt(k, m, fd, c) /\ Here(m, fd, c, TRUE)
    BY <1>1, <2>5, SentHere
  <2> HIDE DEF m
  <2>7. ChangedAt(net, m, fd, c)
    BY <2>3, <2>6, ChangedTwice
  <2>8. Fits(m, TRUE)
    BY <1>1, <2>2, <2>6, <2>7, HereFits
  <2> QED
    BY <2>1, <2>8
<1> QED
  BY <1>2, <1>3, <1>4, <1>5 DEF sendToClient

\* The return of epoll_wait.
LEMMA PollFits ==
  ASSUME EventLoopInv, aeApiPoll
  PROVE  Fits(net', cut')
<1> DEFINE g == cut
           sock == [fd \in Fds |-> IF net.interest[fd] # {}
                                     THEN [net.sock[fd] EXCEPT !.err = FALSE] ELSE net.sock[fd]]
<1>1. net \in Net /\ g \in BOOLEAN /\ Fits(net, g)
  BY DEF EventLoopInv, Fits, TypeOK
<1>2. sock \in [Fds -> Sock] /\ \A fd \in Fds : sock[fd].open = net.sock[fd].open
  <2>1. \A fd \in Fds : net.sock[fd] \in Sock
    BY <1>1 DEF Net
  <2>2. \A y \in Sock : [y EXCEPT !.err = FALSE] \in Sock /\ [y EXCEPT !.err = FALSE].open = y.open
    BY DEF Sock
  <2> QED
    BY <2>1, <2>2
<1>3. net' = [net EXCEPT !.sock = sock] /\ cut' = g
  BY <1>1 DEF aeApiPoll, Net
<1> HIDE DEF sock, g
<1> QED
  BY <1>1, <1>2, <1>3, SocksFit

\* What the peers do meanwhile.
LEMMA PeerFits ==
  ASSUME EventLoopInv, Peer
  PROVE  Fits(net', cut')
<1> DEFINE g == cut
<1>1. net \in Net /\ g \in BOOLEAN /\ Fits(net, g)
  BY DEF EventLoopInv, Fits, TypeOK
<1>2. PICK fd \in Fds, y \in Sock : PeerDoes(fd, y) /\ y.open
  <2>1. PICK fd \in Fds : PeerSends(fd) \/ PeerCloses(fd) \/ PeerResets(fd)
    BY DEF Peer
  <2>2. net.sock[fd] \in Sock /\ net.sock[fd].open
    BY <1>1, <2>1 DEF Net, PeerSends, PeerCloses, PeerResets, PeerDoes
  <2>3. /\ [net.sock[fd] EXCEPT !.input = TRUE] \in Sock
        /\ [net.sock[fd] EXCEPT !.input = TRUE].open
        /\ [net.sock[fd] EXCEPT !.peer = "closed"] \in Sock
        /\ [net.sock[fd] EXCEPT !.peer = "closed"].open
        /\ [open |-> TRUE, peer |-> "reset", input |-> FALSE, err |-> TRUE] \in Sock
        /\ [open |-> TRUE, peer |-> "reset", input |-> FALSE, err |-> TRUE].open
    BY <2>2 DEF Sock
  <2> QED
    BY <2>1, <2>3 DEF PeerSends, PeerCloses, PeerResets
<1> DEFINE sock == [net.sock EXCEPT ![fd] = y]
<1>3. net.sock[fd].open /\ net.sock[fd].open \in BOOLEAN /\ y.open \in BOOLEAN
  BY <1>1, <1>2 DEF PeerDoes, Net, Sock
<1>4. sock \in [Fds -> Sock] /\ \A f \in Fds : sock[f].open = net.sock[f].open
  BY <1>1, <1>2, <1>3 DEF Net
<1>5. net' = [net EXCEPT !.sock = sock] /\ cut' = g
  BY <1>1, <1>2 DEF PeerDoes, Net
<1> HIDE DEF sock, g
<1> QED
  BY <1>1, <1>4, <1>5, SocksFit

\* The timer.
LEMMA CronFits ==
  ASSUME EventLoopInv, serverCron
  PROVE  Fits(net', cut')
<1> DEFINE g == cut
<1>1. g \in BOOLEAN /\ Fits(net, g)
  BY DEF EventLoopInv, TypeOK
<1>2. PICK silent \in SUBSET In(net, "live") : net' = closeClients(masterCheckSlave(net, silent))
  BY DEF serverCron
<1>3. cut' = g
  BY DEF serverCron
<1> HIDE DEF g
<1>4. Fits(masterCheckSlave(net, silent), g)
  BY <1>1, CheckLoopFits
<1>5. Fits(closeClients(masterCheckSlave(net, silent)), g)
  BY <1>1, <1>4, CloseLoopFits
<1> QED
  BY <1>2, <1>3, <1>5

\* The events of one round are those of registered descriptors.
LEMMA FiredType ==
  ASSUME EventLoopInv, [Next]_vars
  PROVE  /\ fired' \subseteq ((Fds \cup {Listen}) \X Bits)
         /\ phase' \in {"poll", "files"} /\ (phase' = "poll" => fired' = {})
         /\ cut' \in BOOLEAN /\ dead' \in BOOLEAN
<1> USE DEF EventLoopInv, TypeOK
<1>1. CASE aeApiPoll
  <2>1. PICK connects \in SUBSET {<<Listen, "r">>} :
          fired' = connects \cup UNION {{<<fd, bit>> : bit \in Ready(fd)} : fd \in Fds}
    BY <1>1 DEF aeApiPoll
  <2>2. \A fd \in Fds : Ready(fd) \subseteq Bits
    BY DEF Ready, Net
  <2>3. connects \subseteq ((Fds \cup {Listen}) \X Bits)
    BY DEF Bits
  <2>4. UNION {{<<fd, bit>> : bit \in Ready(fd)} : fd \in Fds} \subseteq ((Fds \cup {Listen}) \X Bits)
    BY <2>2
  <2> QED
    BY <1>1, <2>1, <2>3, <2>4 DEF aeApiPoll
<1>2. CASE serverCron \/ NotDue
  BY <1>2 DEF serverCron, NotDue, RoundEnds
<1>3. CASE Peer
  BY <1>3 DEF Peer, PeerSends, PeerCloses, PeerResets, PeerDoes
<1>4. CASE Handler
  <2>1. /\ fired' \subseteq fired /\ phase = "files" /\ phase' = phase
    BY <1>4 DEF Handler, acceptTcpHandler, acceptFails, Skip, readFromClient, sendToClient,
         WriteFails, WriteKills, SendAll, SendPart, RdbCut, Calls, Handles
  <2>2. cut' \in BOOLEAN /\ dead' \in BOOLEAN
    BY <1>4 DEF Handler, acceptTcpHandler, acceptFails, Skip, readFromClient, sendToClient,
         WriteFails, WriteKills, SendAll, SendPart, RdbCut
  <2> QED
    BY <2>1, <2>2
<1>5. CASE UNCHANGED vars
  BY <1>5 DEF vars
<1> QED
  BY <1>1, <1>2, <1>3, <1>4, <1>5 DEF Next

\* Every handler keeps the invariant.
LEMMA EventLoopInductive == EventLoopInv /\ [Next]_vars => EventLoopInv'
<1> SUFFICES ASSUME EventLoopInv, [Next]_vars PROVE EventLoopInv'
  OBVIOUS
<1>1. Fits(net', cut')
  <2>1. CASE Handler
    <3>1. ASSUME net' = net /\ cut' = cut PROVE Fits(net', cut')
      BY <3>1 DEF EventLoopInv
    <3>2. acceptFails \/ (\E fd \in Fds, bit \in Bits : Skip(fd, bit)) => net' = net /\ cut' = cut
      BY DEF acceptFails, Skip
    <3> QED
      BY <2>1, <3>1, <3>2, AcceptFits, ReadFits, WriteFits DEF Handler
  <2>2. CASE NotDue \/ UNCHANGED vars
    BY <2>2 DEF NotDue, vars, EventLoopInv
  <2> QED
    BY <2>1, <2>2, PollFits, PeerFits, CronFits DEF Next
<1>2. net' \in Net
  BY <1>1 DEF Fits
<1>3. TypeOK'
  BY <1>2, FiredType DEF TypeOK, Net, Sock, Client
<1> QED
  BY <1>1, <1>3 DEF EventLoopInv

\* initServer establishes it.
LEMMA EventLoopInit == Init => EventLoopInv
<1> SUFFICES ASSUME Init PROVE EventLoopInv
  OBVIOUS
<1>1. /\ net \in Net /\ cut = FALSE /\ fired = {} /\ phase = "poll" /\ dead = FALSE
      /\ \A fd \in Fds : net.mask[fd] = {} /\ net.interest[fd] = {}
      /\ \A c \in Addrs : net.client[c].state = "free"
  BY ClosedTypes DEF Init, Net, NoClient
<1>2. Fits(net, cut)
  BY <1>1 DEF Fits, FdFits, ClientFits, Apart
<1>3. TypeOK
  BY <1>1 DEF TypeOK, Net, Sock, Client
<1> QED
  BY <1>2, <1>3 DEF EventLoopInv

\* The inductive invariant of the event loop.
LEMMA EventLoopInvariant == Spec => []EventLoopInv
BY EventLoopInit, EventLoopInductive, PTL DEF Spec

(***************************************************************************)
(* The theorems.                                                           *)
(***************************************************************************)
\* The tables of the loop and the clients keep their types, and no event is
\* left over when a round of aeMain ends.
THEOREM EventLoopTypeCorrect == Spec => []TypeOK
<1>1. EventLoopInv => TypeOK
  BY DEF EventLoopInv
<1> QED
  BY <1>1, EventLoopInvariant, PTL

\* For any number of connections, whatever peers and errors do: epoll waits for
\* one event of a descriptor at most, of which the loop has a handler; epoll
\* and the loop know the same descriptors as long as no transfer of a snapshot
\* was cut; and no handler is called with a client that has been freed or has
\* another descriptor.
THEOREM TablesStayInStep == Spec => []TablesAgree
<1>1. EventLoopInv => TablesAgree
  <2> SUFFICES ASSUME EventLoopInv, NEW fd \in Fds
               PROVE  /\ net.interest[fd] \subseteq net.mask[fd] /\ Cardinality(net.interest[fd]) <= 1
                      /\ ~cut => ~CtlFails(net, fd)
                      /\ net.mask[fd] # {} =>
                           net.data[fd] \in Addrs \ In(net, "free") /\ net.client[net.data[fd]].fd = fd
    BY DEF TablesAgree
  <2>1. FdFits(net, fd, cut)
    BY DEF EventLoopInv, Fits
  <2>2. Cardinality(net.interest[fd]) <= 1
    <3>1. Cardinality({}) = 0 /\ Cardinality({"r"}) = 1 /\ Cardinality({"w"}) = 1
      BY FS_EmptySet, FS_Singleton, Zenon
    <3>2. net.interest[fd] = {} \/ net.interest[fd] = {"r"} \/ net.interest[fd] = {"w"}
      BY <2>1 DEF FdFits
    <3>3. Cardinality(net.interest[fd]) = 0 \/ Cardinality(net.interest[fd]) = 1
      BY <3>1, <3>2
    <3> QED
      BY <3>3
  <2> QED
    BY <2>1, <2>2 DEF FdFits, CtlFails, In
<1> QED
  BY <1>1, EventLoopInvariant, PTL

\* Until a transfer is cut, every connection in use has an open descriptor, and
\* epoll waits for its next request, or else to write the reply it has.
THEOREM NobodyIsDeaf == Spec => []NobodyDeaf
<1>1. EventLoopInv => NobodyDeaf
  BY DEF EventLoopInv, Fits, ClientFits, Polled, NobodyDeaf, In
<1> QED
  BY <1>1, EventLoopInvariant, PTL
=============================================================================
