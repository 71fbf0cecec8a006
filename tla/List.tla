-------------------------------- MODULE List --------------------------------
(***************************************************************************)
(* Doubly linked lists (list.c) that share one memory, and the loop of     *)
(* closeClients (redis.c) that takes nodes out of the list it walks.       *)
(*                                                                         *)
(* The structures of all lists and the fields of all nodes are one record, *)
(* heap, and a function of the code is an operator from a heap to the next *)
(* one.  A function that walks a list while it changes one is a loop with  *)
(* an action per turn; nothing else runs until it ends.                    *)
(***************************************************************************)
EXTENDS Integers, FiniteSets, Sequences

CONSTANTS
  Lists, clients, clientsToClose,
  Nodes,      \* addresses of list nodes
  Values,     \* clients, or what else a list is of
  NULL, None,
  MaxNodes    \* bound on the nodes in use when any but closeClients takes one

Others == Lists \ {clients, clientsToClose}

ASSUME ListsAssumption == {clients, clientsToClose} \subseteq Lists /\ clients # clientsToClose
ASSUME NullAssumption == NULL \notin Nodes /\ None \notin Lists /\ None \notin Values
ASSUME MaxNodesAssumption == MaxNodes \in Nat

VARIABLES
  heap,       \* head, tail and len of the lists; prev, next, value of the nodes; nodes used
  loop,       \* the function that walks a list, its local variables, and where it is
  toClose,    \* the clients with CLIENT_TO_CLOSE
  call        \* ghost: the last call, its nodes named by their places

vars == <<heap, loop, toClose, call>>

(***************************************************************************)
(* list.c.                                                                 *)
(***************************************************************************)
Set(f, node, x) == IF node = NULL THEN f ELSE [f EXCEPT ![node] = x]

listCreateNode(h, node, val) ==
  [h EXCEPT !.prev[node] = NULL, !.next[node] = NULL, !.value[node] = val,
            !.used = @ \cup {node}]

listAddNodeHead(h, l, node) ==
  IF h.len[l] = 0
    THEN [h EXCEPT !.head[l] = node, !.tail[l] = node,
                   !.prev[node] = NULL, !.next[node] = NULL, !.len[l] = @ + 1]
    ELSE [h EXCEPT !.prev = [@ EXCEPT ![node] = NULL, ![h.head[l]] = node],
                   !.next[node] = h.head[l],
                   !.head[l] = node, !.len[l] = @ + 1]

listAddNodeTail(h, l, node) ==
  IF h.len[l] = 0
    THEN [h EXCEPT !.head[l] = node, !.tail[l] = node,
                   !.prev[node] = NULL, !.next[node] = NULL, !.len[l] = @ + 1]
    ELSE [h EXCEPT !.prev[node] = h.tail[l],
                   !.next = [@ EXCEPT ![node] = NULL, ![h.tail[l]] = node],
                   !.tail[l] = node, !.len[l] = @ + 1]

\* Mutant: the tail stays where it was.
InsertKeepingTail(h, l, old, node, after) ==
  LET p == IF after THEN old ELSE h.prev[old]
      x == IF after THEN h.next[old] ELSE old
  IN  [h EXCEPT !.prev = Set([@ EXCEPT ![node] = p], x, node),
                !.next = Set([@ EXCEPT ![node] = x], p, node),
                !.head[l] = IF ~after /\ @ = old THEN node ELSE @,
                !.len[l] = @ + 1]

listInsertNode(h, l, old, node, after) ==
  LET p == IF after THEN old ELSE h.prev[old]
      x == IF after THEN h.next[old] ELSE old
  IN  [h EXCEPT !.prev = Set([@ EXCEPT ![node] = p], x, node),
                !.next = Set([@ EXCEPT ![node] = x], p, node),
                !.tail[l] = IF after /\ @ = old THEN node ELSE @,
                !.head[l] = IF ~after /\ @ = old THEN node ELSE @,
                !.len[l] = @ + 1]

\* With free(node) its fields are gone: NULL stands for what is read there.
listDelNode(h, l, node) ==
  LET p == h.prev[node]
      x == h.next[node]
  IN  [h EXCEPT !.next = [Set(@, p, x) EXCEPT ![node] = NULL],
                !.prev = [Set(@, x, p) EXCEPT ![node] = NULL],
                !.value[node] = NULL,
                !.head[l] = IF p = NULL THEN x ELSE @,
                !.tail[l] = IF x = NULL THEN p ELSE @,
                !.used = @ \ {node}, !.len[l] = @ - 1]

\* Mutant: the first node becomes the last.
RotateBack(h, l) ==
  LET first == h.head[l]
      x     == h.next[first]
  IN  IF h.len[l] <= 1 THEN h
      ELSE [h EXCEPT !.head[l] = x, !.tail[l] = first,
                     !.prev = [@ EXCEPT ![x] = NULL, ![first] = h.tail[l]],
                     !.next = [@ EXCEPT ![first] = NULL, ![h.tail[l]] = first]]

listRotate(h, l) ==
  LET last == h.tail[l]
      p    == h.prev[last]
  IN  IF h.len[l] <= 1 THEN h
      ELSE [h EXCEPT !.tail[l] = p, !.head[l] = last,
                     !.next = [@ EXCEPT ![p] = NULL, ![last] = h.head[l]],
                     !.prev = [@ EXCEPT ![last] = NULL, ![h.head[l]] = last]]

\* Is chain where head and len times next lead?
Leads(h, l, chain) ==
  /\ h.len[l] > 0 => chain[1] = h.head[l]
  /\ \A i \in 1 .. h.len[l] - 1 : chain[i + 1] = h.next[chain[i]]
Chain(h, l) == CHOOSE chain \in [1 .. h.len[l] -> Nodes] : Leads(h, l, chain)
ChainSet(h, l) == {Chain(h, l)[i] : i \in 1 .. h.len[l]}

\* Frees the nodes that it meets, and the list, which the next listCreate
\* makes again.
listRelease(h, l) ==
  LET freed == ChainSet(h, l)
      Without(f) == [node \in Nodes |-> IF node \in freed THEN NULL ELSE f[node]]
  IN  [h EXCEPT !.next = Without(@), !.prev = Without(@), !.value = Without(@),
                !.head[l] = NULL, !.tail[l] = NULL, !.len[l] = 0, !.used = @ \ freed]

Contents(h) == [l \in Lists |-> [i \in 1 .. h.len[l] |-> h.value[Chain(h, l)[i]]]]
ValuesOf(l) == {heap.value[Chain(heap, l)[i]] : i \in 1 .. heap.len[l]}

(***************************************************************************)
(* Calls.  A caller has a node from a walk or from creating it.            *)
(***************************************************************************)
Call(op, l, i, v, m) == [op |-> op, list |-> l, at |-> i, val |-> v, to |-> m]
NoLoop == [op |-> "none", from |-> None, to |-> None, node |-> NULL, at |-> 0]
Idle == loop = NoLoop

Free == Nodes \ heap.used
HasRoom == Cardinality(heap.used) < MaxNodes
Takes == Idle /\ HasRoom
Done == UNCHANGED <<loop, toClose>>

AddNodeHead(l, node, v) ==
  /\ Takes
  /\ heap' = listAddNodeHead(listCreateNode(heap, node, v), l, node)
  /\ call' = Call("listAddNodeHead", l, 0, v, None)
  /\ Done

AddNodeTail(l, node, v) ==
  /\ Takes
  /\ heap' = listAddNodeTail(listCreateNode(heap, node, v), l, node)
  /\ call' = Call("listAddNodeTail", l, 0, v, None)
  /\ Done

InsertNode(l, i, node, v, after) ==
  /\ Takes
  /\ heap' = listInsertNode(listCreateNode(heap, node, v), l, Chain(heap, l)[i], node, after)
  /\ call' = Call(IF after THEN "listInsertNode after" ELSE "listInsertNode before",
                  l, i, v, None)
  /\ Done

DelNode(l, i) ==
  /\ Idle
  /\ heap' = listDelNode(heap, l, Chain(heap, l)[i])
  /\ call' = Call("listDelNode", l, i, None, None)
  /\ Done

Rotate(l) ==
  /\ Idle
  /\ heap' = listRotate(heap, l)
  /\ call' = Call("listRotate", l, 0, None, None)
  /\ Done

Release(l) ==
  /\ Idle
  /\ heap' = listRelease(heap, l)
  /\ call' = Call("listRelease", l, 0, None, None)
  /\ Done

(***************************************************************************)
(* listDup: the values of one list to the end of another.                  *)
(***************************************************************************)
Begins(op, l, m) ==
  /\ Idle
  /\ loop' = [op |-> op, from |-> l, to |-> m, node |-> heap.head[l], at |-> 1]
  /\ UNCHANGED <<heap, toClose, call>>

listDup(l, m) == l # m /\ Begins("listDup", l, m)

DupTurn(node) ==
  LET v == heap.value[loop.node] IN
  /\ loop.op = "listDup" /\ loop.node # NULL /\ HasRoom
  /\ heap' = listAddNodeTail(listCreateNode(heap, node, v), loop.to, node)
  /\ loop' = [loop EXCEPT !.node = heap.next[@], !.at = @ + 1]
  /\ call' = Call("listDup", loop.from, loop.at, v, loop.to)
  /\ UNCHANGED toClose

\* At the end of the list, or where there is no memory for a node.
DupEnds ==
  /\ loop.op = "listDup"
  /\ loop' = NoLoop
  /\ UNCHANGED <<heap, toClose, call>>

(***************************************************************************)
(* redis.c: clients come, are marked, and are freed by closeClients, which *)
(* moves them to a list of their own first.                                *)
(***************************************************************************)
acceptTcpHandler(node, c) ==
  /\ c \notin ValuesOf(clients)
  /\ AddNodeTail(clients, node, c)

clientToclose(c) ==
  /\ Idle /\ c \in ValuesOf(clients)
  /\ toClose' = toClose \cup {c}
  /\ UNCHANGED <<heap, loop, call>>

\* EXEC clears the other flags, REPLCONF sets one in place of all.
DropFlags(c) ==
  /\ Idle /\ c \in ValuesOf(clients)
  /\ toClose' = toClose \ {c}
  /\ UNCHANGED <<heap, loop, call>>

closeClients == Begins("mark", clients, clientsToClose)

\* Mutant: the next node is read when the node is gone.
MarkTurnFreed(node) ==
  LET v == heap.value[loop.node]
      moved == listDelNode(listAddNodeTail(listCreateNode(heap, node, v), loop.to, node),
                           loop.from, loop.node)
  IN
  /\ loop.op = "mark" /\ loop.node # NULL /\ v \in toClose
  /\ heap' = moved
  /\ loop' = [loop EXCEPT !.node = moved.next[@]]
  /\ call' = Call("closeClients", loop.from, loop.at, v, loop.to)
  /\ UNCHANGED toClose

MarkTurn(node) ==
  LET v == heap.value[loop.node] IN
  /\ loop.op = "mark" /\ loop.node # NULL /\ v \in toClose
  /\ heap' = listDelNode(listAddNodeTail(listCreateNode(heap, node, v), loop.to, node),
                         loop.from, loop.node)
  /\ loop' = [loop EXCEPT !.node = heap.next[@]]
  /\ call' = Call("closeClients", loop.from, loop.at, v, loop.to)
  /\ UNCHANGED toClose

PassTurn ==
  /\ loop.op = "mark" /\ loop.node # NULL /\ heap.value[loop.node] \notin toClose
  /\ loop' = [loop EXCEPT !.node = heap.next[@], !.at = @ + 1]
  /\ UNCHANGED <<heap, toClose, call>>

\* The second loop takes the first node as long as there is one.
MarkEnds ==
  /\ loop.op = "mark" /\ loop.node = NULL
  /\ loop' = [NoLoop EXCEPT !.op = "close"]
  /\ UNCHANGED <<heap, toClose, call>>

CloseTurn ==
  LET node == heap.head[clientsToClose] IN
  /\ loop.op = "close" /\ node # NULL
  /\ heap' = listDelNode(heap, clientsToClose, node)
  /\ toClose' = toClose \ {heap.value[node]}
  /\ call' = Call("listDelNode", clientsToClose, 1, None, None)
  /\ UNCHANGED loop

CloseEnds ==
  /\ loop.op = "close" /\ heap.head[clientsToClose] = NULL
  /\ loop' = NoLoop
  /\ UNCHANGED <<heap, toClose, call>>

(***************************************************************************)
(* The specification.                                                      *)
(***************************************************************************)
EmptyHeap ==
  [head |-> [l \in Lists |-> NULL], tail |-> [l \in Lists |-> NULL], len |-> [l \in Lists |-> 0],
   prev |-> [node \in Nodes |-> NULL], next |-> [node \in Nodes |-> NULL],
   value |-> [node \in Nodes |-> NULL], used |-> {}]

Init ==
  /\ heap = EmptyHeap
  /\ loop = NoLoop
  /\ toClose = {}
  /\ call = Call("none", None, 0, None, None)

Library ==
  \E l \in Others :
    \/ \E node \in Free, v \in Values :
         \/ AddNodeHead(l, node, v)
         \/ AddNodeTail(l, node, v)
         \/ \E i \in 1 .. heap.len[l], after \in BOOLEAN : InsertNode(l, i, node, v, after)
    \/ \E i \in 1 .. heap.len[l] : DelNode(l, i)
    \/ Rotate(l)
    \/ Release(l)
    \/ \E from \in Lists : listDup(from, l)

Server ==
  \/ \E c \in Values :
       \/ \E node \in Free : acceptTcpHandler(node, c)
       \/ clientToclose(c)
       \/ DropFlags(c)
  \/ closeClients

Turn ==
  \/ \E node \in Free : DupTurn(node) \/ MarkTurn(node)
  \/ DupEnds
  \/ PassTurn \/ MarkEnds
  \/ CloseTurn \/ CloseEnds

Next == Library \/ Server \/ Turn

Spec == Init /\ [][Next]_vars

(***************************************************************************)
(* Properties.                                                             *)
(***************************************************************************)
\* The nodes that head and next lead to are those that tail and prev lead to the
\* other way round, len of them.
Linked(h, l, chain) ==
  /\ h.head[l] = (IF h.len[l] = 0 THEN NULL ELSE chain[1])
  /\ h.tail[l] = (IF h.len[l] = 0 THEN NULL ELSE chain[h.len[l]])
  /\ \A i \in 1 .. h.len[l] :
       /\ h.next[chain[i]] = (IF i = h.len[l] THEN NULL ELSE chain[i + 1])
       /\ h.prev[chain[i]] = (IF i = 1 THEN NULL ELSE chain[i - 1])

\* Whatever list.c was called for, every list can be walked from both ends, over
\* the same nodes; no node is in two places, and none is in use that is in no list.
WellFormed ==
  /\ \A l \in Lists : Linked(heap, l, Chain(heap, l))
  /\ heap.used = UNION {ChainSet(heap, l) : l \in Lists}
  /\ \A l, m \in Lists : \A i \in 1 .. heap.len[l], j \in 1 .. heap.len[m] :
       Chain(heap, l)[i] = Chain(heap, m)[j] => l = m /\ i = j

\* closeClients frees the clients that are marked, each once, and no other:
\* walking the list it takes nodes out of, it meets all that were marked.
MarkedAreCollected ==
  /\ loop.op = "close" => ValuesOf(clients) \cap toClose = {}
  /\ ValuesOf(clientsToClose) \subseteq toClose
  /\ Idle => ValuesOf(clientsToClose) = {}

S == INSTANCE Sequence WITH seqs <- Contents(heap)

\* Whatever the pointers of list.c do, the lists are sequences, and each call does
\* to them what its name says: listDup copies in order, closeClients moves.
SequenceSpec == S!Spec
=============================================================================
