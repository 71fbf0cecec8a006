------------------------------ MODULE Sequence ------------------------------
(***************************************************************************)
(* What the callers of list.c rely on: every list is a sequence, and a     *)
(* call does to it what its name says.  A node is named by its place.      *)
(***************************************************************************)
EXTENDS Integers, SequencesExt

CONSTANTS Lists, Values, None

VARIABLES seqs, call

Call(op, l, i, v, m) == [op |-> op, list |-> l, at |-> i, val |-> v, to |-> m]

Init ==
  /\ seqs = [l \in Lists |-> <<>>]
  /\ call = Call("none", None, 0, None, None)

Insert(l, i, v) == seqs' = [seqs EXCEPT ![l] = InsertAt(@, i, v)]
Delete(l, i) == seqs' = [seqs EXCEPT ![l] = RemoveAt(@, i)]
Clear(l) == seqs' = [seqs EXCEPT ![l] = <<>>]

\* The last one becomes the first.
Rotate(l) ==
  seqs' = [seqs EXCEPT ![l] = IF @ = <<>> THEN @ ELSE <<Last(@)>> \o Front(@)]

\* One value of a copy, which begins with the first and leaves none out.
Copy(l, i, m) ==
  /\ l # m
  /\ i = 1 \/ (call.op = "listDup" /\ call.list = l /\ call.to = m /\ call.at = i - 1)
  /\ seqs' = [seqs EXCEPT ![m] = Append(@, seqs[l][i])]

Move(l, i, m) ==
  /\ l # m
  /\ seqs' = [seqs EXCEPT ![l] = RemoveAt(@, i), ![m] = Append(@, seqs[l][i])]

\* The arguments are named through the call, so that TLC tries no other ones.
Next ==
  \E l \in Lists, m \in Lists \cup {None}, v \in Values \cup {None} :
    LET size == Len(seqs[l])
        i    == call'.at
    IN
    /\ call' = Call(call'.op, l, i, v, m)
    /\ \/ call'.op = "listAddNodeHead" /\ Insert(l, 1, v)
       \/ call'.op = "listAddNodeTail" /\ Insert(l, size + 1, v)
       \/ call'.op = "listInsertNode before" /\ i \in 1 .. size /\ Insert(l, i, v)
       \/ call'.op = "listInsertNode after" /\ i \in 1 .. size /\ Insert(l, i + 1, v)
       \/ call'.op = "listDelNode" /\ i \in 1 .. size /\ Delete(l, i)
       \/ call'.op = "listRotate" /\ Rotate(l)
       \/ call'.op = "listRelease" /\ Clear(l)
       \/ call'.op = "listDup" /\ i \in 1 .. size /\ Copy(l, i, m)
       \/ call'.op = "closeClients" /\ i \in 1 .. size /\ Move(l, i, m)

Spec == Init /\ [][Next]_<<seqs, call>>
=============================================================================
