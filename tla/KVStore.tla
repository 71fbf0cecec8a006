------------------------------ MODULE KVStore -------------------------------
(***************************************************************************)
(* What the databases of a fedis server look like to their readers: maps   *)
(* whose keys vanish at their deadline, by themselves.  There is no lazy   *)
(* deletion here, no watch list and no transaction; every change of a      *)
(* value is one atomic step.                                               *)
(*                                                                         *)
(* A deadline is set at most once per key and never removed, so a key past *)
(* its deadline is gone for good.                                          *)
(***************************************************************************)
EXTENDS Integers

CONSTANTS Dbs, Keys, Vals, None

VARIABLES
  store,      \* the value each key shows, None if it shows none
  deadline,   \* the second after which it shows none
  clock

kvVars == <<store, deadline, clock>>

Lapsed(d, k) == deadline[d][k] # None /\ clock > deadline[d][k]

Init ==
  /\ store = [d \in Dbs |-> [k \in Keys |-> None]]
  /\ deadline = [d \in Dbs |-> [k \in Keys |-> None]]
  /\ clock = 0

Put(d, k, v) ==
  /\ ~Lapsed(d, k)
  /\ store' = [store EXCEPT ![d][k] = v]
  /\ UNCHANGED <<deadline, clock>>

Remove(d, k) ==
  /\ store' = [store EXCEPT ![d][k] = None]
  /\ UNCHANGED <<deadline, clock>>

\* The deadline, named through its new value so that TLC need not enumerate
\* Int, is the clock plus the argument of EXPIRE; that may be negative.
SetDeadline(d, k) ==
  LET t == deadline'[d][k] IN
  /\ deadline[d][k] = None
  /\ t \in Int
  /\ deadline' = [deadline EXCEPT ![d][k] = t]
  /\ store' = [store EXCEPT ![d][k] = IF clock > t THEN None ELSE @]
  /\ UNCHANGED clock

Second ==
  /\ clock' = clock + 1
  /\ store' = [d \in Dbs |-> [k \in Keys |->
                 IF deadline[d][k] # None /\ clock + 1 > deadline[d][k]
                   THEN None ELSE store[d][k]]]
  /\ UNCHANGED deadline

Next ==
  \/ \E d \in Dbs, k \in Keys :
       \/ \E v \in Vals : Put(d, k, v)
       \/ Remove(d, k)
       \/ SetDeadline(d, k)
  \/ Second

Spec == Init /\ [][Next]_kvVars
=============================================================================
