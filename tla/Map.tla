-------------------------------- MODULE Map --------------------------------
(***************************************************************************)
(* What the callers of dict.c rely on: a finite map and the answer of the  *)
(* last call.  None stands for "no entry" and for NULL.                    *)
(***************************************************************************)
CONSTANTS Keys, Vals, None

VARIABLES map, reply

mapVars == <<map, reply>>

Ok(op, k, b) == [op |-> op, key |-> k, ret |-> b]

Init ==
  /\ map = [k \in Keys |-> None]
  /\ reply = None

Insert(k, v) ==
  /\ reply' = Ok("dictAdd", k, map[k] = None)
  /\ map' = IF map[k] = None THEN [map EXCEPT ![k] = v] ELSE map

Update(k, v) ==
  /\ reply' = Ok("dictReplace", k, map[k] # None)
  /\ map' = IF map[k] = None THEN map ELSE [map EXCEPT ![k] = v]

Lookup(k) ==
  /\ reply' = [op |-> "dictFetchValue", key |-> k, val |-> map[k]]
  /\ UNCHANGED map

Test(k) ==
  /\ reply' = Ok("dictContains", k, map[k] # None)
  /\ UNCHANGED map

Remove(k) ==
  /\ reply' = Ok("dictDelete", k, map[k] # None)
  /\ map' = [map EXCEPT ![k] = None]

\* The key and the operation are named through the reply, so that TLC tries
\* no other one.
Next ==
  \E k \in Keys :
    /\ reply'.key = k
    /\ \/ /\ reply'.op = "dictAdd"
          /\ \E v \in Vals : Insert(k, v)
       \/ /\ reply'.op = "dictReplace"
          /\ \E v \in Vals : Update(k, v)
       \/ /\ reply'.op \in {"dictFetchValue", "dictContains"}
          /\ Lookup(k) \/ Test(k)
       \/ /\ reply'.op = "dictDelete"
          /\ Remove(k)

Spec == Init /\ [][Next]_mapVars
=============================================================================
