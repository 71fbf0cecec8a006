------------------------------ MODULE Keyspace ------------------------------
(***************************************************************************)
(* One logical database (redisDb, include/db.h) and the write commands     *)
(* that change it, as functions from a database to a database.  A master,  *)
(* its replicas and the AOF loader all run these same procedures, so the   *)
(* modules that model them share this one.                                 *)
(*                                                                         *)
(* A database is a record with the two dictionaries the commands touch:    *)
(* kv maps a key to its value and expires to the second after which the    *)
(* key is stale; None stands for "no entry".  Dict.tla models how a        *)
(* dictionary is stored.                                                   *)
(***************************************************************************)
EXTENDS Integers

CONSTANTS
  Keys,   \* the keys that requests name
  Vals,   \* the values that SET stores
  None    \* no entry, no argument, no request

ASSUME NoneIsFresh == None \notin Vals /\ None \notin Int

Database == [kv : [Keys -> Vals \cup {None}], expires : [Keys -> Int \cup {None}]]

EmptyDatabase ==
  [kv |-> [k \in Keys |-> None], expires |-> [k \in Keys |-> None]]

(***************************************************************************)
(* db.c.  A key is stale once the clock is past its entry in expires.      *)
(***************************************************************************)
Stale(s, k, t) == s.expires[k] # None /\ t > s.expires[k]

\* Mutant: the entry is deleted from the wrong dictionary.
ExpireDeadline(s, k, t) ==
  IF Stale(s, k, t) THEN [s EXCEPT !.expires[k] = None] ELSE s

\* dictDelete returns DICT_OK = 0 for the deletion of the value, so the
\* condition "dictDelete(kv) > 0 && dictDelete(expires) > 0" stops there: the
\* value goes, the entry in expires stays.
expireIfNeed(s, k, t) ==
  IF Stale(s, k, t) THEN [s EXCEPT !.kv[k] = None] ELSE s

\* dictAdd for a new key, dictReplace for an existing one.
dbAdd(s, k, v) == [s EXCEPT !.kv[k] = v]

\* Only the value goes; an entry in expires outlives it.
dbDelete(s, k) == [s EXCEPT !.kv[k] = None]

\* dictAdd refuses a key that has an entry already: a deadline is set once.
\* Nobody asks whether the key itself exists.
dbSetExpire(s, k, t) ==
  IF s.expires[k] = None THEN [s EXCEPT !.expires[k] = t] ELSE s

(***************************************************************************)
(* The write commands of the command table.  SET without a value and       *)
(* EXPIRE with a malformed number reply an error and change nothing.       *)
(***************************************************************************)
commandSetProc(s, req) ==
  IF req.val = None THEN s ELSE dbAdd(s, req.key, req.val)

commandDelProc(s, req) == dbDelete(s, req.key)

commandExpireProc(s, req, t) ==
  IF req.ttl = None THEN s ELSE dbSetExpire(s, req.key, t + req.ttl)

WriteOps == {"SET", "DEL", "EXPIRE"}

WriteRequest ==
       [op : {"SET"}, key : Keys, val : Vals \cup {None}]
  \cup [op : {"DEL"}, key : Keys]
  \cup [op : {"EXPIRE"}, key : Keys, ttl : Int \cup {None}]

\* What processCommand does to the database for a write command at time t:
\* lazy expiry of the key the request names, then the command's procedure.
Execute(s, req, t) ==
  LET live == expireIfNeed(s, req.key, t)
  IN  CASE req.op = "SET"    -> commandSetProc(live, req)
        [] req.op = "DEL"    -> commandDelProc(live, req)
        [] req.op = "EXPIRE" -> commandExpireProc(live, req, t)

(***************************************************************************)
(* What a reader may see of key k at time t, however much of the expired   *)
(* data is still in memory.                                                *)
(***************************************************************************)
Visible(s, k, t) == IF Stale(s, k, t) THEN None ELSE s.kv[k]
=============================================================================
