----------------------------- MODULE MCCommands -----------------------------
\* Instances of Commands for TLC.
EXTENDS Commands, TLC

Set(k, v)    == [op |-> "SET", key |-> k, val |-> v]
Del(k)       == [op |-> "DEL", key |-> k]
Expire(k, t) == [op |-> "EXPIRE", key |-> k, ttl |-> t]
Get(k)       == [op |-> "GET", key |-> k]
Ttl(k)       == [op |-> "TTL", key |-> k]
Object(k)    == [op |-> "OBJECT", key |-> k]
Watch(k)     == [op |-> "WATCH", key |-> k]
Select(d)    == [op |-> "SELECT", db |-> d]
Bye          == [op |-> "BYE"]
Multi        == [op |-> "MULTI"]
SlaveOf      == [op |-> "SLAVEOF"]

\* Expiry, databases and propagation: no transactions but every data command.
DataRequests ==
  UNION {{Set(k, v) : v \in Vals \cup {None}} : k \in Keys}
  \cup UNION {{Del(k), Get(k), Ttl(k), Object(k), Expire(k, 1), Expire(k, -1),
               Expire(k, None)} : k \in Keys}
  \cup {Select(d) : d \in Dbs \cup {None}}
  \cup {SlaveOf}

\* Transactions: watched and written keys, a MULTI inside a MULTI, and a client
\* that leaves.
TxnRequests ==
  UNION {{Set(k, v) : v \in Vals} : k \in Keys}
  \cup {Watch(k) : k \in Keys}
  \cup {Multi, Bye}

Symmetry == Permutations(Addrs) \cup Permutations(Vals)
=============================================================================
