SPECIFICATION FairSpec
CONSTANTS
  Keys = {k1}
  Vals = {v1}
  None = None
  Dbs = {0}
  Addrs = {a1, a2}
  Requests <- TxnRequests
  Role = "MASTER"
  AofOn = FALSE
  QueueCap = 2
  MaxTime = 0
INVARIANT WatchInv
PROPERTY WatchSafety
PROPERTY ExecTerminates
CHECK_DEADLOCK FALSE
