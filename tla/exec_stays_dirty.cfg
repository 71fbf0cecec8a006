SPECIFICATION Spec
CONSTANTS
  Keys = {k1}
  Vals = {v1}
  None = None
  Dbs = {0}
  Addrs = {a1, a2}
  Requests <- TxnRequests
  Role = "MASTER"
  AofOn = FALSE
  QueueCap = 2
  MaxTime = 0
PROPERTY RejectOnlyIfTouched
CHECK_DEADLOCK FALSE
