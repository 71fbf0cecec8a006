SPECIFICATION Spec
CONSTANTS
  Keys = {k1}
  Vals = {v1, v2}
  None = None
  Dbs = {0, 1}
  Addrs = {a1, a2}
  Requests <- DataRequests
  Role = "MASTER"
  AofOn = FALSE
  QueueCap = 2
  MaxTime = 2
SYMMETRY Symmetry
INVARIANT TypeOK
INVARIANT GetSeesLive
 
PROPERTY StoreSpec
CHECK_DEADLOCK FALSE
