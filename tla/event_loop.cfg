SPECIFICATION FairSpec
CONSTANTS
  Addrs = {c1, c2}
  None = None
  MaxFd = 2
  MaxSize = 3
INVARIANT TypeOK
INVARIANT TablesAgree
INVARIANT NobodyDeaf
PROPERTY LeaversGetFreed
PROPERTY RequestGetsRead
CHECK_DEADLOCK FALSE
