SPECIFICATION Spec
CONSTANTS
  Lengths = {2, 3, 6}
  Doubling = 5
  QueueCap = 2
  MaxReads = 8
INVARIANT FreeIsLeft
CHECK_DEADLOCK FALSE
