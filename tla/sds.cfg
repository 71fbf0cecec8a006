SPECIFICATION Spec
CONSTANTS
  Lengths = {2, 3, 6}
  Doubling = 5
  QueueCap = 2
  MaxReads = 8
INVARIANT TypeOK
INVARIANT QueueHoldsRequests
INVARIANT ReplicaGetsCommand
PROPERTY OverrunsOverstated
CHECK_DEADLOCK FALSE
