SPECIFICATION Spec
CONSTANTS
  Lists = {clients, toclose, other}
  clients = clients
  clientsToClose = toclose
  Nodes = {n1, n2, n3, n4, n5}
  Values = {c1, c2, c3}
  NULL = NULL
  None = None
  MaxNodes = 4
SYMMETRY Symmetry
INVARIANT WellFormed
INVARIANT MarkedAreCollected
PROPERTY SequenceSpec
