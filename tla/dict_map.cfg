SPECIFICATION Spec
CONSTANTS
  k1 = k1
  k2 = k2
  k3 = k3
  k4 = k4
  k5 = k5
  Keys = {k1, k2, k3, k4, k5}
  Vals = {v1, v2}
  None = None
  Hash <- HashValues
  DICT_INITIAL_SIZE = 1
  LoadDenominator = 3
INVARIANT TypeOK
INVARIANT WellFormed
INVARIANT IterMissesOneChain
PROPERTY MapSpec
PROPERTY DiesOnlyEmptied
SYMMETRY Symmetry
CHECK_DEADLOCK FALSE
