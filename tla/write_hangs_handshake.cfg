CONSTANTS
  Size = 6
  MaxWrites = 1
  MaxBreaks = 0
  MaxBeats = 1

SPECIFICATION Spec
CHECK_DEADLOCK FALSE

INVARIANT NeverSpins
