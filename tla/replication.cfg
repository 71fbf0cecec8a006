CONSTANTS
  Size = 6
  MaxWrites = 4
  MaxBreaks = 2
  MaxBeats = 2

SPECIFICATION FairSpec
CHECK_DEADLOCK FALSE

INVARIANTS
  TypeOK
  RingHoldsTail
  
  
  HandshakeToken
  SpinsOnWriteOnly
PROPERTY
  HandshakeCompletes
