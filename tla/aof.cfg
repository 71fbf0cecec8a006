SPECIFICATION FairSpec
CONSTANT MaxCommands = 4
INVARIANT TypeOK
INVARIANT NothingLost
INVARIANT ReloadAgrees
PROPERTY LoggedGetsWritten
CHECK_DEADLOCK FALSE
