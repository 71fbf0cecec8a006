SPECIFICATION FairSpec
CONSTANTS
  Byte = 16
  Keys = {k1}
  Values <- TwoValues
  None = None
  Pids = {1, 2}
  MaxSize = 10
  MaxDirty = 2
  Tested <- NearLimits
INVARIANT TypeOK
INVARIANT OneSave
INVARIANT CleanIsSaved
INVARIANT RereadExact
PROPERTY ChangeGetsSaved
CHECK_DEADLOCK FALSE
