SPECIFICATION FairSpec
CONSTANTS
  Writers = {w1, w2}
  MaxLines = 1
  MaxSize = 2
  MaxDays = 1
  MaxNumber = 2
  Month = 2
  Hours = 2
  MaxMsgs = 2
  LastDay = 1
  MaxFaults = 1
  MaxStarts = 1
INVARIANTS
  FilesNearLimit
  Retention
PROPERTIES
  DroppedOnlyInTrouble
  WriteReturns
CHECK_DEADLOCK FALSE
