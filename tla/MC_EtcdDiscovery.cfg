SPECIFICATION FairSpec
CONSTANTS
  Servers = {s1, s2}
  MaxStarts = 1
INVARIANTS
  UnregisterDeletes
  WrongOnlyByGet
PROPERTIES
  DeadVanish
CHECK_DEADLOCK FALSE
