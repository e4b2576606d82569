SPECIFICATION FairSpec
CONSTANTS
  Servers = {s1, s2}
  MaxStarts = 1
INVARIANT KeyGoneOnReturn
CHECK_DEADLOCK FALSE
