SPECIFICATION FairSpec
CONSTANTS
  Servers = {s1, s2}
  MaxStarts = 1
INVARIANT DeletedUnpublished
CHECK_DEADLOCK FALSE
