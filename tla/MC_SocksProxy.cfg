SPECIFICATION FairSpec
CONSTANTS
  c1 = c1
  c2 = c2
  Clients = {c1, c2}
  Requests <- MCRequests
  Verbose = TRUE
  MaxUp = 1
  MaxDown = 1
INVARIANTS
  ConnsExact
  EndsKnown
  NothingLost
  NotTurnedAway
PROPERTIES
  Released
CHECK_DEADLOCK FALSE
