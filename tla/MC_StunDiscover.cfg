SPECIFICATION FairSpec
CONSTANTS
  Retransmits = 2
  MaxKeepalives = 2
INVARIANTS
  Sound
  Exact
  OwnAnswers
  RequestCarried
  ResponsesRead
PROPERTIES
  Returns
CHECK_DEADLOCK FALSE
