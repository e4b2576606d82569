SPECIFICATION MCFairSpec
CONSTANTS
  u1 = u1
  u2 = u2
  open = open
  list = list
  Bot = Bot
  None = None
  Events <- MCEvents
  Commands = {open, list}
  Pattern <- MCPattern
  Answer <- MCAnswer
  MaxEvents = 3
  s1 = s1
  Sessions = {s1, s2}
  BufSize = 2
  Room = 2
  Zero = Zero
  MaxMsgs = 8
INVARIANTS
  RepliesJustified
  EchoesOwn
PROPERTIES
  AllAnswered
  Released
  Echoed
CHECK_DEADLOCK FALSE
