SPECIFICATION Spec
CONSTANTS
  p1 = p1
  p2 = p2
  Processes = {p1, p2}
  h1 = h1
  h2 = h2
  h3 = h3
  Handlers = {h1, h2, h3}
  Process <- MCProcess
  Uris = {u1}
  Rates = {5}
  Expires = {60}
  NoRate = 0
  DefaultExpire = 3600
  DefaultConf = FALSE
  MaxRequests = 1
  MaxFaults = 0
INVARIANT ConfFileUsed
CHECK_DEADLOCK FALSE
