SPECIFICATION MCSpec
CONSTANTS
  p1 = p1
  p2 = p2
  Processes = {p1, p2}
  h1 = h1
  h2 = h2
  h3 = h3
  Handlers = {h1, h2, h3}
  Process <- MCProcess
  u1 = u1
  u2 = u2
  Uris = {u1, u2}
  Rates = {5}
  Expires = {60}
  NoRate = 0
  DefaultExpire = 3600
  DefaultConf = TRUE
  MaxRequests = 3
  MaxFaults = 1
  Reports <- MCReports
  NoSample = NoSample
  MaxSeconds = 1
INVARIANTS
  PullConsistent
  FileCurrent
  ReportsKept
SYMMETRY MCSymmetry
CHECK_DEADLOCK FALSE
