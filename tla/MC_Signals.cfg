SPECIFICATION MCFairSpec
CONSTANTS
  Jobs = {j1, j2, j3}
  Workers = {w1, w2}
  MaxQueue = 1
  NoWorker = NoWorker
  NumFiles = 5
  PathCap = 1
  ReaderCap = 2
  Conns = {c1, c2}
  MaxProcs = 3
  MaxFaults = 1
INVARIANTS
  BenchAccounted
  NoDoubleClose
  DrainedBeforeQuit
  CompleteReport
  NoErrorSwallowed
  NoOutage
PROPERTIES
  ImplementsLedger
  ShutdownCompletes
  EveryJobPlayed
  Terminates
  Answered
CHECK_DEADLOCK FALSE
