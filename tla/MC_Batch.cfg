SPECIFICATION Spec
CONSTANTS
  Limit = 2
  MaxSize = 8
  i1 = i1
  i2 = i2
  i3 = i3
  Ips = {i1, i2, i3}
  Reserved = {i3}
  Batch = 2
  MaxLines = 3
  MaxRuns = 3
  MaxFaults = 1
INVARIANTS
  CountsExact
  RunComplete
  SavedKept
CHECK_DEADLOCK FALSE
