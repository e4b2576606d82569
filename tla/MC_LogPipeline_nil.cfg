SPECIFICATION PipeSpec
CONSTANTS
  NumFiles = 3
  PathCap = 1
  ReaderCap = 1
INVARIANTS
  NilErrorHasReport
CHECK_DEADLOCK FALSE
