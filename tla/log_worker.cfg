SPECIFICATION FairSpec
CONSTANTS
  Buffers = {b1, b2, b3, b4, b5, b6, b7, b8, b9}
  NULL = NULL
  BufferSize = 3
  Lengths = {1, 2}
  NoticeLength = 1
  MaxBatch = 2
  RollSize = 3
  OpenOutcomes = {TRUE, FALSE}
  LogLevel = 1
  MaxLines = 4
  LastDay = 2
INVARIANTS
  TypeOK
  BuffersOwned
  LinesInOrder
  AssertsHold
PROPERTIES
  LinesReachDisk
  ExitReturns
CHECK_DEADLOCK FALSE
