CONSTANTS
  Programs = {"shell", "test", "base"}
  Timeout = 2
  SeqRange = 4
  EpochRange = 2
  TxMax = 1
  RobotMax = 3
  ResponseSize = 1
  StatusSize = 2
  EndSize = 1
  LineMax = 2
  MaxLost = 1
  DumpCycles = 1
  MaxLate = 1
SPECIFICATION Spec
INVARIANTS
  TypeOK
  SuccessMeansAnswered
  SyncReadsWholeEpoch
  CommandGetsItsAnswer
  PostsReachSemaphores
PROPERTIES
  BlockingReturns
  CommandsEnd
