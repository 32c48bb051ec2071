CONSTANTS
  InPackets <- MCPackets
  DefaultParams <- MCParams
  SavedParams <- MCParams
  PBUFNO = 2
  PENDING_PACKETS_MAX = 2
  BUFFER_SIZE_MAX = 0
  SeqRange = 2
  RxMod = 3
  UartMax = 2
  TickMod = 3
  CountMod = 4
SPECIFICATION Spec
INVARIANT JointCommandStands
