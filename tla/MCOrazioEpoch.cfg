CONSTANTS
  InPackets <- MCPackets
  DefaultParams <- MCParams
  SavedParams <- MCParams
  PBUFNO = 2
  PENDING_PACKETS_MAX = 4
  BUFFER_SIZE_MAX = 256
  SeqRange = 2
  RxMod = 1
  UartMax = 1
SPECIFICATION Spec
INVARIANTS
  AnswersInOrder
  NoSpuriousDrop
  LastParamsWin
  EpochsDiffer
