CONSTANTS
  Operations <- MCOperations
  Packets <- MCPackets
  NoiseBytes <- MCNoise
  BUFFER_SIZE_MAX = 21
  MaxSent = 4
SPECIFICATION LineSpec
CHECK_DEADLOCK FALSE
INVARIANTS
  ArriveIntact
  NothingForged
  Resynchronises
