CONSTANTS
  UART_BUFFER_SIZE = 4
  ByteMod = 4
  CharMod = 6
  MaxWaiting = 4
SPECIFICATION Spec
INVARIANT PutWaitsForRoom
