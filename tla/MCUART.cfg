CONSTANTS
  UART_BUFFER_SIZE = 4
  ByteMod = 4
  CharMod = 6
  MaxWaiting = 3
SPECIFICATION Spec
INVARIANTS
  TxKeepsOrder
  RxKeepsOrder
PROPERTIES
  TxGoesOn
