CONSTANTS
  ByteRange = 4
  Word = 16
  GainScale = 3
  Params <- MCParams
  Speeds <- MCSpeeds
  MaxTurn = 1
SPECIFICATION Spec
INVARIANTS
  TypeOK
  SpeedIsTravel
  NoOverflow
PROPERTIES
  OutputInRange
