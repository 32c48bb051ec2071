CONSTANTS
  Firmwares <- MCFirmwares
  Values <- MCValues
SPECIFICATION Spec
INVARIANTS
  LayoutMatches
PROPERTIES
  SavedIsKept
