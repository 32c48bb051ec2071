CONSTANTS
  DATA_EE_SIZE = 2
  NUM_DATA_EE_PAGES = 3
  PAGE_WORDS = 6
  ROW_WORDS = 2
  ERASE_WRITE_CYCLE_MAX = 2
  Values = {0, 255}
  Blank = 255
SPECIFICATION Spec
INVARIANTS
  RoomLeft
  OnePageInUse
  NothingGarbled
PROPERTIES
  ImplementsEEPROM
