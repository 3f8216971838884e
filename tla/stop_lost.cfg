SPECIFICATION LiveSpec
CONSTANTS
  Fresh = 3
  Endless = TRUE
  Pokers = {}
  Stops = TRUE
  MaxEntries = 0
  MaxExcess = 0
PROPERTIES
  StopLands
CHECK_DEADLOCK FALSE
