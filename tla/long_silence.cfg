SPECIFICATION JSpec
CONSTANTS
  None = None
  WRAP = 32
  FirstFrame = 29
  DELAY = 2
  MAX_DRY = 3
  MAX_HELD = 3
  CATCH_UP = 2
  Pauses = {20}
  MaxFrame = 66
  MaxNet = 1
INVARIANT
  HeardSoon
CHECK_DEADLOCK FALSE
