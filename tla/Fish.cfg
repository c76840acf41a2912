CONSTANTS
  a = a
  b = b
  Char = {a, b}
  Blank = blank
  Zero = zero
  NL = nl
  CELLS = 5
  NSLOTS = 3
  HALF = 2
  Struct <- MCStruct
  COLS = 2
  OFFSET = 1
  LENGTH = 2
  EXTRA <- MCExtra
  WAIT = 3
  Text <- MCText
SPECIFICATION FishSpec
INVARIANTS
  FramesAdded
PROPERTIES
  RefinesBlinkers
CHECK_DEADLOCK FALSE
