CONSTANTS
  NUM_COLS = 2
  NUM_ROWS = 4
  START_HEIGHT = 1
  BarCells = 1
  KBD_BUF_SIZE = 4
  Char = {a, b}
  Newline = newline
  Rubout = rubout
  Blank = blank
  Bar = bar
SPECIFICATION ConSpec
INVARIANTS
  ConTypeOK
  EchoIsLine
PROPERTY BarKeptWhileClean
