CONSTANTS
  TERM_NUM = 2
  KBD_BUF_SIZE = 2
  Char = {a}
  Newline = nl
  Nul = nul
  NBytes = {1, 3}
SPECIFICATION FairSpec
INVARIANT TypeOK
PROPERTIES
  RefinesLineEditor
  ReadReturnsLine
  EnterWakesReader
