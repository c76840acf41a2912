CONSTANTS
  TERM_NUM = 1
  KBD_BUF_SIZE = 3
  Char = {a}
  Newline = nl
  Nul = nul
  NBytes = {4}
SPECIFICATION Spec
INVARIANT AlwaysNewline
