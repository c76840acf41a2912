CONSTANTS
  Char = {a, b}
  Blank = blank
  NL = nl
  Nul = nul
  ARG_LEN = 6
  CLEARED = 3
  MaxLine = 6
  Beyond = 2
  BUFSIZE = 3
  MaxFile = 5
  MaxString = 2
  Size = 10
  Fill = 99
  MaxCalls = 2
  HEXDIGITS = 2
  MaxItems = 2
SPECIFICATION Spec
INVARIANTS
  ParsedRight
  GetargsGives
  PrintsOnlyParts
  PrintsMatchingLines
  PrintsTheFormat
PROPERTIES
  CallsDoAsPromised
CHECK_DEADLOCK FALSE
