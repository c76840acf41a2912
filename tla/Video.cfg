CONSTANTS
  TERM_NUM = 3
  Char = {a, b}
  Blank = b
  Pos = {0, 1}
  Home = 1
  Depth = 2
SPECIFICATION Spec
INVARIANTS
  TypeOK
  MappingFollowsRunning
  CursorFollowsMonitor
  MappedOnlyWhileAsked
PROPERTY RefinesScreens
