CONSTANTS
  BLOCK_SIZE = 2
  MAX_FILES = 3
  FD_NUM = 4
  Depth = 2
  Word = 64
  files <- MCFilesTable
  inodes <- MCInodes
  num_data_blocks = 6
  Name <- MCName
  NBytes = {1, 3}
  BUFSIZE = 3
  Dot <- MCDot
  Absent <- MCAbsent
  Hidden = {"dot"}
  NoArg = none
SPECIFICATION ProgSpec
INVARIANTS
  ReadsInOrder
  ZeroMeansEnd
  OutputRight
PROPERTY DescriptorKept
