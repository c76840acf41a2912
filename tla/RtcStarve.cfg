CONSTANTS
  TERM_NUM = 2
  LOW_FREQUENCY = 2
  HIGH_FREQUENCY = 1024
  BootFrame = 6
  Asked = {4}
SPECIFICATION RtcFairSpec
PROPERTY EveryReadReturns
