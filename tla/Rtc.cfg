CONSTANTS
  TERM_NUM = 3
  LOW_FREQUENCY = 2
  HIGH_FREQUENCY = 1024
  BootFrame = 6
  Asked = {0, 1, 3, 4, 1000, 1024, 2048}
SPECIFICATION RtcFairSpec
INVARIANT RateAsAccepted
PROPERTIES
  ReadSeesInterrupt
  SomeReadReturns
