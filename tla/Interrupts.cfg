CONSTANTS
  TERM_NUM = 3
  MaxNest = 2
SPECIFICATION IntFairSpec
INVARIANT InServiceExact
PROPERTY TimerServed
