CONSTANTS
  MAX_NUM_PROCESS = 4
  TERM_NUM = 3
  Status = {1, 255}
SPECIFICATION FairSpec
INVARIANTS
  TypeOK
  ProcessesThreaded
  SavedFrames
  MachineFollowsProcess
  OnlyLaunchesClobbered
PROPERTIES
  TerminalKeepsProcess
  LostOnlyAtLaunch
  RefinesSessions
  EveryTerminalRuns
CHECK_DEADLOCK FALSE
