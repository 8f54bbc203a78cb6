CONSTANTS
  MaxRuns = 2
  MaxLines = 3
  MaxBlocks = 1
  MaxPipe = 1
  MaxQueue = 1
SPECIFICATION Spec
CHECK_DEADLOCK FALSE
INVARIANTS
  PinIsAnnouncedOnce
  FpsIsPaired
  ErrorIsExplained
  ConnectedIsOfThisRun
