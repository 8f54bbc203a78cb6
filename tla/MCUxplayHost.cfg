SPECIFICATION FairSpec
CONSTANTS
  ui = ui
  worker = worker
  readerThread = readerThread
  nobody = nobody
  Callers <- MCCallers
  Reader <- readerThread
  NoThread <- nobody
  MaxRuns = 2
  PipeCap = 1
INVARIANTS
  ReaderHoldsItsHandles
  AtMostOneReceiver
  StopPostcondition
PROPERTIES
  Refinement
  CallsRefinement
  StopReturns
  DeathNoticed
