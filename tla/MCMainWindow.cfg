SPECIFICATION FairSpec
CONSTANTS
  uiThread = uiThread
  stopWorker = stopWorker
  Ui <- uiThread
  Worker <- stopWorker
  QueueCap = 2
INVARIANTS
  NeverWaitsLong
  NothingLeftBehind
  ShownIsTrue
  PictureIsDown
PROPERTIES
  StopIsFinished
  ExitQuits
