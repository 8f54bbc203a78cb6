SPECIFICATION Spec
CONSTANTS
  uiThread = uiThread
  stopWorker = stopWorker
  Ui <- uiThread
  Worker <- stopWorker
  QueueCap = 2
INVARIANT RunningIsHunted
