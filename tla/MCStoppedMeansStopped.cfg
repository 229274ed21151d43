SPECIFICATION Spec
CONSTANTS
  Senders <- MCSenders
  MaxLoops = 2
INVARIANT StoppedMeansStopped
CHECK_DEADLOCK FALSE
