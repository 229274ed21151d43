SPECIFICATION Spec
CONSTANTS
  Senders <- MCSenders
  MaxLoops = 2
INVARIANTS TypeOK CounterIsRight FramesAreWhole
PROPERTIES StopHolds RunStreams
CHECK_DEADLOCK FALSE
