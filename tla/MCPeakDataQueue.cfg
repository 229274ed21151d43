SPECIFICATION FairSpec
CONSTANTS
  MAX_QUEUE_SIZE = 2
  MaxSamples = 5
  MaxSpurious = 2
INVARIANTS TypeOK QueueIsBacklog NoMissedWakeup
PROPERTIES EventualDelivery ChannelSpec
CHECK_DEADLOCK FALSE
