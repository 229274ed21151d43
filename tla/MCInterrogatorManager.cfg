SPECIFICATION FairSpec
CONSTANTS
  MaxFd = 5
  Foreign <- MCForeign
  Garbage <- MCGarbage
  MAX_QUEUE_SIZE = 2
  MaxSamples = 4
  MaxSpurious = 1
PROPERTIES EverySampleDelivered FsmSpec QueueSpec EndToEndSpec
