SPECIFICATION FairSpec
CONSTANTS
  MaxFd = 7
  Foreign <- MCForeign
  Garbage <- MCGarbage
INVARIANTS TypeOK UsesOwnSockets LeakIsOnePair DeafOnceLeaked
PROPERTIES LeakIsPermanent AlwaysReadsAgain FailedReceiveLeaks LostEnableLeaks
