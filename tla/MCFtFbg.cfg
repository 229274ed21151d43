SPECIFICATION FairSpec
CONSTANTS
  MaxFd = 4
  Foreign <- MCForeign
  MAX_SAMPLES = 2
INVARIANTS TypeOK
PROPERTIES OnlyDisconnectClosesLog TerminalIsLost FullLogEnds
