SPECIFICATION FairSpec
CONSTANTS
  MaxFd = 4
  Foreign <- MCForeign
  MAX_SAMPLES = 2
INVARIANTS ModeComesFromKeyboard
