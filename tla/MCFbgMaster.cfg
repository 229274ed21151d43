SPECIFICATION Spec
CONSTANTS
  MaxFd = 5
  Foreign <- MCForeign
  Garbage <- MCGarbage
  PEAK_CH = 2
  NUM_GRATING = 2
  RecvPeaks = 3
  PeakCounts <- MCPeakCounts
  MaxDatagrams = 3
INVARIANTS OwnSockets PrintsLastDecoded
PROPERTIES NoDatagramOnceSilent
