SPECIFICATION PeakSpec
CONSTANTS
  PEAK_CH = 2
  NUM_GRATING = 2
  RecvPeaks = 2
  PeakCounts <- MCPeakCounts
  MaxDatagrams = 3
INVARIANTS AverageIsOfOwnPeaks SnapshotIsRegular
PROPERTIES PeaksNeverGoBack
