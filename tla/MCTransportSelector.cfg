SPECIFICATION FairSpec
CONSTANTS
  MaxRTT = 3
  Sticky = 2
  FailThreshold = 3
INVARIANTS PreferredIsBest PreferredIsConfigured
PROPERTIES NoFlapping Converges
CHECK_DEADLOCK FALSE
