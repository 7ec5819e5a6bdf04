SPECIFICATION FairSpec
CONSTANTS
  Setups <- MCSetups
  ClientLen = 3
  AnswerLen = 1
  MaxWritten = 8
INVARIANTS UploadExact SniffLeavesNoTrace NothingOutlivesHandler DownloadComplete
PROPERTIES RelayEnds
CHECK_DEADLOCK FALSE
