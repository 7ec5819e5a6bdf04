SPECIFICATION Spec
CONSTANTS
  Setups <- MCSniffed
  ClientLen = 2
  AnswerLen = 1
  MaxWritten = 6
INVARIANTS RelayedOnce
CHECK_DEADLOCK FALSE
