SPECIFICATION FairSpec
CONSTANTS
  c1 = c1
  c2 = c2
  Dialers <- MCTwo
  MaxSessions = 2
  Backlog = 2
  MaxMade = 2
  IdleSweeps = FALSE
  ListenerCloses = TRUE
PROPERTIES CloseReturns
CHECK_DEADLOCK FALSE
