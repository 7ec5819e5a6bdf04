SPECIFICATION FairSpec
CONSTANTS
  c1 = c1
  c2 = c2
  Dialers <- MCTwo
  MaxSessions = 1
  Backlog = 1
  MaxMade = 2
  IdleSweeps = TRUE
  ListenerCloses = TRUE
INVARIANTS Bounded LiveIsRoutable DialersAreServed
PROPERTIES PlacesReturn
CHECK_DEADLOCK FALSE
