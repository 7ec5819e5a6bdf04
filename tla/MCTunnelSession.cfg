SPECIFICATION Spec
CONSTANTS
  D = D
  A = A
  Dialer = D
  Acceptor = A
  DialerChunks = 4
  AcceptorChunks = 0
  MaxInFlight = 2
  SeqMod = 16
  NetCap = 3
  Closable <- MCNobody
  Breakable <- MCNobody
INVARIANTS InOrder NothingReleasedEarly WindowsAgree
PROPERTIES ImplementsStream
CHECK_DEADLOCK FALSE
