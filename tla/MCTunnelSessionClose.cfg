SPECIFICATION FairSpec
CONSTANTS
  D = D
  A = A
  Dialer = D
  Acceptor = A
  DialerChunks = 2
  AcceptorChunks = 0
  MaxInFlight = 1
  SeqMod = 4
  NetCap = 1
  Closable <- MCDialer
  Breakable <- MCAcceptor
INVARIANTS NoLostWakeup
PROPERTIES CloseUnblocks AllDelivered
CHECK_DEADLOCK FALSE
