SPECIFICATION FairSpec
CONSTANTS
  Versions <- MCVersions
  NameLen = 5
  StreamLen = 1
INVARIANTS GrantedUnlessTorn RelayStartsAtStream
PROPERTIES HandshakeEnds
CHECK_DEADLOCK FALSE
