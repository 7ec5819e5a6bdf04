SPECIFICATION FairSpec
CONSTANTS
  c1 = c1
  Conns <- MCConns
  Configs <- MCConfigs
INVARIANTS KeyBeforeListener ReadyBeforeListener NothingLeftListening
PROPERTIES LoopsEnd
CHECK_DEADLOCK FALSE
