SPECIFICATION FairSpec
CONSTANTS
  mc = mc
  plain = plain
  in = in
  c1 = c1
  c2 = c2
  Outbounds <- MCOutbounds
  Injects <- MCInjects
  Services <- MCServices
  Silent <- MCSilent
  Conns <- MCTwo
  Files <- MCFiles
  ListenFailures = 1
INVARIANTS SettledConsistent OneConfigPerConnection KeyNotOlder RoutedConsistently
PROPERTIES FileTakesEffect ConnectionsProceed
CHECK_DEADLOCK FALSE
