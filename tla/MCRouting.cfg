SPECIFICATION Spec
CONSTANTS
  Configs <- MCConfigs
  Clients <- MCClients
  Kind <- MCKind
INVARIANTS RoutedAsMeant HostnameMeaning ExitReleases
CHECK_DEADLOCK FALSE
