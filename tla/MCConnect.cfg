SPECIFICATION Spec
CONSTANTS
  KeepAliveLimit = 65535
  ExpiryLimit = 100000
  Builds <- MCBuilds
  Urls <- MCUrls
  Edits <- MCEdits
  Wills <- MCWills
  Capacities <- MCCapacities
  Codes <- MCCodes
  MaxEdits = 2
\* connect returns, or panics.
CHECK_DEADLOCK FALSE
INVARIANTS
  NothingLeftBehind
  PanicsExplained
  AddressedAsConfigured
  RefusalsAreTold
