SPECIFICATION SyncSpec
CONSTANTS
  Patterns <- MCPatterns
  Topics <- MCTopics
  QoS = {0, 1}
  MaxIds = 3
  MaxRequests = 2
  LeaveRoom = 1
INVARIANTS
  SyncTypeOK
  Covered
  ExactUnlessLeftover
  NoOrphan
