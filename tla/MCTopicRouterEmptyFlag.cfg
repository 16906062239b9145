SPECIFICATION Spec
CONSTANTS
  Patterns <- MCPatterns
  Topics <- MCTopics
  QoS = {0, 1, 2}
  MaxIds = 2
PROPERTY
  EmptyFlagComplete
