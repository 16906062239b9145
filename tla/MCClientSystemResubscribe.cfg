SPECIFICATION FairSpec
CONSTANTS
  p1 = p1
  p2 = p2
  Patterns = {p1, p2}
  RequestCapacity = 1
  CommandCapacity = 1
  MaxErrors = 3
  MaxCalls = 2
CHECK_DEADLOCK FALSE
PROPERTIES
  LostSessionRestored
