SPECIFICATION FairSpec
CONSTANTS
  p1 = p1
  p2 = p2
  Patterns = {p1}
  RequestCapacity = 3
  CommandCapacity = 1
  MaxErrors = 2
  MaxCalls = 2
CHECK_DEADLOCK FALSE
PROPERTIES
  ResubscribeCompletesWithRoom
  ShutdownCompletesWithRoom
  DeathClosesStreamsWithRoom
  UnreachableTerminates
  SilentFlapTerminates
