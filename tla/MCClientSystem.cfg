SPECIFICATION Spec
CONSTANTS
  p1 = p1
  p2 = p2
  Patterns = {p1, p2}
  RequestCapacity = 2
  CommandCapacity = 2
  MaxErrors = 3
  MaxCalls = 4
SYMMETRY PatternSymmetry
CHECK_DEADLOCK FALSE
INVARIANTS
  TypeOK
  ConnectedMeansCovered
  CountersAgree
  TerminalBeforeStreams
