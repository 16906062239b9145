SPECIFICATION ReaderSpec
CONSTANTS
  s1 = s1
  s2 = s2
  Subs = {s1}
  Capacity <- MCDeepCapacity
  MaxParked <- MCDeepMaxParked
  UnsubCapacity = 1
  MaxPublished = 6
INVARIANTS
  TypeOK
  InOrder
  OneSlowSend
PROPERTIES
  DropsOnlyUnderPressure
  ImplementsLossyFifo
  StreamsEnd
  EveryMessageResolved
