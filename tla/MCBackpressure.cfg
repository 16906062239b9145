SPECIFICATION FairSpec
CONSTANTS
  s1 = s1
  s2 = s2
  Subs = {s1, s2}
  Capacity <- MCCapacity
  MaxParked <- MCMaxParked
  UnsubCapacity = 1
  MaxPublished = 2
INVARIANTS
  ExactAccounting
  LiveStaysRouted
PROPERTIES
  ParkedResolves
  CleanupEnds
  LeakReclaimed
