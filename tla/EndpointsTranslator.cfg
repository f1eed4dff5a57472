\* Two goroutines, every interleaving of their critical sections.
SPECIFICATION EndpointsSpec
CONSTANTS
  svcA = svcA
  svcB = svcB
  c1 = c1
  c2 = c2
  NoObject = NoObject
  NoSubsets = NoSubsets
  NotReady = NotReady
  Services <- TwoServices
  Clusters <- TwoClusters
  MaxEvents = 3
  MaxRebuilds = 3
SYMMETRY Symmetry
INVARIANTS EntriesExact ChangesNotified
\* No more events and no more rebuilds: both goroutines wait.
CHECK_DEADLOCK FALSE
