\* A replica that becomes the leader: batching, rebuilds and status updates,
\* one of which may be refused.
SPECIFICATION LeaderSpec
CONSTANTS
  o1 = o1
  o2 = o2
  Objects <- TwoObjects
  HoldoffDelay = 2
  HoldoffMaxDelay = 3
  QueueCap = 3
  MaxEvents = 5
  MaxFailures = 1
INVARIANTS NoneForgotten HoldoffBounded
PROPERTIES StatusConverges
