\* A replica that never becomes the leader.
SPECIFICATION ReplicaSpec
CONSTANTS
  o1 = o1
  o2 = o2
  Objects <- TwoObjects
  HoldoffDelay = 1
  HoldoffMaxDelay = 2
  QueueCap = 2
  MaxEvents = 3
  MaxFailures = 0
PROPERTIES EventsProcessed
