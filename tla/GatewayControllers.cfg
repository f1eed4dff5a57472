\* Classes and Gateways come and go, of one age or of different ages.
SPECIFICATION Spec
CONSTANTS
  Classes = {1, 2}
  Gateways = {3, 4}
  Absent = Absent
  Patient = TRUE
  QueueCap = 2
  MaxOps = 4
INVARIANTS QuietIsRight
PROPERTIES ControllersSettle
\* The cluster comes to rest.
CHECK_DEADLOCK FALSE
