\* Both kinds of caches: those that notify under their mutex, and endpoints.
SPECIFICATION FairSpec
CONSTANTS
  s1 = s1
  s2 = s2
  n1 = n1
  n2 = n2
  Absent = Absent
  Chans <- TwoStreams
  Names <- TwoNames
  MaxUpdates = 2
  Notifiers = 2
INVARIANTS TypeOK NeverWedged IdleIsFresh
PROPERTIES VersionsIncrease EventuallyFresh
\* When no more updates arrive every stream waits in select: quiescence.
CHECK_DEADLOCK FALSE
