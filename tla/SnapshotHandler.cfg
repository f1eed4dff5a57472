\* Every interleaving of the two goroutines, with the version counter wrapping.
SPECIFICATION Spec
CONSTANTS
  MaxChanges = 2
  MaxRebuilds = 2
  MaxInt64 = 3
INVARIANTS SoloSnapshotCurrent VersionIdentifiesContents
PROPERTIES VersionMoves
\* No more changes: both goroutines wait.
CHECK_DEADLOCK FALSE
