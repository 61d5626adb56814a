\* The manifest alone stands for the files of a version: a directory that is
\* not complete is an empty one.
CONSTANTS
  Publishers = {p1, p2}
  Batches = {b1, b2}
  Parts = {}
  MaxCrashes = 2
  Second = p2
  Contested = b1

SPECIFICATION MCSpec

INVARIANTS
  RowsFollowFiles

PROPERTIES
  CommittedSettles
  RecoveryLeavesOnlyMoved
  PublishesToCatalog
