CHECK_DEADLOCK FALSE
SPECIFICATION Spec
CONSTANTS
  Size = 4
  BlockSize = 2
  MaxDistance = 1
  EMPTY = EMPTY
  TOMBSTONE = TOMBSTONE
  GARBAGE = GARBAGE
INVARIANTS MigrationIsComplete MigratedAreFindable
PROPERTIES MigrationEnds
