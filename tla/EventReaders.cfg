SPECIFICATION Spec
CONSTANTS
  star = star
  other = other
  Address = star
  Ranges <- UpAndDown
  Logs <- Emitted
  None = None
  MaxBlocks = 2
  MaxLogs = 2
  MaxUndone = 1
INVARIANTS NoKnownEventSkipped StopsOnlyAtForeignLogs
CHECK_DEADLOCK FALSE
