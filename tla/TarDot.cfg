CONSTANTS
  Block = 2
  Paths <- MCDotPaths
  Sizes = {3}
  MaxEntries = 2
SPECIFICATION Spec
INVARIANTS
  FilesAccessible
CHECK_DEADLOCK FALSE
