CONSTANTS
  Block = 2
  Paths <- MCPaths
  Sizes = {0, 3}
  MaxEntries = 3
SPECIFICATION Spec
INVARIANTS
  MirrorsArchive
  ListsOnce
  ReadsContent
\* The handlers of a mounted archive change nothing.
CHECK_DEADLOCK FALSE
