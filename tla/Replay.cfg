CONSTANTS
  PoolUnits = 8
  NUM_LEVELS = 3
  SizeMod = 1024
  Requests = {0, 32, 33, 70}
  Ids = {1, 2, 3}
SPECIFICATION ReplaySpec
INVARIANTS
  ReplaysLastLine
  PrintsTheLargestGap
\* A replay ends.
CHECK_DEADLOCK FALSE
