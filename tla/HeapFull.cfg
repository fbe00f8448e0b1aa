CONSTANTS
  PoolUnits = 6
  NUM_LEVELS = 4
  SizeMod = 1024
  Requests = {0, 32, 64, 160}
SPECIFICATION Spec
INVARIANT EndIsReported
