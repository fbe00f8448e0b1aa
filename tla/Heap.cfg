CONSTANTS
  PoolUnits = 10
  NUM_LEVELS = 4
  SizeMod = 1024
  Requests = {0, 1, 33, 96, 130, 1023}
SPECIFICATION Spec
INVARIANTS
  TypeOK
  ChunksTile
  ListsExact
  UserDataIntact
  RequestServed
PROPERTIES
  ImplementsBestFit
