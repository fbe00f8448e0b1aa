CONSTANTS
  N = 3
  MaxProcs = 5
  WordMod = 64
  MaxDeaths = 1
SPECIFICATION FairSpec
INVARIANTS
  RowsApart
  ChecksumsRight
  RoundRepairs
PROPERTIES
  RunEnds
