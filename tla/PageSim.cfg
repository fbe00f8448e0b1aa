CONSTANTS
  Addresses = {4095, 4096, 32768, 135175}
  SmallFrames = 2
  LargeFrames = 3
  WorkingCap = 1
  MaxAccesses = 7
SPECIFICATION Spec
INVARIANTS
  Inclusion
PROPERTIES
  LRUReplaces
  CFLRUReplaces
\* A behaviour ends with its trace.
CHECK_DEADLOCK FALSE
