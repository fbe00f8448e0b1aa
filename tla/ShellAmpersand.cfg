CONSTANTS
  Lines <- MCLines
  MaxChildren = 3
  MaxPipeFailures = 0
  Garbage <- MCNoGarbage
SPECIFICATION Spec
INVARIANT AmpersandNeverWaits
