CONSTANTS
  N = 3
  NSections = 8
  FirstDegree = 1
  LastDegree = 1
  Inputs <- MCOneInput
SPECIFICATION FairSpec
PROPERTIES
  Terminates
