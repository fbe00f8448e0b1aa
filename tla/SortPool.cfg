CONSTANTS
  N = 9
  NSections = 4
  FirstDegree = 1
  LastDegree = 3
  Inputs <- MCOneInput
SPECIFICATION FairSpec
INVARIANTS
  TypeOK
  NoOverlap
  NoEmptyFetch
  ExitIsLast
  NoMissedMerge
  SectionsSorted
  SeparateInv
  QueueCount
  WholeInv
  JobsSort
PROPERTIES
  Terminates
  ImplementsService
