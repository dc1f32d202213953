SPECIFICATION Spec
CONSTANTS
  t1 = t1
  t2 = t2
  n1 = n1
  n2 = n2
  n3 = n3
  Threads <- MCThreads
  Node <- MCNodes
  Sizes <- MCSizes
  MAX_INDEX = 3
  BOUNDARY_INDEX = 4
  MemNodeSize = 24
  SizeBits = 10
  Limits <- MCLimits
SYMMETRY Interchangeable
INVARIANTS
  TypeOK
  OnePlace
  MaxIsExact
  LimitIsExact
PROPERTY LargeEnough
