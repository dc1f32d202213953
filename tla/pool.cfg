SPECIFICATION FairSpec
CONSTANTS
  Client = {c1, c2}
  Gaps = {1, 2}
  MaxRound = 1
INVARIANTS
  TypeOK
  
  NoneLeft
PROPERTIES
  HeardIsKept
  HeartIsChecked
