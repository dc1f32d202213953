SPECIFICATION FairSpec
CONSTANTS
  m_dwThreadCount = 3
  MaxEnd = 2
INVARIANTS
  TypeOK
  RunOutlived
PROPERTY LoopReturns
