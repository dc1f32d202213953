SPECIFICATION FairSpec
CONSTANTS
  c1 = c1
  c2 = c2
  k1 = k1
  k2 = k2
  k3 = k3
  Callers <- MCCallers
  Task <- MCTasks
  m_workThreadNum = 2
  UIntBits = 1
INVARIANTS
  TypeOK
  EachInTurn
PROPERTIES
  IsTaskPool
  
