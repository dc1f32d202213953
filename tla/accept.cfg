SPECIFICATION FairSpec
CONSTANTS
  t1 = t1
  t2 = t2
  h1 = h1
  h2 = h2
  h3 = h3
  h4 = h4
  INVALID_SOCKET = INVALID_SOCKET
  IocpThreads <- MCThreads
  Handle <- MCHandles
  s_maxAcceptCon = 2
INVARIANTS
  TypeOK
  OneOwner
  OpenAccounted
PROPERTIES
  OneUse
  AcceptedSettles
