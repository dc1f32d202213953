SPECIFICATION Spec
CONSTANTS
  i1 = i1
  i2 = i2
  w1 = w1
  w2 = w2
  pool = pool
  IocpThreads <- MCIocp2
  WorkThreads <- MCWork1
  PoolThread = pool
  MaxRecv = 2
  MaxSend = 2
INVARIANT ValidOutOfPort
