SPECIFICATION SocketSpec
CONSTANTS
  s1 = s1
  s2 = s2
  s3 = s3
  h1 = h1
  h2 = h2
  p1 = p1
  p2 = p2
  INVALID_SOCKET = INVALID_SOCKET
  Socket <- MCSockets
  Handle <- MCHandles
  Peer <- MCPeers
SYMMETRY Interchangeable
INVARIANTS
  HandleOwned
  
