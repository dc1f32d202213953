----------------------------- MODULE MCTCPSocket -----------------------------
(* Model values and symmetry for checking TCPSocket.                       *)
EXTENDS TCPSocket, TLC

CONSTANTS s1, s2, s3, h1, h2, p1, p2

MCSockets == {s1, s2, s3}
MCHandles == {h1, h2}
MCPeers   == {p1, p2}

\* Objects, handles and peers are interchangeable.
Interchangeable ==
  Permutations(MCSockets) \cup Permutations(MCHandles) \cup Permutations(MCPeers)

=============================================================================
