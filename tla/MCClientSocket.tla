--------------------------- MODULE MCClientSocket ---------------------------
(* Model values and symmetry for checking ClientSocket.                    *)
EXTENDS ClientSocket, TLC

CONSTANTS i1, i2, w1, w2, pool

MCIocp2  == {i1, i2}
MCWork1  == {w1}
MCWork2  == {w1, w2}

\* I/O threads are interchangeable, and so are workers.
Interchangeable == Permutations({i1, i2}) \cup Permutations({w1, w2})

=============================================================================
