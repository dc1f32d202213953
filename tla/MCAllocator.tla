---------------------------- MODULE MCAllocator ----------------------------
(* Model values, sizes and symmetry for checking Allocator.                *)
EXTENDS Allocator, TLC

CONSTANTS t1, t2, n1, n2, n3

MCThreads == {t1, t2}
MCNodes   == {n1, n2, n3}

\* With units of 16 bytes, a header of 24 and 10-bit sizes these need indices
\* 1, 2, 3, 4 and 62; the last two overflow in Align() and in the first sum.
MCSizes == {8, 20, 40, 50, 980, 990, 1020}

\* Without a limit, as in the program, and with one of six units.
MCLimits == {0, 6}

Interchangeable == Permutations(MCThreads) \cup Permutations(MCNodes)

=============================================================================
