------------------------------ MODULE MCLogger ------------------------------
(* Logger for TLC: two threads and two names that may be exchanged. *)
EXTENDS Logger, TLC

Symmetry == Permutations(Threads) \cup Permutations(Names)
=============================================================================
