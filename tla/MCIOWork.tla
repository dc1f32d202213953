------------------------------ MODULE MCIOWork ------------------------------
(* Model values for checking IOWork.                                       *)
EXTENDS IOWork, TLC

CONSTANTS c1, c2, k1, k2, k3

MCCallers == {c1, c2}
MCTasks   == {k1, k2, k3}

=============================================================================
