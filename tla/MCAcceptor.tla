----------------------------- MODULE MCAcceptor -----------------------------
(* Model values for checking Acceptor.                                     *)
EXTENDS Acceptor, TLC

CONSTANTS t1, t2, h1, h2, h3, h4

MCThreads == {t1, t2}
MCHandles == {h1, h2, h3, h4}

=============================================================================
