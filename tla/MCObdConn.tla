----------------------------- MODULE MCObdConn -----------------------------
(* ObdConn with two transport handles, one more than may be open at once.  *)
EXTENDS ObdConn, TLC

CONSTANTS t1, t2

MCTransport == {t1, t2}

Handles == Permutations(MCTransport)
=============================================================================
