----------------------------- MODULE MCRunQueue -----------------------------
(* RunQueue for TLC: four thread structures, frozen at most twice.          *)
EXTENDS RunQueue

CONSTANTS t0, t1, t2, t3

MCThread == {t0, t1, t2, t3}

=============================================================================
