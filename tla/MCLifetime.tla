----------------------------- MODULE MCLifetime -----------------------------
(* A small instance of Lifetime for TLC.                                     *)
EXTENDS Lifetime

CONSTANTS t1, t2

TwoThreads == {t1, t2}
=============================================================================
