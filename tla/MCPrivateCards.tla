--------------------------- MODULE MCPrivateCards ---------------------------
(* PrivateCards for TLC.                                                     *)
EXTENDS PrivateCards

CONSTANTS p, m1, m2, r1, g1
=============================================================================
