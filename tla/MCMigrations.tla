---------------------------- MODULE MCMigrations ----------------------------
(* Migrations for TLC: three runners, three migrations, files of two contents; *)
(* the last one replaces what the first has made.                              *)
EXTENDS Migrations, TLC

CONSTANTS r1, r2, r3, s1, s2

MCBase == [v \in 1 .. 3 |-> IF v = 3 THEN 1 ELSE 0]

MCSymmetry == Permutations(Runner) \cup Permutations(Sum)
=============================================================================
