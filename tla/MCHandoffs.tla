------------------------------ MODULE MCHandoffs ------------------------------
(* Handoffs for TLC: one card, two challenges, one operator in one time zone.  *)
EXTENDS Handoffs, TLC

Symmetry == Permutations(Version) \cup Permutations(Payload) \cup Permutations(Key)
            \cup Permutations(Challenge) \cup Permutations(Operator)
=============================================================================
