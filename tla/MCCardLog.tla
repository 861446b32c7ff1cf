------------------------------ MODULE MCCardLog ------------------------------
(* CardLog on finite sets of ids, with the symmetries TLC may use. *)
EXTENDS CardLog, TLC

Symmetry == Permutations(Card) \cup Permutations(Version) \cup
            Permutations(Challenge) \cup Permutations(Key)
=============================================================================
