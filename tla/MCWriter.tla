------------------------------ MODULE MCWriter ------------------------------
(* Writer for TLC: all runners share the one principal that knudgctl makes   *)
(* for them.                                                                 *)
EXTENDS Writer, TLC

CONSTANTS worker

MCJob == WriterJob

MCPrincipalOf == [r \in Runner |-> worker]

\* For the runs that check safety only.
Symmetry == Permutations(Runner) \cup Permutations(Planner) \cup Permutations(OwnerKey)
=============================================================================
