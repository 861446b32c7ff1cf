----------------------------- MODULE MCJobQueue -----------------------------
(* JobQueue for TLC: two runners that share a principal, as the runners that *)
(* knudgctl starts do, and one that has its own.                             *)
EXTENDS JobQueue

CONSTANTS shared1, shared2, own, pool, single

MCPrincipalOf ==
  [r \in Runner |-> IF r = own THEN single ELSE pool]
=============================================================================
