--------------------------- MODULE MCStartupGate ---------------------------
(* StartupGate for TLC: a technical prompt in the workspace, one that asks   *)
(* for raw logs, and a delegated prompt about technical work.                *)
EXTENDS StartupGate, TLC

CONSTANTS t1, t2

MCMatches == [task |-> {"technical", "high_value"},
              raw |-> {"ask", "technical"},
              child |-> {"marker", "technical", "mention"}]
MCInKnudg == [p \in {"task", "raw", "child"} |-> TRUE]
\* Either registration alone, and both: symmetric in them.
MCInstalls == [hooks : SUBSET Registration \ {{}}, enabled : {TRUE}]
\* As long as the host waits, and shorter.
MCEnvironments ==
  {[disabled |-> FALSE, timeout |-> 2], [disabled |-> TRUE, timeout |-> 1]}
MCSymmetry == Permutations(Turn) \cup Permutations(Registration)
=============================================================================
