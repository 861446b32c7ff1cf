--------------------------- MODULE MCClientConfig ---------------------------
(* ClientConfig for TLC: a local server, a closed launch, and one that       *)
(* publishes.                                                                *)
EXTENDS ClientConfig, TLC

CONSTANTS c1, c2, c3, u1, u2, elsewhere

MCType == {"local", ClosedLaunch}
MCCapabilities ==
  {[type |-> "local", publication |-> FALSE],
   [type |-> ClosedLaunch, publication |-> FALSE],
   [type |-> ClosedLaunch, publication |-> TRUE]}
MCSymmetry == Permutations(Command) \cup Permutations(Url)
=============================================================================
