------------------------- MODULE MCFinalFilterQueue -------------------------
(* FinalFilterQueue for TLC: a server with two threads and one with one, and *)
(* at least one answer of each kind, readable or not.                        *)
EXTENDS FinalFilterQueue

CONSTANTS one, two, small, large

MCServerOf == [w \in Worker |-> IF w = one THEN small ELSE large]

Json(verdict, other) == [kind |-> "json", verdict |-> verdict, other |-> other]

Words(labels) == [kind |-> "words", labels |-> labels]

MCAnswers ==
  [kind : {"busy", "refused", "cut", "garbled"}]
    \cup {Json("pass", "block"), Json("odd", "pass"), Json(None, "review"), Json(None, None)}
    \cup {Words({"safe"}), Words({"pass", "block"}), Words({"odd"})}
=============================================================================
