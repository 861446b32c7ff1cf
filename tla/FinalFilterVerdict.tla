-------------------------- MODULE FinalFilterVerdict --------------------------
(***************************************************************************)
(* How scripts/knudg_closed_api.py gets a verdict out of what the model    *)
(* provider answers: once for a direct evaluation, once more, in a copy of *)
(* the code with other exceptions, for a worker of the queue.              *)
(*                                                                         *)
(* An answer is abstracted to the labels in it.  A request that is pending *)
(* (202) is polled until the deadline and counts as what it ends as.       *)
(***************************************************************************)
EXTENDS FiniteSets

CONSTANT None

Verdict == {"pass", "hold", "reject"}

\* FINAL_FILTER_LABEL_ALIASES, one or two for each verdict; no other label is known.
Alias == [pass |-> "pass", safe |-> "pass", review |-> "hold", block |-> "reject"]

Label == DOMAIN Alias \cup {"odd"}

\* busy: 429, 5xx, no connection or no answer in time; refused: another status;
\* cut: the connection ends within the body; garbled: no chat completion, too
\* long, or a JSON value that is no object; json: an object, with its verdict and
\* the first of its five other names for one; words: no JSON, and the labels in it.
Answer ==
  [kind : {"busy", "refused", "cut", "garbled"}]
    \cup [kind : {"json"}, verdict : Label \cup {None}, other : Label \cup {None}]
    \cup [kind : {"words"}, labels : SUBSET Label]

\* final_filter_payload_from_label: an unknown label is an error.
FromLabel(label) == IF label \in DOMAIN Alias THEN Alias[label] ELSE None

\* A verdict that is there is not made up for by another field.
Coerce(a) == IF a.verdict # None THEN FromLabel(a.verdict) ELSE FromLabel(a.other)

Matched(a) == {Alias[label] : label \in a.labels \cap DOMAIN Alias}

\* Takes the first verdict in the table that has a match.
FaultyParseWords(a) ==
  IF Matched(a) = {} THEN None
  ELSE IF "pass" \in Matched(a) THEN "pass" ELSE CHOOSE v \in Matched(a) : TRUE

\* Several verdicts in one text are held.
ParseWords(a) ==
  CASE Matched(a) = {}              -> None
    [] Cardinality(Matched(a)) = 1  -> CHOOSE v \in Matched(a) : TRUE
    [] OTHER                        -> "hold"

\* The verdict that nvidia_glm_final_filter returns, or None: it raises.
ModelVerdict(a) ==
  CASE a.kind = "json"  -> Coerce(a)
    [] a.kind = "words" -> ParseWords(a)
    [] OTHER            -> None

HoldUnlessRead(a) == IF ModelVerdict(a) = None THEN "hold" ELSE ModelVerdict(a)

\* evaluate_final_filter; None: an exception that its handler does not know
\* either, and the client gets no response.
DirectVerdict(blocked, keyed, a) ==
  IF blocked THEN "reject"
  ELSE IF ~ keyed THEN "hold"
  ELSE IF a.kind = "cut" THEN None ELSE HoldUnlessRead(a)

\* evaluate_final_filter_for_queue_worker; None: to be tried again.
QueueVerdict(blocked, keyed, a) ==
  IF blocked THEN "reject"
  ELSE IF ~ keyed THEN "hold"
  ELSE IF a.kind \in {"busy", "cut"} THEN None ELSE HoldUnlessRead(a)

\* A reader who knows the aliases finds pass in the answer and nothing else.  In
\* an object the first field that is filled counts.
SaysOnlyPass(a) ==
  LET labels == CASE a.kind = "words" -> a.labels \ {"odd"}
                  [] a.kind = "json"  -> {IF a.verdict # None THEN a.verdict ELSE a.other}
                  [] OTHER            -> {}
  IN labels # {} /\ labels \subseteq {"pass", "safe"}
=============================================================================
