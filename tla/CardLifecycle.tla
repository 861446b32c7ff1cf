---------------------------- MODULE CardLifecycle ----------------------------
(***************************************************************************)
(* What the M0 kernel promises the owner of a card, without versions,      *)
(* challenges, keys or workers: a card is retained only after the owner    *)
(* was asked and in the step that takes the consent, consent ends only by  *)
(* its own operation, a discarded card can come back, and a revoked card   *)
(* is gone for good, the revocations forming one sequence.                 *)
(***************************************************************************)
EXTENDS Sequences

CONSTANT Card

VARIABLES
  stage,  \* where the owner finds the card
  held,   \* the cards on which a consent is in force
  order   \* the cards revoked, in order of their epochs

Stage == {"absent", "open", "asked", "discarded", "retained", "revoked"}

vars == <<stage, held, order>>

Init == stage = [c \in Card |-> "absent"] /\ held = {} /\ order = <<>>

Move(c, from, to) == stage[c] \in from /\ stage' = [stage EXCEPT ![c] = to]

Create(c) == Move(c, {"absent"}, "open") /\ UNCHANGED <<held, order>>

Ask(c) == Move(c, {"open"}, "asked") /\ UNCHANGED <<held, order>>

Reconsider(c) == Move(c, {"asked"}, "open") /\ UNCHANGED <<held, order>>

Discard(c) == Move(c, {"open", "asked"}, "discarded") /\ UNCHANGED <<held, order>>

Restore(c) == Move(c, {"discarded"}, "open") /\ UNCHANGED <<held, order>>

Retain(c) == /\ Move(c, {"asked"}, "retained")
             /\ held' = held \cup {c}
             /\ UNCHANGED order

EndConsent(c) == c \in held /\ held' = held \ {c} /\ UNCHANGED <<stage, order>>

Revoke(c) == /\ Move(c, Stage \ {"absent", "revoked"}, "revoked")
             /\ order' = Append(order, c)
             /\ UNCHANGED held

Next == \E c \in Card : \/ Create(c) \/ Ask(c) \/ Reconsider(c) \/ Discard(c)
                        \/ Restore(c) \/ Retain(c) \/ EndConsent(c) \/ Revoke(c)

Spec == Init /\ [][Next]_vars
=============================================================================
