---------------------------- MODULE CardLogProofs ----------------------------
(***************************************************************************)
(* Theorems about CardLog, for every set of cards, versions, users and     *)
(* keys, and, in the last part, about Handoffs, which extends it: the      *)
(* kernel with handoffs and records around it is still the kernel, so its  *)
(* invariant holds there, and with that a record is stored under a consent *)
(* in force.                                                               *)
(***************************************************************************)
EXTENDS Handoffs, TLAPS

-----------------------------------------------------------------------------
(* What an operation passes to Advance. *)

\* The type facts every operation owes: the event append, the card row and the
\* idempotency row that Advance writes have their types.
LEMMA AdvanceTypes ==
  ASSUME TypeOK, NEW op \in Operation, NEW subject \in Card \cup Version,
         NEW key \in Key, NEW c \in Card, NEW type \in EventType,
         NEW role \in Role, NEW to \in Status,
         NEW expected \in Version \cup {None}, NEW current \in Version \cup {None},
         Advance(op, subject, key, c, type, role, to, expected, current)
  PROVE  /\ cards' \in [Card -> CardRow]
         /\ log' \in [Card -> Seq(Event)]
         /\ idem' \subseteq IdemRow
         /\ cards'[c].status = to /\ cards'[c].current = current
         /\ cards'[c].creator = cards[c].creator
         /\ \A d \in Card \ {c} : cards'[d] = cards[d]
<1>1. cards' \in [Card -> CardRow]
  BY DEF Advance, TypeOK, CardRow
<1>2. log' \in [Card -> Seq(Event)]
  <2> DEFINE e == [type |-> type, role |-> role, prev |-> cards[c].status,
                   next |-> to, expected |-> expected]
  <2>1. cards[c].status \in Status \cup {None}
    BY DEF TypeOK, CardRow
  <2>2. e \in Event
    BY <2>1 DEF Event
  <2>3. log[c] \in Seq(Event)
    BY DEF TypeOK
  <2>4. Append(log[c], e) \in Seq(Event)
    BY <2>2, <2>3
  <2>5. log' = [log EXCEPT ![c] = Append(@, e)]
    BY DEF Advance
  <2> QED BY <2>4, <2>5 DEF TypeOK
<1>3. idem' \subseteq IdemRow
  <2>1. Len(log[c]) + 1 \in Nat \ {0}
    BY DEF TypeOK
  <2>2. [op |-> op, subject |-> subject, key |-> key, card |-> c,
         seq |-> Len(log[c]) + 1] \in IdemRow
    BY <2>1 DEF IdemRow
  <2> QED BY <2>2 DEF Advance, TypeOK
<1>4. /\ cards'[c].status = to /\ cards'[c].current = current
      /\ cards'[c].creator = cards[c].creator
      /\ \A d \in Card \ {c} : cards'[d] = cards[d]
  BY DEF Advance, TypeOK, CardRow
<1> QED BY <1>1, <1>2, <1>3, <1>4

-----------------------------------------------------------------------------
(* Types and the current version. *)

\* Types alone are not inductive: complete_redaction numbers the new version
\* one above the largest number of the card, which exists because the current
\* version has it.
TypeInv == TypeOK /\ CurrentIsNewest

\* The current version of a card that exists is a version row of that card.
LEMMA CurrentTypes ==
  ASSUME TypeInv, NEW c \in Card, Exists(c)
  PROVE  /\ cards[c].current \in Version /\ cards[c].creator \in User
         /\ versions[cards[c].current].card = c
         /\ versions[cards[c].current].payload \in Payload
         /\ versions[cards[c].current].number \in Nat
         /\ cards[c].status \in Status
<1>1. cards[c] \in CardRow
  BY DEF TypeInv, TypeOK
<1>2. /\ cards[c].current \in Version /\ cards[c].creator \in User
      /\ cards[c].status \in Status /\ versions[cards[c].current].card = c
  BY <1>1 DEF TypeInv, CurrentIsNewest, CardRow, Exists
<1>3. versions[cards[c].current] \in VersionRow
  BY <1>2 DEF TypeInv, TypeOK
<1>4. versions[cards[c].current].payload # None
  BY <1>2, NoneAssumption DEF TypeInv, CurrentIsNewest
<1> QED BY <1>2, <1>3, <1>4 DEF VersionRow

\* The largest version number of a card is that of its current version.
LEMMA MaxNumberOfCurrent ==
  ASSUME TypeInv, NEW c \in Card, Exists(c)
  PROVE  MaxNumber(c) = versions[cards[c].current].number
<1> DEFINE numbers == {0} \cup
      {versions[v].number : v \in {w \in Version : versions[w].card = c}}
           top == versions[cards[c].current].number
<1>1. /\ cards[c].current \in Version /\ versions[cards[c].current].card = c
      /\ top \in Nat
  BY CurrentTypes
<1>2. top \in numbers
  BY <1>1
<1>3. \A v \in Version : versions[v].number \in Nat
  BY DEF TypeInv, TypeOK, VersionRow
<1>4. \A m \in numbers : m \in Nat /\ m <= top
  BY <1>1, <1>3 DEF TypeInv, CurrentIsNewest
<1>5. \A n \in numbers : (\A m \in numbers : m <= n) => n = top
  BY <1>1, <1>2, <1>4
<1>6. \E n \in numbers : \A m \in numbers : m <= n
  BY <1>2, <1>4
<1> HIDE DEF numbers, top
<1>7. (CHOOSE n \in numbers : \A m \in numbers : m <= n) = top
  BY <1>5, <1>6
<1> QED BY <1>7 DEF MaxNumber, numbers, top

\* An operation that leaves the versions alone keeps the current version.
LEMMA AdvanceKeepsCurrent ==
  ASSUME TypeInv, NEW op \in Operation, NEW subject \in Card \cup Version,
         NEW key \in Key, NEW c \in Card, NEW type \in EventType,
         NEW role \in Role, NEW to \in Status,
         NEW expected \in Version \cup {None}, Exists(c), UNCHANGED versions,
         Advance(op, subject, key, c, type, role, to, expected, cards[c].current)
  PROVE  CurrentIsNewest'
<1>1. cards[c].current \in Version \cup {None}
  BY DEF TypeInv, TypeOK, CardRow
<1>2. /\ cards'[c].status = to /\ cards'[c].current = cards[c].current
      /\ cards'[c].creator = cards[c].creator
      /\ \A d \in Card \ {c} : cards'[d] = cards[d]
  BY <1>1, AdvanceTypes DEF TypeInv
<1>3. to # None
  BY NoneAssumption
<1>4. \A d \in Card : (Exists(d) <=> Exists(d)') /\ cards'[d].current = cards[d].current
                      /\ cards'[d].creator = cards[d].creator
  BY <1>2, <1>3 DEF Exists
<1>5. \A v \in Version : versions[v].card # None => versions[v].card \in Card
  BY DEF TypeInv, TypeOK, VersionRow
<1> QED BY <1>4, <1>5 DEF TypeInv, CurrentIsNewest

\* Empty tables have their types.
LEMMA InitTypeInv == Init => TypeInv
<1> SUFFICES ASSUME Init PROVE TypeInv
  OBVIOUS
<1>1. TypeOK
  BY DEF Init, TypeOK, CardRow, VersionRow, ChallengeRow
<1>2. CurrentIsNewest
  BY DEF Init, CurrentIsNewest, Exists
<1> QED BY <1>1, <1>2 DEF TypeInv

\* submit_candidate writes rows of the right types: a first version, a card, its
\* event and the row of its key.
LEMMA SubmitTypeInv ==
  ASSUME TypeInv, NEW c \in Card, NEW v \in Version, NEW p \in Payload,
         NEW u \in User, NEW key \in Key, SubmitCandidate(c, v, p, u, key)
  PROVE  TypeInv'
<1> USE DEF SubmitCandidate
<1> DEFINE row == [status |-> "candidate_created", current |-> v, creator |-> u]
           e == [type |-> "card_created", role |-> "app_user", prev |-> None,
                 next |-> "candidate_created", expected |-> None]
<1>1. row \in CardRow /\ e \in Event
  BY DEF CardRow, Event, Status, PreReview, EventType, Role
<1>2. cards' \in [Card -> CardRow]
  BY <1>1 DEF TypeInv, TypeOK
<1>3. log' \in [Card -> Seq(Event)]
  <2>1. Append(log[c], e) \in Seq(Event)
    BY <1>1 DEF TypeInv, TypeOK
  <2> QED BY <2>1 DEF TypeInv, TypeOK
<1>4. versions' \in [Version -> VersionRow]
  BY DEF TypeInv, TypeOK, VersionRow
<1>5. idem' \subseteq IdemRow
  BY DEF TypeInv, TypeOK, IdemRow, Operation
<1>6. CurrentIsNewest'
  <2>1. /\ versions'[v].card = c /\ versions'[v].payload = p
        /\ \A w \in Version \ {v} : versions'[w] = versions[w]
    BY DEF TypeInv, TypeOK
  <2>2. /\ cards'[c].status = "candidate_created" /\ cards'[c].current = v
        /\ cards'[c].creator = u
        /\ \A d \in Card \ {c} : cards'[d] = cards[d]
    BY DEF TypeInv, TypeOK
  <2>3. "candidate_created" # None /\ v # None /\ u # None /\ p # None /\ c # None
    BY NoneAssumption DEF Status, PreReview
  <2>4. \A w \in Version : versions[w].card # c
    BY <2>3 DEF TypeInv, CurrentIsNewest
  <2>5. \A w \in Version : versions[w].card # None => versions[w].card \in Card
    BY DEF TypeInv, TypeOK, VersionRow
  <2>6. \A d \in Card \ {c} : Exists(d) => cards[d].current \in Version \ {v}
    BY CurrentTypes, NoneAssumption
  <2>7. Exists(c)' /\ \A d \in Card \ {c} : Exists(d) <=> Exists(d)'
    BY <2>2, <2>3 DEF Exists
  <2>8. ASSUME NEW w \in Version, versions'[w].card # None
         PROVE  cards'[versions'[w].card].status # None /\ versions'[w].payload # None
    <3>1. CASE w = v
      BY <3>1, <2>1, <2>2, <2>3
    <3>2. CASE w # v
      BY <3>2, <2>1, <2>4, <2>5, <2>7, <2>8 DEF TypeInv, CurrentIsNewest, Exists
    <3> QED BY <3>1, <3>2
  <2>9. ASSUME NEW d \in Card, Exists(d)'
         PROVE  /\ cards'[d].current # None /\ cards'[d].creator # None
                /\ versions'[cards'[d].current].card = d
                /\ \A w \in Version \ {cards'[d].current} : versions'[w].card = d =>
                     versions'[w].number < versions'[cards'[d].current].number
    <3>1. CASE d = c
      BY <3>1, <2>1, <2>2, <2>3, <2>4
    <3>2. CASE d # c
      <4>1. Exists(d) /\ cards'[d] = cards[d] /\ cards[d].current \in Version \ {v}
        BY <3>2, <2>2, <2>6, <2>7, <2>9
      <4> QED BY <3>2, <4>1, <2>1 DEF TypeInv, CurrentIsNewest
    <3> QED BY <3>1, <3>2
  <2> HIDE DEF SubmitCandidate
  <2> QED BY <2>8, <2>9 DEF CurrentIsNewest, Exists
<1> QED BY <1>2, <1>3, <1>4, <1>5, <1>6 DEF TypeInv, TypeOK

\* append_card_event, and every worker operation that goes through
\* worker_advance_card.
LEMMA AdvanceTypeInv ==
  ASSUME TypeInv, NEW op \in Operation, NEW key \in Key, NEW c \in Card,
         NEW type \in EventType, NEW role \in Role, NEW to \in Status,
         NEW expected \in Version \cup {None}, Exists(c),
         Advance(op, c, key, c, type, role, to, expected, cards[c].current),
         UNCHANGED <<versions, challenges, consents, tombs, epoch>>
  PROVE  TypeInv'
<1>1. cards[c].current \in Version \cup {None}
  BY DEF TypeInv, TypeOK, CardRow
<1>2. CurrentIsNewest'
  BY AdvanceKeepsCurrent
<1>3. /\ cards' \in [Card -> CardRow] /\ log' \in [Card -> Seq(Event)]
      /\ idem' \subseteq IdemRow
  BY <1>1, AdvanceTypes DEF TypeInv
<1> QED BY <1>2, <1>3 DEF TypeInv, TypeOK

\* complete_redaction either leaves the versions or adds one with the next number.
LEMMA CompleteRedactionTypeInv ==
  ASSUME TypeInv, NEW c \in Card, NEW p \in Payload, NEW v \in Version,
         NEW key \in Key, CompleteRedaction(c, p, v, key)
  PROVE  TypeInv'
<1> DEFINE old == cards[c].current
           changed == versions[old].payload # p
           new == IF changed THEN v ELSE old
<1>1. /\ Exists(c)
      /\ Advance("complete_redaction", c, key, c, "redaction_completed",
                 "redaction_worker", "pending_review", old, new)
      /\ UNCHANGED <<challenges, consents, tombs, epoch>>
  BY DEF CompleteRedaction, Visible
<1>2. /\ old \in Version /\ versions[old].card = c /\ cards[c].creator \in User
      /\ versions[old].number \in Nat
  BY <1>1, CurrentTypes
<1>3. /\ "complete_redaction" \in Operation /\ "redaction_completed" \in EventType
      /\ "redaction_worker" \in Role /\ "pending_review" \in Status
  BY DEF Operation, EventType, Role, Status, PreReview
<1>4. /\ cards' \in [Card -> CardRow] /\ log' \in [Card -> Seq(Event)]
      /\ idem' \subseteq IdemRow
      /\ cards'[c].status = "pending_review" /\ cards'[c].current = new
      /\ cards'[c].creator = cards[c].creator
      /\ \A d \in Card \ {c} : cards'[d] = cards[d]
  BY <1>1, <1>2, <1>3, AdvanceTypes DEF TypeInv
<1>5. CASE ~ changed
  <2>1. UNCHANGED versions
    BY <1>5 DEF CompleteRedaction
  <2>2. CurrentIsNewest'
    BY <1>1, <1>2, <1>3, <1>5, <2>1, AdvanceKeepsCurrent
  <2> QED BY <1>1, <1>4, <2>1, <2>2 DEF TypeInv, TypeOK
<1>6. CASE changed
  <2>1. /\ versions[v].card = None
        /\ versions' = [versions EXCEPT ![v] =
             [card |-> c, number |-> versions[old].number + 1, payload |-> p]]
    BY <1>1, <1>6, MaxNumberOfCurrent DEF CompleteRedaction
  <2>2. versions' \in [Version -> VersionRow]
    BY <1>2, <2>1 DEF TypeInv, TypeOK, VersionRow
  <2>3. /\ versions'[v].card = c /\ versions'[v].payload = p
        /\ versions'[v].number = versions[old].number + 1
        /\ \A w \in Version \ {v} : versions'[w] = versions[w]
    BY <2>1 DEF TypeInv, TypeOK
  <2>4. c # None /\ p # None /\ v # None /\ "pending_review" # None
    BY NoneAssumption DEF Status, PreReview
  <2>5. \A w \in Version : versions[w].card # None => versions[w].card \in Card
    BY DEF TypeInv, TypeOK, VersionRow
  <2>6. \A d \in Card : Exists(d) <=> Exists(d)'
    BY <1>1, <1>4, <2>4 DEF Exists
  <2>7. \A d \in Card : Exists(d) => cards[d].current \in Version \ {v}
    BY <2>1, CurrentTypes, NoneAssumption
  <2>8. \A w \in Version : versions[w].number \in Nat
    BY DEF TypeInv, TypeOK, VersionRow
  <2>9. ASSUME NEW w \in Version, versions'[w].card # None
        PROVE  cards'[versions'[w].card].status # None /\ versions'[w].payload # None
    <3>1. CASE w = v
      BY <3>1, <1>1, <2>3, <2>4, <2>6 DEF Exists
    <3>2. CASE w # v
      BY <3>2, <2>3, <2>5, <2>6, <2>9 DEF TypeInv, CurrentIsNewest, Exists
    <3> QED BY <3>1, <3>2
  <2>10. ASSUME NEW d \in Card, Exists(d)'
         PROVE  /\ cards'[d].current # None /\ cards'[d].creator # None
                /\ versions'[cards'[d].current].card = d
                /\ \A w \in Version \ {cards'[d].current} : versions'[w].card = d =>
                     versions'[w].number < versions'[cards'[d].current].number
    <3>1. CASE d = c
      <4>1. \A w \in Version \ {v} : versions[w].card = c =>
              versions[w].number <= versions[old].number
        BY <1>1, <1>2, <2>8 DEF TypeInv, CurrentIsNewest
      <4>2. cards'[d].current = v /\ cards'[d].creator # None
        BY <3>1, <1>2, <1>4, <1>6, NoneAssumption
      <4> QED BY <3>1, <4>1, <4>2, <1>2, <2>3, <2>4, <2>8
    <3>2. CASE d # c
      <4>1. Exists(d) /\ cards'[d] = cards[d] /\ cards[d].current \in Version \ {v}
        BY <3>2, <1>4, <2>6, <2>7, <2>10
      <4> QED BY <3>2, <4>1, <2>3 DEF TypeInv, CurrentIsNewest
    <3> QED BY <3>1, <3>2
  <2>11. CurrentIsNewest'
    BY <2>9, <2>10 DEF CurrentIsNewest, Exists
  <2> QED BY <1>1, <1>4, <2>2, <2>11 DEF TypeInv, TypeOK
<1> QED BY <1>5, <1>6

\* The operations whose effect on the card is Advance with its current version.
LEMMA RequestApprovalTypeInv ==
  ASSUME TypeInv, NEW c \in Card, NEW h \in Challenge, NEW key \in Key,
         RequestPrivateApproval(c, h, key)
  PROVE  TypeInv'
<1> DEFINE v == cards[c].current
<1>1. /\ Exists(c) /\ UNCHANGED <<versions, consents, tombs, epoch>>
      /\ challenges' = [challenges EXCEPT ![h] =
           [version |-> v, payload |-> versions[v].payload,
            subject |-> cards[c].creator, used |-> FALSE, expired |-> FALSE]]
      /\ Advance("request_private_approval", c, key, c, "user_approval_requested",
                 "review_worker", "awaiting_user_approval", v, v)
  BY DEF RequestPrivateApproval, Visible
<1>2. /\ v \in Version /\ cards[c].creator \in User
      /\ versions[v].payload \in Payload
  BY <1>1, CurrentTypes
<1>3. /\ "request_private_approval" \in Operation /\ "review_worker" \in Role
      /\ "user_approval_requested" \in EventType /\ "awaiting_user_approval" \in Status
  BY DEF Operation, EventType, Role, Status, PreReview
<1>4. CurrentIsNewest'
  BY <1>1, <1>2, <1>3, AdvanceKeepsCurrent
<1>5. /\ cards' \in [Card -> CardRow] /\ log' \in [Card -> Seq(Event)]
      /\ idem' \subseteq IdemRow
  BY <1>1, <1>2, <1>3, AdvanceTypes DEF TypeInv
<1>6. challenges' \in [Challenge -> ChallengeRow]
  BY <1>1, <1>2 DEF TypeInv, TypeOK, ChallengeRow
<1> QED BY <1>1, <1>4, <1>5, <1>6 DEF TypeInv, TypeOK

\* approve_private_retention spends a challenge and writes a consent.
LEMMA ApproveTypeInv ==
  ASSUME TypeInv, NEW c \in Card, NEW h \in Challenge, NEW u \in User,
         NEW key \in Key, ApprovePrivateRetention(c, h, u, key)
  PROVE  TypeInv'
<1> DEFINE v == cards[c].current
           r == [challenge |-> h, version |-> v, payload |-> versions[v].payload,
                 subject |-> u, card |-> c, seq |-> Len(log[c]) + 1,
                 terminated |-> None]
<1>1. /\ Exists(c) /\ UNCHANGED <<versions, tombs, epoch>>
      /\ challenges' = [challenges EXCEPT ![h].used = TRUE]
      /\ consents' = consents \cup {r}
      /\ Advance("approve_private_retention", c, key, c, "private_approved",
                 "app_user", "approved_private", v, v)
  BY DEF ApprovePrivateRetention, MayApprove, Active, Visible
<1>2. v \in Version /\ versions[v].payload \in Payload
  BY <1>1, CurrentTypes
<1>3. /\ "approve_private_retention" \in Operation /\ "app_user" \in Role
      /\ "private_approved" \in EventType /\ "approved_private" \in Status
  BY DEF Operation, EventType, Role, Status
<1>4. CurrentIsNewest'
  BY <1>1, <1>2, <1>3, AdvanceKeepsCurrent
<1>5. /\ cards' \in [Card -> CardRow] /\ log' \in [Card -> Seq(Event)]
      /\ idem' \subseteq IdemRow
  BY <1>1, <1>2, <1>3, AdvanceTypes DEF TypeInv
<1>6. challenges' \in [Challenge -> ChallengeRow]
  <2>1. challenges[h] \in ChallengeRow
    BY DEF TypeInv, TypeOK
  <2>2. [challenges[h] EXCEPT !.used = TRUE] \in ChallengeRow
    BY <2>1 DEF ChallengeRow
  <2> QED BY <1>1, <2>2 DEF TypeInv, TypeOK
<1>7. consents' \subseteq Consent
  <2>1. Len(log[c]) + 1 \in Nat \ {0}
    BY DEF TypeInv, TypeOK
  <2>2. r \in Consent
    BY <1>2, <2>1 DEF Consent
  <2> QED BY <1>1, <2>2 DEF TypeInv, TypeOK
<1> QED BY <1>1, <1>4, <1>5, <1>6, <1>7 DEF TypeInv, TypeOK

\* Both revocations, of a card or of its version, write a tombstone of the next
\* epoch.
LEMMA RevokeTypeInv ==
  ASSUME TypeInv, NEW op \in Operation, NEW role \in Role,
         NEW type \in {"card", "card_version"}, NEW c \in Card, NEW key \in Key,
         Revoke(op, role, type, c, key)
  PROVE  TypeInv'
<1> DEFINE v == cards[c].current
           subject == IF type = "card" THEN c ELSE v
           t == [type |-> type, card |-> c, version |-> v,
                 epoch |-> epoch + 1, seq |-> Len(log[c]) + 1]
<1>1. /\ Exists(c) /\ UNCHANGED <<versions, challenges, consents>>
      /\ epoch' = epoch + 1 /\ tombs' = tombs \cup {t}
      /\ Advance(op, subject, key, c, "revoked", role, "revoked", v, v)
  BY DEF Revoke, Visible
<1>2. v \in Version /\ subject \in Card \cup Version
  BY <1>1, CurrentTypes
<1>3. "revoked" \in EventType /\ "revoked" \in Status
  BY DEF EventType, Status
<1>4. CurrentIsNewest'
  BY <1>1, <1>2, <1>3, AdvanceKeepsCurrent
<1>5. /\ cards' \in [Card -> CardRow] /\ log' \in [Card -> Seq(Event)]
      /\ idem' \subseteq IdemRow
  BY <1>1, <1>2, <1>3, AdvanceTypes DEF TypeInv
<1>6. epoch' \in Nat /\ tombs' \subseteq Tombstone
  <2>1. Len(log[c]) + 1 \in Nat \ {0} /\ epoch + 1 \in Nat \ {0}
    BY DEF TypeInv, TypeOK
  <2>2. t \in Tombstone
    BY <1>2, <2>1 DEF Tombstone
  <2> QED BY <1>1, <2>1, <2>2 DEF TypeInv, TypeOK
<1> QED BY <1>1, <1>4, <1>5, <1>6 DEF TypeInv, TypeOK

\* The two steps that touch no card.
LEMMA OtherTypeInv ==
  ASSUME TypeInv,
         \/ \E r \in consents, key \in Key : RevokeConsentRecord(r, key)
         \/ \E h \in Challenge : ExpireChallenge(h)
         \/ UNCHANGED vars
  PROVE  TypeInv'
<1>1. UNCHANGED <<cards, versions>> => CurrentIsNewest'
  BY DEF TypeInv, CurrentIsNewest, Exists
<1>2. CASE \E r \in consents, key \in Key : RevokeConsentRecord(r, key)
  <2>1. PICK r \in consents, key \in Key : RevokeConsentRecord(r, key)
    BY <1>2
  <2>2. r \in Consent
    BY DEF TypeInv, TypeOK
  <2>3. [r EXCEPT !.terminated = key] \in Consent
    BY <2>2 DEF Consent
  <2> QED BY <1>1, <2>1, <2>3 DEF RevokeConsentRecord, TypeInv, TypeOK
<1>3. CASE \E h \in Challenge : ExpireChallenge(h)
  <2>1. PICK h \in Challenge : ExpireChallenge(h)
    BY <1>3
  <2>2. challenges[h] \in ChallengeRow
    BY DEF TypeInv, TypeOK
  <2>3. [challenges[h] EXCEPT !.expired = TRUE] \in ChallengeRow
    BY <2>2 DEF ChallengeRow
  <2>4. challenges' \in [Challenge -> ChallengeRow]
    BY <2>1, <2>3 DEF ExpireChallenge, TypeInv, TypeOK
  <2> QED BY <1>1, <2>1, <2>4 DEF ExpireChallenge, TypeInv, TypeOK
<1>4. CASE UNCHANGED vars
  BY <1>1, <1>4 DEF vars, TypeInv, TypeOK
<1> QED BY <1>2, <1>3, <1>4

-----------------------------------------------------------------------------
(* The steps, by what they touch. *)

\* A call that only moves the card on: append_card_event, accept_admission and
\* request_redaction.
PlainAdvance(c) ==
  \E op \in Operation, key \in Key, type \in EventType, role \in Role,
     to \in Status \ {"approved_private", "revoked"}, expected \in Version \cup {None} :
    /\ Visible(c)
    /\ Fresh(op, c, key)
    /\ Advance(op, c, key, c, type, role, to, expected, cards[c].current)
    /\ UNCHANGED <<versions, challenges, consents, tombs, epoch>>

AnyRevoke(c) ==
  \E op \in {"revoke_subject", "break_glass_revoke_subject"}, role \in Role,
     type \in {"card", "card_version"}, key \in Key : Revoke(op, role, type, c, key)

\* Every step is one of eight kinds.
LEMMA StepCases ==
  ASSUME [Next]_vars
  PROVE  \/ \E c \in Card, v \in Version, p \in Payload, u \in User, key \in Key :
              SubmitCandidate(c, v, p, u, key)
         \/ \E c \in Card : PlainAdvance(c)
         \/ \E c \in Card, p \in Payload, v \in Version, key \in Key :
              CompleteRedaction(c, p, v, key)
         \/ \E c \in Card, h \in Challenge, key \in Key :
              RequestPrivateApproval(c, h, key)
         \/ \E c \in Card, h \in Challenge, u \in User, key \in Key :
              ApprovePrivateRetention(c, h, u, key)
         \/ \E c \in Card : AnyRevoke(c)
         \/ \E r \in consents, key \in Key : RevokeConsentRecord(r, key)
         \/ \E h \in Challenge : ExpireChallenge(h)
         \/ UNCHANGED vars
<1>1. ASSUME NEW c \in Card, NEW key \in Key, NEW expected \in Expected,
             \/ DiscardRequested(c, expected, key)
             \/ DiscardRestored(c, expected, key)
             \/ ApprovalDigestInvalidated(c, expected, key)
      PROVE  PlainAdvance(c)
  <2> DEFINE moves == {<<"discard_requested", "discard_pending">>,
                       <<"discard_restored", "pending_review">>,
                       <<"approval_digest_invalidated", "pending_redaction">>}
  <2>1. PICK m \in moves : AppendCardEvent(c, m[1], m[2], expected, key)
    BY <1>1 DEF DiscardRequested, DiscardRestored, ApprovalDigestInvalidated
  <2>2. /\ m[1] \in EventType /\ m[2] \in Status \ {"approved_private", "revoked"}
        /\ "append_card_event" \in Operation /\ "app_user" \in Role
    BY DEF EventType, Status, PreReview, Operation, Role
  <2> QED BY <2>1, <2>2, ExpectedAssumption DEF AppendCardEvent, PlainAdvance
<1>2. ASSUME NEW c \in Card, NEW key \in Key, NEW expected \in Expected,
             AcceptAdmission(c, expected, key) \/ RequestRedaction(c, expected, key)
      PROVE  PlainAdvance(c)
  <2> DEFINE moves == {<<"accept_admission", "admission_accepted", "pending_admission">>,
                       <<"request_redaction", "redaction_requested", "pending_redaction">>}
  <2>1. PICK m \in moves : \E allowed :
          WorkerAdvanceCard(m[1], "ingestion_worker", m[2], allowed, m[3], c, expected, key)
    BY <1>2 DEF AcceptAdmission, RequestRedaction
  <2>2. /\ m[2] \in EventType /\ m[3] \in Status \ {"approved_private", "revoked"}
        /\ m[1] \in Operation /\ "ingestion_worker" \in Role
    BY DEF EventType, Status, PreReview, Operation, Role
  <2> QED BY <2>1, <2>2, ExpectedAssumption DEF WorkerAdvanceCard, PlainAdvance
<1>3. ASSUME NEW c \in Card, NEW key \in Key, NEW type \in {"card", "card_version"},
             RevokeSubject(type, c, key) \/ BreakGlassRevokeSubject(type, c, key)
      PROVE  AnyRevoke(c)
  BY <1>3 DEF RevokeSubject, BreakGlassRevokeSubject, AnyRevoke, Role
<1>4. CASE UNCHANGED vars
  BY <1>4
<1>5. CASE Next
  BY <1>1, <1>2, <1>3, <1>5 DEF Next
<1> QED BY <1>4, <1>5

\* Every step keeps the types.
LEMMA NextTypeInv == TypeInv /\ [Next]_vars => TypeInv'
<1> SUFFICES ASSUME TypeInv, [Next]_vars PROVE TypeInv'
  OBVIOUS
<1>1. ASSUME NEW c \in Card, PlainAdvance(c) PROVE TypeInv'
  BY <1>1, AdvanceTypeInv DEF PlainAdvance, Visible
<1>2. ASSUME NEW c \in Card, AnyRevoke(c) PROVE TypeInv'
  BY <1>2, RevokeTypeInv DEF AnyRevoke, Operation
<1> QED BY <1>1, <1>2, StepCases, SubmitTypeInv, CompleteRedactionTypeInv,
           RequestApprovalTypeInv, ApproveTypeInv, OtherTypeInv

\* Every row of every table has its type, in every reachable state.
THEOREM TypeCorrect == Spec => []TypeOK
<1>1. Spec => []TypeInv
  BY InitTypeInv, NextTypeInv, PTL DEF Spec
<1>2. TypeInv => TypeOK
  BY DEF TypeInv
<1> QED BY <1>1, <1>2, PTL

\* Whatever the order of redactions, invalidations, discards and restores, the
\* version a card points at is its own and the newest it has.
THEOREM CurrentNewest == Spec => []CurrentIsNewest
<1>1. Spec => []TypeInv
  BY InitTypeInv, NextTypeInv, PTL DEF Spec
<1>2. TypeInv => CurrentIsNewest
  BY DEF TypeInv
<1> QED BY <1>1, <1>2, PTL

-----------------------------------------------------------------------------
(* The event log and the idempotency rows. *)

\* A step of a card that exists, whichever operation makes it.
CardStep(c) ==
  \E op \in Operation, subject \in Card \cup Version, key \in Key, type \in EventType,
     role \in Role, to \in Status, expected \in Version \cup {None},
     current \in Version \cup {None} :
    /\ Visible(c)
    /\ Fresh(op, subject, key)
    /\ Advance(op, subject, key, c, type, role, to, expected, current)

\* Whatever moves an existing card appends one event to its own log, by a row of
\* the transition table, and leaves the other cards alone.
LEMMA CardSteps ==
  ASSUME TypeInv, NEW c \in Card,
         \/ PlainAdvance(c)
         \/ \E p \in Payload, v \in Version, key \in Key : CompleteRedaction(c, p, v, key)
         \/ \E h \in Challenge, key \in Key : RequestPrivateApproval(c, h, key)
         \/ \E h \in Challenge, u \in User, key \in Key :
              ApprovePrivateRetention(c, h, u, key)
         \/ AnyRevoke(c)
  PROVE  CardStep(c)
<1> DEFINE v == cards[c].current
<1>1. Visible(c)
  BY DEF PlainAdvance, CompleteRedaction, RequestPrivateApproval,
         ApprovePrivateRetention, MayApprove, AnyRevoke, Revoke
<1>2. v \in Version
  BY <1>1, CurrentTypes DEF Visible
<1> HIDE DEF v
<1>3. CASE PlainAdvance(c)
  BY <1>2, <1>3 DEF PlainAdvance, CardStep, v
<1>4. CASE \E p \in Payload, w \in Version, key \in Key : CompleteRedaction(c, p, w, key)
  <2>1. PICK p \in Payload, w \in Version, key \in Key : CompleteRedaction(c, p, w, key)
    BY <1>4
  <2>2. PICK new \in {v, w} :
          Advance("complete_redaction", c, key, c, "redaction_completed",
                  "redaction_worker", "pending_review", v, new)
    BY <2>1 DEF CompleteRedaction, v
  <2>3. Fresh("complete_redaction", c, key)
    BY <2>1 DEF CompleteRedaction
  <2>4. /\ "complete_redaction" \in Operation /\ "redaction_completed" \in EventType
        /\ "redaction_worker" \in Role /\ "pending_review" \in Status
    BY DEF Operation, EventType, Role, Status, PreReview
  <2> QED BY <1>1, <1>2, <2>2, <2>3, <2>4 DEF CardStep
<1>5. CASE \E h \in Challenge, key \in Key : RequestPrivateApproval(c, h, key)
  <2>1. /\ "request_private_approval" \in Operation /\ "review_worker" \in Role
        /\ "user_approval_requested" \in EventType /\ "awaiting_user_approval" \in Status
    BY DEF Operation, EventType, Role, Status, PreReview
  <2> QED BY <1>1, <1>2, <1>5, <2>1 DEF RequestPrivateApproval, CardStep, v
<1>6. CASE \E h \in Challenge, u \in User, key \in Key :
             ApprovePrivateRetention(c, h, u, key)
  <2>1. /\ "approve_private_retention" \in Operation /\ "app_user" \in Role
        /\ "private_approved" \in EventType /\ "approved_private" \in Status
    BY DEF Operation, EventType, Role, Status
  <2> QED BY <1>1, <1>2, <1>6, <2>1 DEF ApprovePrivateRetention, MayApprove, CardStep, v
<1>7. CASE AnyRevoke(c)
  <2>1. "revoked" \in EventType /\ "revoked" \in Status
    BY DEF EventType, Status
  <2> QED BY <1>1, <1>2, <1>7, <2>1 DEF AnyRevoke, Revoke, Operation, CardStep, v
<1> QED BY <1>3, <1>4, <1>5, <1>6, <1>7

\* Every step is a step of one card, the submission of one, or leaves the card
\* rows, the log and the idempotency rows alone.
LEMMA StepKinds ==
  ASSUME TypeInv, [Next]_vars
  PROVE  \/ \E c \in Card, v \in Version, p \in Payload, u \in User, key \in Key :
              SubmitCandidate(c, v, p, u, key)
         \/ \E c \in Card : CardStep(c)
         \/ UNCHANGED <<cards, log, idem, tombs, versions>>
<1>1. (UNCHANGED vars \/ (\E r \in consents, key \in Key : RevokeConsentRecord(r, key))
                     \/ (\E h \in Challenge : ExpireChallenge(h)))
      => UNCHANGED <<cards, log, idem, tombs, versions>>
  BY DEF vars, RevokeConsentRecord, ExpireChallenge
<1> QED BY <1>1, StepCases, CardSteps

\* What a step of card c does to the rows these invariants read.
LEMMA CardStepEffect ==
  ASSUME TypeInv, NEW c \in Card, CardStep(c)
  PROVE  \E e \in Event, r \in IdemRow :
           /\ e.prev = cards[c].status /\ e.next = cards'[c].status
           /\ Transition(e.prev, e.next, e.type, e.role)
           /\ log'[c] = Append(log[c], e)
           /\ \A d \in Card \ {c} : log'[d] = log[d] /\ cards'[d] = cards[d]
           /\ idem' = idem \cup {r}
           /\ r.card = c /\ r.seq = Len(log[c]) + 1
           /\ Fresh(r.op, r.subject, r.key)
           /\ Exists(c) /\ Exists(c)'
<1>1. PICK op \in Operation, subject \in Card \cup Version, key \in Key,
           type \in EventType, role \in Role, to \in Status,
           expected \in Version \cup {None}, current \in Version \cup {None} :
        /\ Visible(c) /\ Fresh(op, subject, key)
        /\ Advance(op, subject, key, c, type, role, to, expected, current)
  BY DEF CardStep
<1> DEFINE e == [type |-> type, role |-> role, prev |-> cards[c].status,
                 next |-> to, expected |-> expected]
           r == [op |-> op, subject |-> subject, key |-> key, card |-> c,
                 seq |-> Len(log[c]) + 1]
<1>2. cards'[c].status = to /\ \A d \in Card \ {c} : cards'[d] = cards[d]
  BY <1>1, AdvanceTypes DEF TypeInv
<1>3. e \in Event /\ r \in IdemRow
  <2>1. Len(log[c]) + 1 \in Nat \ {0}
    BY DEF TypeInv, TypeOK
  <2>2. cards[c].status \in Status \cup {None}
    BY DEF TypeInv, TypeOK, CardRow
  <2> QED BY <2>1, <2>2 DEF Event, IdemRow
<1>4. /\ log'[c] = Append(log[c], e) /\ \A d \in Card \ {c} : log'[d] = log[d]
      /\ idem' = idem \cup {r} /\ Transition(e.prev, e.next, e.type, e.role)
  BY <1>1 DEF Advance, TypeInv, TypeOK
<1>5. Exists(c) /\ Exists(c)'
  BY <1>1, <1>2, NoneAssumption DEF Visible, Exists
<1> QED BY <1>1, <1>2, <1>3, <1>4, <1>5

\* Every step keeps the status column equal to the outcome of the last event.
LEMMA NextStatusFromLog ==
  ASSUME TypeInv, StatusFromLog, [Next]_vars
  PROVE  StatusFromLog'
<1>1. ASSUME NEW c \in Card, NEW v \in Version, NEW p \in Payload, NEW u \in User,
             NEW key \in Key, SubmitCandidate(c, v, p, u, key)
      PROVE  StatusFromLog'
  <2> DEFINE e == [type |-> "card_created", role |-> "app_user", prev |-> None,
                   next |-> "candidate_created", expected |-> None]
  <2>1. log[c] = <<>>
    BY <1>1 DEF SubmitCandidate, StatusFromLog
  <2>2. log'[c] = <<e>> /\ \A d \in Card \ {c} : log'[d] = log[d]
    <3>1. log'[c] = Append(log[c], e) /\ \A d \in Card \ {c} : log'[d] = log[d]
      BY <1>1 DEF SubmitCandidate, TypeInv, TypeOK
    <3> QED BY <2>1, <3>1
  <2>3. cards'[c].status = "candidate_created" /\ \A d \in Card \ {c} : cards'[d] = cards[d]
    BY <1>1 DEF SubmitCandidate, TypeInv, TypeOK
  <2>4. "candidate_created" # None
    BY NoneAssumption DEF Status, PreReview
  <2>5. /\ log'[c] # <<>> /\ cards'[c].status # None /\ Len(log'[c]) = 1
        /\ log'[c][1].type = "card_created" /\ log'[c][1].next = "candidate_created"
    BY <2>2, <2>3, <2>4
  <2> HIDE DEF e
  <2>6. ASSUME NEW d \in Card
        PROVE  /\ cards'[d].status # None <=> log'[d] # <<>>
               /\ cards'[d].status # None =>
                    /\ log'[d][1].type = "card_created"
                    /\ log'[d][1].next = "candidate_created"
                    /\ cards'[d].status = log'[d][Len(log'[d])].next
               /\ \A i \in 2 .. Len(log'[d]) :
                    /\ log'[d][i].prev = log'[d][i - 1].next
                    /\ Transition(log'[d][i].prev, log'[d][i].next,
                                  log'[d][i].type, log'[d][i].role)
    <3>1. CASE d = c
      BY <3>1, <2>3, <2>5
    <3>2. CASE d # c
      BY <3>2, <2>2, <2>3 DEF StatusFromLog, Exists
    <3> QED BY <3>1, <3>2
  <2> QED BY <2>6 DEF StatusFromLog, Exists
<1>2. ASSUME NEW c \in Card, CardStep(c)
      PROVE  StatusFromLog'
  <2>1. PICK e \in Event :
          /\ e.prev = cards[c].status /\ e.next = cards'[c].status
          /\ Transition(e.prev, e.next, e.type, e.role)
          /\ log'[c] = Append(log[c], e)
          /\ \A d \in Card \ {c} : log'[d] = log[d] /\ cards'[d] = cards[d]
          /\ Exists(c) /\ Exists(c)'
    BY <1>2, CardStepEffect
  <2>2. log[c] \in Seq(Event) /\ log[c] # <<>> /\ Len(log[c]) \in Nat \ {0}
    BY <2>1 DEF StatusFromLog, TypeInv, TypeOK
  <2>3. /\ Len(log'[c]) = Len(log[c]) + 1 /\ log'[c][Len(log[c]) + 1] = e
        /\ \A i \in 1 .. Len(log[c]) : log'[c][i] = log[c][i]
    BY <2>1, <2>2
  <2>4. log[c][Len(log[c])].next = e.prev
    BY <2>1 DEF StatusFromLog
  <2>5. \A i \in 2 .. Len(log'[c]) :
          /\ log'[c][i].prev = log'[c][i - 1].next
          /\ Transition(log'[c][i].prev, log'[c][i].next, log'[c][i].type, log'[c][i].role)
    <3> TAKE i \in 2 .. Len(log'[c])
    <3>1. CASE i = Len(log[c]) + 1
      BY <3>1, <2>1, <2>2, <2>3, <2>4
    <3>2. CASE i # Len(log[c]) + 1
      <4>1. i \in 2 .. Len(log[c]) /\ i - 1 \in 1 .. Len(log[c]) /\ i \in 1 .. Len(log[c])
        BY <3>2, <2>2, <2>3
      <4> QED BY <4>1, <2>3 DEF StatusFromLog
    <3> QED BY <3>1, <3>2
  <2>6. /\ log'[c] # <<>> /\ log'[c][1] = log[c][1]
        /\ log'[c][Len(log'[c])].next = cards'[c].status
    BY <2>1, <2>2, <2>3
  <2>7. ASSUME NEW d \in Card
        PROVE  /\ cards'[d].status # None <=> log'[d] # <<>>
               /\ cards'[d].status # None =>
                    /\ log'[d][1].type = "card_created"
                    /\ log'[d][1].next = "candidate_created"
                    /\ cards'[d].status = log'[d][Len(log'[d])].next
               /\ \A i \in 2 .. Len(log'[d]) :
                    /\ log'[d][i].prev = log'[d][i - 1].next
                    /\ Transition(log'[d][i].prev, log'[d][i].next,
                                  log'[d][i].type, log'[d][i].role)
    <3>1. CASE d = c
      BY <3>1, <2>1, <2>5, <2>6 DEF StatusFromLog, Exists
    <3>2. CASE d # c
      BY <3>2, <2>1 DEF StatusFromLog, Exists
    <3> QED BY <3>1, <3>2
  <2> QED BY <2>7 DEF StatusFromLog, Exists
<1>3. CASE UNCHANGED <<cards, log, idem, tombs, versions>>
  BY <1>3 DEF StatusFromLog, Exists
<1> QED BY <1>1, <1>2, <1>3, StepKinds

\* Every step adds one idempotency row together with one event, or neither.
LEMMA NextOneEffect ==
  ASSUME TypeInv, StatusFromLog, OneEffectPerKey, [Next]_vars
  PROVE  OneEffectPerKey'
<1>1. ASSUME NEW c \in Card, NEW r \in IdemRow, NEW e,
             log[c] \in Seq(Event), log'[c] = Append(log[c], e),
             \A d \in Card \ {c} : log'[d] = log[d],
             idem' = idem \cup {r}, r.card = c, r.seq = Len(log[c]) + 1,
             Fresh(r.op, r.subject, r.key)
      PROVE  OneEffectPerKey'
  <2>1. \A s \in idem : s.card \in Card /\ s.seq \in Nat \ {0} /\ s.seq <= Len(log[s.card])
    BY DEF OneEffectPerKey, TypeInv, TypeOK, IdemRow
  <2>2. Len(log'[c]) = Len(log[c]) + 1 /\ Len(log[c]) \in Nat
    BY <1>1
  <2>3. \A s \in idem : ~ (s.card = r.card /\ s.seq = r.seq)
    BY <1>1, <2>1, <2>2
  <2>4. \A s, t \in idem' : (s.op = t.op /\ s.subject = t.subject /\ s.key = t.key) => s = t
    BY <1>1 DEF OneEffectPerKey, Fresh
  <2>5. \A s, t \in idem' : (s.card = t.card /\ s.seq = t.seq) => s = t
    BY <1>1, <2>3 DEF OneEffectPerKey
  <2>6. ASSUME NEW d \in Card, NEW i \in 1 .. Len(log'[d])
        PROVE  \E s \in idem' : s.card = d /\ s.seq = i
    <3>1. CASE d = c /\ i = Len(log[c]) + 1
      BY <1>1, <3>1
    <3>2. CASE ~ (d = c /\ i = Len(log[c]) + 1)
      <4>1. i \in 1 .. Len(log[d])
        BY <1>1, <2>2, <3>2
      <4> QED BY <1>1, <4>1 DEF OneEffectPerKey
    <3> QED BY <3>1, <3>2
  <2>7. \A s \in idem' : s.seq <= Len(log'[s.card])
    <3> TAKE s \in idem'
    <3>1. CASE s = r
      BY <1>1, <2>2, <3>1
    <3>2. CASE s \in idem /\ s.card = c
      BY <1>1, <2>1, <2>2, <3>2
    <3>3. CASE s \in idem /\ s.card # c
      BY <1>1, <2>1, <3>3
    <3> QED BY <1>1, <3>1, <3>2, <3>3
  <2> QED BY <2>4, <2>5, <2>6, <2>7 DEF OneEffectPerKey
<1>2. ASSUME NEW c \in Card, NEW v \in Version, NEW p \in Payload, NEW u \in User,
             NEW key \in Key, SubmitCandidate(c, v, p, u, key)
      PROVE  OneEffectPerKey'
  <2> DEFINE r == [op |-> "submit_candidate", subject |-> c, key |-> key,
                   card |-> c, seq |-> 1]
             e == [type |-> "card_created", role |-> "app_user", prev |-> None,
                   next |-> "candidate_created", expected |-> None]
  <2>1. r \in IdemRow /\ r.card = c /\ r.seq = 1 /\ Fresh(r.op, r.subject, r.key)
    BY <1>2 DEF IdemRow, Operation, SubmitCandidate
  <2>2. log[c] = <<>> /\ log[c] \in Seq(Event)
    BY <1>2 DEF SubmitCandidate, StatusFromLog, TypeInv, TypeOK
  <2>3. /\ log'[c] = Append(log[c], e) /\ idem' = idem \cup {r}
        /\ \A d \in Card \ {c} : log'[d] = log[d]
    BY <1>2 DEF SubmitCandidate, TypeInv, TypeOK
  <2>4. Len(log[c]) + 1 = 1
    BY <2>2
  <2> HIDE DEF r, e
  <2> QED BY <1>1, <2>1, <2>2, <2>3, <2>4
<1>3. ASSUME NEW c \in Card, CardStep(c)
      PROVE  OneEffectPerKey'
  <2>1. log[c] \in Seq(Event)
    BY DEF TypeInv, TypeOK
  <2>2. PICK e \in Event, r \in IdemRow :
          /\ log'[c] = Append(log[c], e)
          /\ \A d \in Card \ {c} : log'[d] = log[d]
          /\ idem' = idem \cup {r} /\ r.card = c /\ r.seq = Len(log[c]) + 1
          /\ Fresh(r.op, r.subject, r.key)
    BY <1>3, CardStepEffect
  <2> QED BY <1>1, <2>1, <2>2
<1>4. CASE UNCHANGED <<cards, log, idem, tombs, versions>>
  BY <1>4 DEF OneEffectPerKey
<1> QED BY <1>2, <1>3, <1>4, StepKinds

-----------------------------------------------------------------------------
(* Challenges and consents. *)

\* Version rows are never rewritten.
LEMMA VersionsKept ==
  ASSUME TypeInv, [Next]_vars
  PROVE  \A v \in Version : versions[v].card # None => versions'[v] = versions[v]
<1>1. ASSUME NEW c \in Card, NEW v \in Version, NEW p \in Payload, NEW u \in User,
             NEW key \in Key, SubmitCandidate(c, v, p, u, key)
      PROVE  \A w \in Version : versions[w].card # None => versions'[w] = versions[w]
  BY <1>1 DEF SubmitCandidate, TypeInv, TypeOK
<1>2. ASSUME NEW c \in Card, NEW p \in Payload, NEW v \in Version, NEW key \in Key,
             CompleteRedaction(c, p, v, key)
      PROVE  \A w \in Version : versions[w].card # None => versions'[w] = versions[w]
  BY <1>2 DEF CompleteRedaction, TypeInv, TypeOK
<1>3. \/ \E c \in Card : PlainAdvance(c) \/ AnyRevoke(c)
      \/ \E c \in Card, h \in Challenge, key \in Key : RequestPrivateApproval(c, h, key)
      \/ \E c \in Card, h \in Challenge, u \in User, key \in Key :
           ApprovePrivateRetention(c, h, u, key)
      \/ \E r \in consents, key \in Key : RevokeConsentRecord(r, key)
      \/ \E h \in Challenge : ExpireChallenge(h)
      \/ UNCHANGED vars
      => UNCHANGED versions
  BY DEF PlainAdvance, AnyRevoke, Revoke, RequestPrivateApproval,
         ApprovePrivateRetention, RevokeConsentRecord, ExpireChallenge, vars
<1> QED BY <1>1, <1>2, <1>3, StepCases

\* Nobody becomes the creator of a card that exists.
LEMMA CreatorKept ==
  ASSUME TypeInv, [Next]_vars
  PROVE  \A c \in Card : Exists(c) => Exists(c)' /\ cards'[c].creator = cards[c].creator
<1>1. ASSUME NEW c \in Card, NEW v \in Version, NEW p \in Payload, NEW u \in User,
             NEW key \in Key, SubmitCandidate(c, v, p, u, key)
      PROVE  \A d \in Card : Exists(d) => Exists(d)' /\ cards'[d].creator = cards[d].creator
  BY <1>1 DEF SubmitCandidate, TypeInv, TypeOK, Exists
<1>2. ASSUME NEW c \in Card, CardStep(c)
      PROVE  \A d \in Card : Exists(d) => Exists(d)' /\ cards'[d].creator = cards[d].creator
  <2>1. cards'[c].creator = cards[c].creator
    BY <1>2, AdvanceTypes DEF CardStep, TypeInv
  <2>2. Exists(c)' /\ \A d \in Card \ {c} : cards'[d] = cards[d]
    BY <1>2, CardStepEffect
  <2> QED BY <2>1, <2>2 DEF Exists
<1>3. CASE UNCHANGED <<cards, log, idem, tombs, versions>>
  BY <1>3 DEF Exists
<1> QED BY <1>1, <1>2, <1>3, StepKinds

\* Every step keeps challenges and consents bound to creator, version and digest.
LEMMA NextConsentBinding ==
  ASSUME TypeInv, ConsentBinding, [Next]_vars
  PROVE  ConsentBinding'
<1> DEFINE Asked(h) == challenges[h].version # None =>
             LET v == challenges[h].version
             IN /\ versions[v].card # None /\ challenges[h].payload = versions[v].payload
                /\ challenges[h].subject = cards[versions[v].card].creator
           Bound(r) == LET h == challenges[r.challenge]
                       IN /\ h.version = r.version /\ h.payload = r.payload
                          /\ h.subject = r.subject
                          /\ versions[r.version].card = r.card
           Once == \A r, s \in consents : r.challenge = s.challenge => r = s
           Spent(h) == challenges[h].used <=> \E r \in consents : r.challenge = h
<1>1. /\ \A h \in Challenge : challenges[h] \in ChallengeRow
      /\ \A v \in Version : versions[v] \in VersionRow
      /\ \A r \in consents : r \in Consent
  BY DEF TypeInv, TypeOK
<1>2. ASSUME NEW h \in Challenge, challenges'[h].version = challenges[h].version,
             challenges'[h].payload = challenges[h].payload,
             challenges'[h].subject = challenges[h].subject
      PROVE  Asked(h)'
  <2>1. Asked(h)
    BY DEF ConsentBinding
  <2>2. challenges[h].version \in Version \cup {None}
    BY <1>1 DEF ChallengeRow
  <2>3. CASE challenges[h].version = None
    BY <1>2, <2>3
  <2>4. CASE challenges[h].version # None
    <3> DEFINE v == challenges[h].version
    <3>1. v \in Version /\ versions'[v] = versions[v] /\ versions[v].card \in Card
      BY <1>1, <2>1, <2>2, <2>4, VersionsKept DEF VersionRow
    <3>2. Exists(versions[v].card)
      BY <2>1, <2>4, <3>1 DEF TypeInv, CurrentIsNewest
    <3>3. cards'[versions[v].card].creator = cards[versions[v].card].creator
      BY <3>1, <3>2, CreatorKept
    <3> QED BY <1>2, <2>1, <2>4, <3>1, <3>3
  <2> QED BY <2>2, <2>3, <2>4
<1>3. ASSUME NEW r \in consents,
             challenges'[r.challenge].version = challenges[r.challenge].version,
             challenges'[r.challenge].payload = challenges[r.challenge].payload,
             challenges'[r.challenge].subject = challenges[r.challenge].subject
      PROVE  Bound(r)'
  <2>1. Bound(r) /\ r.version \in Version /\ r.card \in Card
    BY <1>1 DEF ConsentBinding, Consent
  <2>2. versions'[r.version] = versions[r.version]
    BY <2>1, VersionsKept, NoneAssumption
  <2> QED BY <1>3, <2>1, <2>2
<1>4. CASE UNCHANGED <<challenges, consents>>
  <2>1. \A h \in Challenge : Asked(h)'
    BY <1>2, <1>4
  <2>2. \A r \in consents' : Bound(r)'
    BY <1>3, <1>4
  <2>3. Once' /\ \A h \in Challenge : Spent(h)'
    BY <1>4 DEF ConsentBinding
  <2> QED BY <2>1, <2>2, <2>3 DEF ConsentBinding
<1>5. ASSUME NEW h \in Challenge, ExpireChallenge(h)
      PROVE  ConsentBinding'
  <2>1. /\ UNCHANGED consents
        /\ \A g \in Challenge : /\ challenges'[g].version = challenges[g].version
                                 /\ challenges'[g].payload = challenges[g].payload
                                 /\ challenges'[g].subject = challenges[g].subject
                                 /\ challenges'[g].used = challenges[g].used
    BY <1>1, <1>5 DEF ExpireChallenge, TypeInv, TypeOK, ChallengeRow
  <2>2. \A g \in Challenge : Asked(g)'
    BY <1>2, <2>1
  <2>3. \A r \in consents' : Bound(r)'
    BY <1>1, <1>3, <2>1 DEF Consent
  <2>4. Once' /\ \A g \in Challenge : Spent(g)'
    BY <2>1 DEF ConsentBinding
  <2> QED BY <2>2, <2>3, <2>4 DEF ConsentBinding
<1>6. ASSUME NEW c \in Card, NEW h \in Challenge, NEW key \in Key,
             RequestPrivateApproval(c, h, key)
      PROVE  ConsentBinding'
  <2> DEFINE v == cards[c].current
  <2>1. /\ Exists(c) /\ UNCHANGED <<versions, consents>> /\ challenges[h].version = None
        /\ challenges' = [challenges EXCEPT ![h] =
             [version |-> v, payload |-> versions[v].payload,
              subject |-> cards[c].creator, used |-> FALSE, expired |-> FALSE]]
    BY <1>6 DEF RequestPrivateApproval, Visible
  <2>2. v \in Version /\ versions[v].card = c /\ cards'[c].creator = cards[c].creator
    BY <2>1, CurrentTypes, CreatorKept
  <2>3. /\ challenges'[h].version = v /\ challenges'[h].payload = versions[v].payload
        /\ challenges'[h].subject = cards[c].creator /\ ~ challenges'[h].used
        /\ \A g \in Challenge \ {h} : challenges'[g] = challenges[g]
    BY <2>1 DEF TypeInv, TypeOK
  <2>4. \A r \in consents : r.challenge \in Challenge \ {h}
    BY <1>1, <2>1, NoneAssumption DEF ConsentBinding, Consent
  <2>5. Asked(h)'
    BY <2>1, <2>2, <2>3, NoneAssumption
  <2>6. \A g \in Challenge \ {h} : Asked(g)'
    BY <1>2, <2>3
  <2>7. \A r \in consents' : Bound(r)'
    BY <1>3, <2>1, <2>3, <2>4
  <2>8. Once' /\ \A g \in Challenge : Spent(g)'
    BY <2>1, <2>3, <2>4 DEF ConsentBinding
  <2> QED BY <2>5, <2>6, <2>7, <2>8 DEF ConsentBinding
<1>7. ASSUME NEW c \in Card, NEW h \in Challenge, NEW u \in User, NEW key \in Key,
             ApprovePrivateRetention(c, h, u, key)
      PROVE  ConsentBinding'
  <2> DEFINE v == cards[c].current
  <2>0. PICK r : r = [challenge |-> h, version |-> v, payload |-> versions[v].payload,
                       subject |-> u, card |-> c, seq |-> Len(log[c]) + 1,
                       terminated |-> None]
    OBVIOUS
  <2>1. /\ Exists(c) /\ UNCHANGED versions
        /\ challenges[h].version = v /\ challenges[h].subject = u
        /\ challenges[h].payload = versions[v].payload /\ ~ challenges[h].used
        /\ challenges' = [challenges EXCEPT ![h].used = TRUE]
        /\ consents' = consents \cup {r}
    BY <1>7, <2>0 DEF ApprovePrivateRetention, MayApprove, Active, Visible
  <2>2. v \in Version /\ versions[v].card = c
    BY <2>1, CurrentTypes
  <2>3. /\ \A g \in Challenge : /\ challenges'[g].version = challenges[g].version
                                 /\ challenges'[g].payload = challenges[g].payload
                                 /\ challenges'[g].subject = challenges[g].subject
        /\ challenges'[h].used = TRUE
        /\ \A g \in Challenge \ {h} : challenges'[g].used = challenges[g].used
    BY <1>1, <2>1 DEF TypeInv, TypeOK, ChallengeRow
  <2>4. \A s \in consents : s.challenge \in Challenge \ {h}
    BY <1>1, <2>1 DEF ConsentBinding, Consent
  <2>5. \A g \in Challenge : Asked(g)'
    BY <1>2, <2>3
  <2>6. r.challenge = h /\ Bound(r)'
    BY <2>1, <2>2, <2>3, <2>0
  <2>7. \A s \in consents : Bound(s)'
    BY <1>3, <2>3, <2>4
  <2>8. Once'
    BY <2>1, <2>4, <2>6 DEF ConsentBinding
  <2>9. \A g \in Challenge : Spent(g)'
    BY <2>1, <2>3, <2>4, <2>6 DEF ConsentBinding
  <2> QED BY <2>1, <2>5, <2>6, <2>7, <2>8, <2>9 DEF ConsentBinding
<1>8. ASSUME NEW r \in consents, NEW key \in Key, RevokeConsentRecord(r, key)
      PROVE  ConsentBinding'
  <2> DEFINE s == [r EXCEPT !.terminated = key]
  <2>1. UNCHANGED challenges /\ consents' = (consents \ {r}) \cup {s}
    BY <1>8 DEF RevokeConsentRecord
  <2>2. /\ s.challenge = r.challenge /\ s.version = r.version /\ s.card = r.card
        /\ s.payload = r.payload /\ s.subject = r.subject
    BY <1>1 DEF Consent
  <2> HIDE DEF s
  <2>3. \A h \in Challenge : Asked(h)'
    BY <1>2, <2>1
  <2>4. \A q \in consents : Bound(q)'
    BY <1>3, <2>1
  <2>5. Bound(s)'
    BY <2>2, <2>4
  <2>6. Once' /\ \A h \in Challenge : Spent(h)'
    BY <2>1, <2>2 DEF ConsentBinding
  <2> QED BY <2>1, <2>3, <2>4, <2>5, <2>6 DEF ConsentBinding
<1>9. \/ \E c \in Card, v \in Version, p \in Payload, u \in User, key \in Key :
           SubmitCandidate(c, v, p, u, key)
      \/ \E c \in Card : PlainAdvance(c) \/ AnyRevoke(c)
      \/ \E c \in Card, p \in Payload, v \in Version, key \in Key :
           CompleteRedaction(c, p, v, key)
      \/ UNCHANGED vars
      => UNCHANGED <<challenges, consents>>
  BY DEF SubmitCandidate, PlainAdvance, AnyRevoke, Revoke, CompleteRedaction, vars
<1> QED BY <1>4, <1>5, <1>6, <1>7, <1>8, <1>9, StepCases

\* A card enters approved_private with its consent, and while it is there the consent
\* record stays, ended or not.
LEMMA NextRetained ==
  ASSUME TypeInv, ConsentBinding, RetainedWithConsent, [Next]_vars
  PROVE  RetainedWithConsent'
<1> DEFINE Kept(c) == \E r \in consents : /\ r.card = c /\ r.version = cards[c].current
                                         /\ r.seq = Len(log[c])
                                         /\ r.subject = cards[c].creator
<1>1. \A r \in consents : r \in Consent
  BY DEF TypeInv, TypeOK
\* A card the step leaves alone keeps its consent, terminated or not.
<1>2. ASSUME NEW d \in Card, cards'[d] = cards[d], log'[d] = log[d],
             \A r \in consents : \E s \in consents' :
               /\ s.card = r.card /\ s.version = r.version
               /\ s.seq = r.seq /\ s.subject = r.subject,
             cards'[d].status = "approved_private"
      PROVE  Kept(d)'
  <2>1. PICK r \in consents : /\ r.card = d /\ r.version = cards[d].current
                              /\ r.seq = Len(log[d]) /\ r.subject = cards[d].creator
    BY <1>2 DEF RetainedWithConsent
  <2>2. PICK s \in consents' : /\ s.card = r.card /\ s.version = r.version
                               /\ s.seq = r.seq /\ s.subject = r.subject
    BY <1>2
  <2> QED BY <1>2, <2>1, <2>2
<1>3. ASSUME NEW c \in Card, CardStep(c), UNCHANGED consents,
             cards'[c].status # "approved_private"
      PROVE  RetainedWithConsent'
  <2>1. \A d \in Card \ {c} : log'[d] = log[d] /\ cards'[d] = cards[d]
    BY <1>3, CardStepEffect
  <2> QED BY <1>2, <1>3, <2>1 DEF RetainedWithConsent
<1>4. ASSUME NEW c \in Card, PlainAdvance(c) PROVE RetainedWithConsent'
  <2>1. cards'[c].status # "approved_private"
    <3>1. cards[c].current \in Version \cup {None}
      BY DEF TypeInv, TypeOK, CardRow
    <3> QED BY <1>4, <3>1, AdvanceTypes DEF PlainAdvance, TypeInv
  <2>2. UNCHANGED consents
    BY <1>4 DEF PlainAdvance
  <2> QED BY <1>3, <1>4, <2>1, <2>2, CardSteps
<1>5. ASSUME NEW c \in Card, AnyRevoke(c) PROVE RetainedWithConsent'
  <2>1. UNCHANGED consents /\ cards'[c].status = "revoked"
    BY <1>5 DEF AnyRevoke, Revoke, Advance, TypeInv, TypeOK, CardRow
  <2> QED BY <1>3, <1>5, <2>1, CardSteps
<1>6. ASSUME NEW c \in Card, NEW p \in Payload, NEW v \in Version, NEW key \in Key,
             CompleteRedaction(c, p, v, key)
      PROVE  RetainedWithConsent'
  <2>1. UNCHANGED consents /\ cards'[c].status = "pending_review"
    BY <1>6 DEF CompleteRedaction, Advance, TypeInv, TypeOK, CardRow
  <2> QED BY <1>3, <1>6, <2>1, CardSteps
<1>7. ASSUME NEW c \in Card, NEW h \in Challenge, NEW key \in Key,
             RequestPrivateApproval(c, h, key)
      PROVE  RetainedWithConsent'
  <2>1. UNCHANGED consents /\ cards'[c].status = "awaiting_user_approval"
    BY <1>7 DEF RequestPrivateApproval, Advance, TypeInv, TypeOK, CardRow
  <2> QED BY <1>3, <1>7, <2>1, CardSteps
<1>8. ASSUME NEW c \in Card, NEW h \in Challenge, NEW u \in User, NEW key \in Key,
             ApprovePrivateRetention(c, h, u, key)
      PROVE  RetainedWithConsent'
  <2> DEFINE v == cards[c].current
  <2>0. PICK r : r = [challenge |-> h, version |-> v, payload |-> versions[v].payload,
                      subject |-> u, card |-> c, seq |-> Len(log[c]) + 1,
                      terminated |-> None]
    OBVIOUS
  <2>1. /\ Exists(c) /\ challenges[h].version = v /\ challenges[h].subject = u
        /\ consents' = consents \cup {r}
        /\ Advance("approve_private_retention", c, key, c, "private_approved",
                   "app_user", "approved_private", v, v)
    BY <1>8, <2>0 DEF ApprovePrivateRetention, MayApprove, Active, Visible
  <2>2. v \in Version /\ versions[v].card = c
    BY <2>1, CurrentTypes
  <2>3. u = cards[c].creator
    BY <2>1, <2>2, NoneAssumption DEF ConsentBinding
  <2>4. cards'[c].current = v /\ cards'[c].creator = cards[c].creator
    BY <2>1 DEF Advance, TypeInv, TypeOK, CardRow
  <2>5. Len(log'[c]) = Len(log[c]) + 1 /\ \A d \in Card \ {c} : log'[d] = log[d] /\ cards'[d] = cards[d]
    <3>1. CardStep(c) /\ log[c] \in Seq(Event)
      BY <1>8, CardSteps DEF TypeInv, TypeOK
    <3> QED BY <3>1, CardStepEffect
  <2>6. Kept(c)'
    BY <2>0, <2>1, <2>3, <2>4, <2>5
  <2> QED BY <1>2, <2>1, <2>5, <2>6 DEF RetainedWithConsent
<1>9. ASSUME NEW c \in Card, NEW v \in Version, NEW p \in Payload, NEW u \in User,
             NEW key \in Key, SubmitCandidate(c, v, p, u, key)
      PROVE  RetainedWithConsent'
  <2>1. /\ UNCHANGED consents /\ cards'[c].status = "candidate_created"
        /\ \A d \in Card \ {c} : log'[d] = log[d] /\ cards'[d] = cards[d]
    BY <1>9 DEF SubmitCandidate, TypeInv, TypeOK
  <2> QED BY <1>2, <2>1 DEF RetainedWithConsent
<1>10. ASSUME NEW r \in consents, NEW key \in Key, RevokeConsentRecord(r, key)
       PROVE  RetainedWithConsent'
  <2>1. \A q \in consents : \E s \in consents' :
          s.card = q.card /\ s.version = q.version /\ s.seq = q.seq /\ s.subject = q.subject
    <3>1. PICK t : t = [r EXCEPT !.terminated = key]
      OBVIOUS
    <3>2. t.card = r.card /\ t.version = r.version /\ t.seq = r.seq /\ t.subject = r.subject
      BY <1>1, <3>1 DEF Consent
    <3>3. consents' = (consents \ {r}) \cup {t}
      BY <1>10, <3>1 DEF RevokeConsentRecord
    <3> QED BY <3>2, <3>3
  <2> QED BY <1>2, <1>10, <2>1 DEF RevokeConsentRecord, RetainedWithConsent
<1>11. CASE UNCHANGED vars \/ \E h \in Challenge : ExpireChallenge(h)
  BY <1>2, <1>11 DEF vars, ExpireChallenge, RetainedWithConsent
<1> QED BY <1>4, <1>5, <1>6, <1>7, <1>8, <1>9, <1>10, <1>11, StepCases

-----------------------------------------------------------------------------
(* Revocation. *)

\* A card with a tombstone is not visible, so no step of it is possible.
LEMMA TombHides ==
  ASSUME TypeInv, StatusFromLog, RevokedIffTombstone, NEW t \in tombs
  PROVE  /\ t \in Tombstone /\ t.card \in Card /\ ~ CardNotRevoked(t.card)
         /\ Exists(t.card) /\ t.version = cards[t.card].current
         /\ versions[t.version].card = t.card /\ t.version \in Version
<1>1. t \in Tombstone /\ t.card \in Card /\ t.version \in Version /\ t.seq \in Nat \ {0}
  BY DEF TypeInv, TypeOK, Tombstone
<1>2. t.version = cards[t.card].current /\ t.seq = Len(log[t.card])
  BY DEF RevokedIffTombstone
<1>3. ~ CardNotRevoked(t.card)
  BY <1>1, <1>2 DEF CardNotRevoked, Tombstone
<1>4. log[t.card] # <<>>
  BY <1>1, <1>2 DEF TypeInv, TypeOK
<1>5. Exists(t.card)
  BY <1>1, <1>4 DEF StatusFromLog
<1> QED BY <1>1, <1>2, <1>3, <1>5, CurrentTypes

\* The status revoked and the tombstones are written in the same step.
LEMMA NextRevoked ==
  ASSUME TypeInv, StatusFromLog, RevokedIffTombstone, [Next]_vars
  PROVE  RevokedIffTombstone'
<1>1. TypeInv'
  BY NextTypeInv
<1> DEFINE Hidden(c) == cards[c].status = "revoked" <=> (Exists(c) /\ ~ CardNotRevoked(c))
           Last(t) == t.seq = Len(log[t.card]) /\ t.version = cards[t.card].current
\* A card the step leaves alone is as hidden as it was, if a tombstone the step
\* adds is for another card.
<1>2. ASSUME NEW d \in Card, cards'[d] = cards[d], Hidden(d),
             \A t \in tombs' : t \in tombs \/ (t.card # d /\ t.version # cards[d].current),
             tombs \subseteq tombs'
      PROVE  Hidden(d)'
  BY <1>2 DEF CardNotRevoked, Exists
<1>3. ASSUME NEW c \in Card, UNCHANGED <<tombs, epoch>>, ~ \E t \in tombs : t.card = c,
             \A d \in Card \ {c} : log'[d] = log[d] /\ cards'[d] = cards[d],
             Hidden(c)'
      PROVE  RevokedIffTombstone'
  <2>1. \A d \in Card : Hidden(d)'
    BY <1>2, <1>3 DEF RevokedIffTombstone
  <2>2. \A t \in tombs' : Last(t)'
    BY <1>3, TombHides DEF RevokedIffTombstone
  <2> QED BY <1>3, <2>1, <2>2 DEF RevokedIffTombstone
<1>4. ASSUME NEW c \in Card, CardStep(c)
      PROVE  ~ \E t \in tombs : t.card = c
  BY <1>4, TombHides DEF CardStep, Visible
<1>5. ASSUME NEW c \in Card, CardStep(c), UNCHANGED <<tombs, epoch>>,
             cards'[c].status # "revoked", cards'[c].current \in Version,
             versions'[cards'[c].current].card = c,
             cards'[c].current = cards[c].current \/ versions[cards'[c].current].card = None
      PROVE  RevokedIffTombstone'
  <2>1. /\ Exists(c) /\ CardNotRevoked(c)
        /\ \A d \in Card \ {c} : log'[d] = log[d] /\ cards'[d] = cards[d]
    BY <1>5, CardStepEffect DEF CardStep, Visible
  <2>2. \A t \in tombs : t.version # cards'[c].current
    <3> TAKE t \in tombs
    <3>1. versions[t.version].card = t.card /\ t.card # c /\ t.card # None
      BY <1>4, <1>5, TombHides, NoneAssumption
    <3>2. versions[cards[c].current].card = c
      BY <2>1, CurrentTypes
    <3> QED BY <1>5, <3>1, <3>2
  <2>3. Hidden(c)'
    BY <1>4, <1>5, <2>2 DEF CardNotRevoked
  <2> QED BY <1>3, <1>4, <1>5, <2>1, <2>3
<1>6. ASSUME NEW c \in Card, PlainAdvance(c) PROVE RevokedIffTombstone'
  <2>1. cards[c].current \in Version /\ versions[cards[c].current].card = c
    BY <1>6, CurrentTypes DEF PlainAdvance, Visible
  <2>2. /\ UNCHANGED <<versions, tombs, epoch>> /\ cards'[c].status # "revoked"
        /\ cards'[c].current = cards[c].current
    BY <1>6, <2>1, AdvanceTypes DEF PlainAdvance, TypeInv
  <2> QED BY <1>5, <1>6, <2>1, <2>2, CardSteps
<1>7. ASSUME NEW c \in Card, NEW p \in Payload, NEW v \in Version, NEW key \in Key,
             CompleteRedaction(c, p, v, key)
      PROVE  RevokedIffTombstone'
  <2>1. cards[c].current \in Version /\ Exists(c)'
    BY <1>7, CurrentTypes, CardSteps, CardStepEffect DEF CompleteRedaction, Visible
  <2>2. cards'[c].current \in Version /\ versions'[cards'[c].current].card = c
    BY <1>1, <2>1, CurrentTypes, NoneAssumption DEF TypeInv, TypeOK, CardRow, CurrentIsNewest
  <2>3. /\ UNCHANGED <<tombs, epoch>> /\ cards'[c].status = "pending_review"
        /\ cards'[c].current = cards[c].current \/ versions[cards'[c].current].card = None
    BY <1>7 DEF CompleteRedaction, Advance, TypeInv, TypeOK, CardRow
  <2> QED BY <1>5, <1>7, <2>2, <2>3, CardSteps
<1>8. ASSUME NEW c \in Card, NEW h \in Challenge, NEW key \in Key,
             \/ RequestPrivateApproval(c, h, key)
             \/ \E u \in User : ApprovePrivateRetention(c, h, u, key)
      PROVE  RevokedIffTombstone'
  <2>1. cards[c].current \in Version /\ versions[cards[c].current].card = c
    BY <1>8, CurrentTypes DEF RequestPrivateApproval, ApprovePrivateRetention, MayApprove, Active, Visible
  <2>2. CASE RequestPrivateApproval(c, h, key)
    <3>1. /\ UNCHANGED <<versions, tombs, epoch>> /\ cards'[c].status # "revoked"
          /\ cards'[c].current = cards[c].current
      BY <2>2 DEF RequestPrivateApproval, Advance, TypeInv, TypeOK, CardRow
    <3> QED BY <1>5, <1>8, <2>1, <3>1, CardSteps
  <2>3. CASE \E u \in User : ApprovePrivateRetention(c, h, u, key)
    <3>1. PICK u \in User : ApprovePrivateRetention(c, h, u, key)
      BY <2>3
    <3>2. /\ UNCHANGED <<versions, tombs, epoch>> /\ cards'[c].status # "revoked"
          /\ cards'[c].current = cards[c].current
      BY <3>1 DEF ApprovePrivateRetention, Advance, TypeInv, TypeOK, CardRow
    <3> QED BY <1>5, <1>8, <2>1, <3>2, CardSteps
  <2> QED BY <1>8, <2>2, <2>3
<1>9. ASSUME NEW c \in Card, AnyRevoke(c) PROVE RevokedIffTombstone'
  <2>1. PICK op \in {"revoke_subject", "break_glass_revoke_subject"}, role \in Role,
             type \in {"card", "card_version"}, key \in Key : Revoke(op, role, type, c, key)
    BY <1>9 DEF AnyRevoke
  <2>2. PICK t : t = [type |-> type, card |-> c, version |-> cards[c].current,
                      epoch |-> epoch + 1, seq |-> Len(log[c]) + 1]
    OBVIOUS
  <2>3. /\ tombs' = tombs \cup {t} /\ epoch' = epoch + 1 /\ epoch \in Nat
        /\ t.card = c /\ t.version = cards[c].current /\ t.epoch = epoch + 1
        /\ cards'[c].status = "revoked" /\ cards'[c].current = cards[c].current
    BY <2>1, <2>2 DEF Revoke, Advance, TypeInv, TypeOK, CardRow
  <2>4. CardStep(c) /\ log[c] \in Seq(Event)
    BY <1>9, CardSteps DEF TypeInv, TypeOK
  <2>5. /\ Exists(c) /\ Exists(c)' /\ Len(log'[c]) = Len(log[c]) + 1
        /\ \A d \in Card \ {c} : log'[d] = log[d] /\ cards'[d] = cards[d]
    BY <2>4, CardStepEffect
  <2>6. cards[c].current \in Version /\ versions[cards[c].current].card = c
    BY <2>5, CurrentTypes
  <2>7. \A s \in tombs : s.card # c /\ s.epoch \in 1 .. epoch
    <3>1. {s.epoch : s \in tombs} = 1 .. epoch
      BY DEF RevokedIffTombstone
    <3> QED BY <1>4, <2>4, <3>1
  <2>8. \A d \in Card \ {c} : Hidden(d)'
    <3> TAKE d \in Card \ {c}
    <3>1. CASE Exists(d)
      <4>1. cards[d].current # t.version
        BY <2>3, <2>6, <3>1, CurrentTypes
      <4> QED BY <1>2, <2>3, <2>5, <4>1 DEF RevokedIffTombstone
    <3>2. CASE ~ Exists(d)
      <4>1. cards'[d].status # "revoked" /\ ~ Exists(d)'
        BY <2>5, <3>2, NoneAssumption DEF Exists, Status
      <4> QED BY <4>1
    <3> QED BY <3>1, <3>2
  <2>9. Hidden(c)'
    BY <2>2, <2>3, <2>5 DEF CardNotRevoked
  <2>10. \A s \in tombs' : Last(s)'
    <3>1. Last(t)'
      BY <2>2, <2>3, <2>5
    <3>2. \A s \in tombs : Last(s)'
      BY <2>5, <2>7, TombHides DEF RevokedIffTombstone
    <3> QED BY <2>3, <3>1, <3>2
  <2>11. \A s, q \in tombs' : (s.card = q.card \/ s.epoch = q.epoch) => s = q
    BY <2>3, <2>7 DEF RevokedIffTombstone
  <2>12. {s.epoch : s \in tombs'} = 1 .. epoch'
    <3>1. {s.epoch : s \in tombs'} = {s.epoch : s \in tombs} \cup {epoch + 1}
      BY <2>3
    <3>2. {s.epoch : s \in tombs} = 1 .. epoch
      BY DEF RevokedIffTombstone
    <3>3. (1 .. epoch) \cup {epoch + 1} = 1 .. epoch + 1
      BY <2>3
    <3> QED BY <2>3, <3>1, <3>2, <3>3
  <2> QED BY <2>8, <2>9, <2>10, <2>11, <2>12 DEF RevokedIffTombstone
<1>10. ASSUME NEW c \in Card, NEW v \in Version, NEW p \in Payload, NEW u \in User,
              NEW key \in Key, SubmitCandidate(c, v, p, u, key)
       PROVE  RevokedIffTombstone'
  <2>1. /\ UNCHANGED <<tombs, epoch>> /\ versions[v].card = None /\ ~ Exists(c)
        /\ cards'[c].status = "candidate_created" /\ cards'[c].current = v
        /\ \A d \in Card \ {c} : log'[d] = log[d] /\ cards'[d] = cards[d]
    BY <1>10 DEF SubmitCandidate, TypeInv, TypeOK
  <2>2. \A t \in tombs : t.card # c /\ t.version # v
    BY <2>1, TombHides, NoneAssumption
  <2>3. Hidden(c)'
    BY <2>1, <2>2 DEF CardNotRevoked
  <2> QED BY <1>3, <2>1, <2>2, <2>3
<1>11. CASE UNCHANGED vars \/ (\E h \in Challenge : ExpireChallenge(h))
            \/ (\E r \in consents, key \in Key : RevokeConsentRecord(r, key))
  <2>1. UNCHANGED <<cards, log, tombs, epoch>>
    BY <1>11 DEF vars, ExpireChallenge, RevokeConsentRecord
  <2>2. \A d \in Card : Hidden(d)'
    BY <1>2, <2>1 DEF RevokedIffTombstone
  <2> QED BY <2>1, <2>2 DEF RevokedIffTombstone
<1> QED BY <1>6, <1>7, <1>8, <1>9, <1>10, <1>11, StepCases

-----------------------------------------------------------------------------
(* Nothing is rewritten. *)

\* A step adds at most one event, to one card, and changes that card's row only.
LEMMA LogKept ==
  ASSUME TypeInv, StatusFromLog, [Next]_vars, NEW c \in Card
  PROVE  \/ log'[c] = log[c] /\ cards'[c] = cards[c]
         \/ /\ Len(log'[c]) = Len(log[c]) + 1
            /\ SubSeq(log'[c], 1, Len(log[c])) = log[c]
            /\ \A d \in Card \ {c} : log'[d] = log[d]
<1> DEFINE Grown(b) == \E e : /\ log'[b] = Append(log[b], e)
                              /\ \A d \in Card \ {b} : log'[d] = log[d] /\ cards'[d] = cards[d]
<1>1. ASSUME NEW b \in Card, NEW v \in Version, NEW p \in Payload, NEW u \in User,
             NEW key \in Key, SubmitCandidate(b, v, p, u, key)
      PROVE  Grown(b)
  BY <1>1 DEF SubmitCandidate, TypeInv, TypeOK
<1>2. ASSUME NEW b \in Card, CardStep(b) PROVE Grown(b)
  BY <1>2, CardStepEffect
<1>3. ASSUME NEW b \in Card, Grown(b), b # c
      PROVE  log'[c] = log[c] /\ cards'[c] = cards[c]
  BY <1>3
<1>4. ASSUME Grown(c)
      PROVE  /\ Len(log'[c]) = Len(log[c]) + 1
             /\ SubSeq(log'[c], 1, Len(log[c])) = log[c]
             /\ \A d \in Card \ {c} : log'[d] = log[d]
  <2>1. PICK e : log'[c] = Append(log[c], e)
    BY <1>4
  <2>2. log[c] \in Seq(Event)
    BY DEF TypeInv, TypeOK
  <2>3. log'[c] \in Seq(Event)
    BY NextTypeInv DEF TypeInv, TypeOK
  <2>4. Len(log'[c]) = Len(log[c]) + 1 /\ Len(log[c]) \in Nat
    BY <2>1, <2>2
  <2>5. \A i \in 1 .. Len(log[c]) : log'[c][i] = log[c][i]
    BY <2>1, <2>2
  <2>6. SubSeq(log'[c], 1, Len(log[c])) = log[c]
    BY <2>2, <2>3, <2>4, <2>5
  <2> QED BY <1>4, <2>4, <2>6
<1>5. CASE UNCHANGED <<cards, log, idem, tombs, versions>>
  BY <1>5
<1>6. CASE \E b \in Card : Grown(b)
  BY <1>3, <1>4, <1>6
<1> HIDE DEF Grown
<1> QED BY <1>1, <1>2, <1>5, <1>6, StepKinds

\* Tombstones and idempotency rows stay.
LEMMA RowsKept ==
  ASSUME TypeInv, [Next]_vars
  PROVE  tombs \subseteq tombs' /\ idem \subseteq idem'
<1>1. idem \subseteq idem'
  <2>1. ASSUME NEW c \in Card, CardStep(c) PROVE idem \subseteq idem'
    BY <2>1, CardStepEffect
  <2>2. ASSUME NEW c \in Card, NEW v \in Version, NEW p \in Payload, NEW u \in User,
               NEW key \in Key, SubmitCandidate(c, v, p, u, key)
        PROVE  idem \subseteq idem'
    BY <2>2 DEF SubmitCandidate
  <2> QED BY <2>1, <2>2, StepKinds
<1>2. tombs \subseteq tombs'
  <2>1. ASSUME NEW c \in Card, AnyRevoke(c) PROVE tombs \subseteq tombs'
    BY <2>1 DEF AnyRevoke, Revoke
  <2>2. \/ \E c \in Card, v \in Version, p \in Payload, u \in User, key \in Key :
             SubmitCandidate(c, v, p, u, key)
        \/ \E c \in Card : PlainAdvance(c)
        \/ \E c \in Card, p \in Payload, v \in Version, key \in Key :
             CompleteRedaction(c, p, v, key)
        \/ \E c \in Card, h \in Challenge, key \in Key : RequestPrivateApproval(c, h, key)
        \/ \E c \in Card, h \in Challenge, u \in User, key \in Key :
             ApprovePrivateRetention(c, h, u, key)
        \/ \E r \in consents, key \in Key : RevokeConsentRecord(r, key)
        \/ \E h \in Challenge : ExpireChallenge(h)
        \/ UNCHANGED vars
        => UNCHANGED tombs
    BY DEF SubmitCandidate, PlainAdvance, CompleteRedaction, RequestPrivateApproval,
           ApprovePrivateRetention, RevokeConsentRecord, ExpireChallenge, vars
  <2> QED BY <2>1, <2>2, StepCases
<1> QED BY <1>1, <1>2

\* A spent challenge stays spent.
LEMMA SpentKept ==
  ASSUME TypeInv, ConsentBinding, [Next]_vars, NEW g \in Challenge, challenges[g].used
  PROVE  challenges'[g].used
<1>1. challenges \in [Challenge -> ChallengeRow] /\ challenges[g] \in ChallengeRow
  BY DEF TypeInv, TypeOK
<1>2. challenges[g].version # None
  <2>1. PICK r \in consents : r.challenge = g
    BY DEF ConsentBinding
  <2>2. challenges[g].version = r.version
    BY <2>1 DEF ConsentBinding
  <2>3. r.version \in Version
    BY DEF TypeInv, TypeOK, Consent
  <2> QED BY <2>2, <2>3, NoneAssumption
<1>3. ASSUME NEW c \in Card, NEW h \in Challenge, NEW key \in Key,
             RequestPrivateApproval(c, h, key)
      PROVE  challenges'[g].used
  <2>1. h # g
    BY <1>2, <1>3 DEF RequestPrivateApproval
  <2> QED BY <1>1, <1>3, <2>1 DEF RequestPrivateApproval
<1>4. ASSUME NEW c \in Card, NEW h \in Challenge, NEW u \in User, NEW key \in Key,
             ApprovePrivateRetention(c, h, u, key)
      PROVE  challenges'[g].used
  <2>1. challenges' = [challenges EXCEPT ![h].used = TRUE]
    BY <1>4 DEF ApprovePrivateRetention
  <2> QED BY <1>1, <2>1 DEF ChallengeRow
<1>5. ASSUME NEW h \in Challenge, ExpireChallenge(h) PROVE challenges'[g].used
  <2>1. challenges' = [challenges EXCEPT ![h].expired = TRUE]
    BY <1>5 DEF ExpireChallenge
  <2> QED BY <1>1, <2>1 DEF ChallengeRow
<1>6. \/ \E c \in Card, v \in Version, p \in Payload, u \in User, key \in Key :
           SubmitCandidate(c, v, p, u, key)
      \/ \E c \in Card : PlainAdvance(c) \/ AnyRevoke(c)
      \/ \E c \in Card, p \in Payload, v \in Version, key \in Key :
           CompleteRedaction(c, p, v, key)
      \/ \E r \in consents, key \in Key : RevokeConsentRecord(r, key)
      \/ UNCHANGED vars
      => UNCHANGED challenges
  BY DEF SubmitCandidate, PlainAdvance, AnyRevoke, Revoke, CompleteRedaction,
         RevokeConsentRecord, vars
<1> QED BY <1>3, <1>4, <1>5, <1>6, StepCases

\* A consent record stays, but for the key that terminates it.
LEMMA ConsentsKept ==
  ASSUME TypeInv, [Next]_vars, NEW q \in consents
  PROVE  \E s \in consents' : s = q \/ s = [q EXCEPT !.terminated = s.terminated]
<1>1. ASSUME NEW r \in consents, NEW key \in Key, RevokeConsentRecord(r, key)
      PROVE  \E s \in consents' : s = q \/ s = [q EXCEPT !.terminated = s.terminated]
  <2> DEFINE t == [r EXCEPT !.terminated = key]
  <2>1. consents' = (consents \ {r}) \cup {t}
    BY <1>1 DEF RevokeConsentRecord
  <2>2. t.terminated = key
    BY DEF TypeInv, TypeOK, Consent
  <2>3. CASE q = r
    BY <2>1, <2>2, <2>3
  <2>4. CASE q # r
    BY <2>1, <2>4
  <2> QED BY <2>3, <2>4
<1>2. ASSUME NEW c \in Card, NEW h \in Challenge, NEW u \in User, NEW key \in Key,
             ApprovePrivateRetention(c, h, u, key)
      PROVE  q \in consents'
  BY <1>2 DEF ApprovePrivateRetention
<1>3. \/ \E c \in Card, v \in Version, p \in Payload, u \in User, key \in Key :
           SubmitCandidate(c, v, p, u, key)
      \/ \E c \in Card : PlainAdvance(c) \/ AnyRevoke(c)
      \/ \E c \in Card, p \in Payload, v \in Version, key \in Key :
           CompleteRedaction(c, p, v, key)
      \/ \E c \in Card, h \in Challenge, key \in Key : RequestPrivateApproval(c, h, key)
      \/ \E h \in Challenge : ExpireChallenge(h)
      \/ UNCHANGED vars
      => UNCHANGED consents
  BY DEF SubmitCandidate, PlainAdvance, AnyRevoke, Revoke, CompleteRedaction,
         RequestPrivateApproval, ExpireChallenge, vars
<1> QED BY <1>1, <1>2, <1>3, StepCases

-----------------------------------------------------------------------------
(* The theorems. *)

\* The inductive invariant: each conjunct is needed by the step of another.
IInv == /\ TypeInv /\ StatusFromLog /\ OneEffectPerKey
        /\ ConsentBinding /\ RetainedWithConsent /\ RevokedIffTombstone

\* Empty tables satisfy the invariant.
LEMMA InitIInv == Init => IInv
<1> SUFFICES ASSUME Init PROVE IInv
  OBVIOUS
<1>1. TypeInv
  BY InitTypeInv
<1>2. \A c \in Card : cards[c].status = None /\ log[c] = <<>> /\ Len(log[c]) = 0
  BY DEF Init
<1>3. None # "approved_private" /\ None # "revoked"
  BY NoneAssumption DEF Status
<1>4. StatusFromLog
  <2>1. ASSUME NEW c \in Card, NEW i \in 2 .. Len(log[c]) PROVE FALSE
    <3>1. Len(log[c]) = 0
      BY <1>2
    <3>2. i \in 2 .. 0
      BY <3>1
    <3> QED BY <3>2
  <2>2. \A c \in Card : ~ Exists(c) /\ log[c] = <<>>
    BY <1>2 DEF Exists
  <2> QED BY <2>1, <2>2 DEF StatusFromLog
<1>5. OneEffectPerKey
  <2>1. idem = {} /\ \A c \in Card : 1 .. Len(log[c]) = {}
    BY <1>2 DEF Init
  <2> QED BY <2>1 DEF OneEffectPerKey
<1>6. ConsentBinding /\ RetainedWithConsent
  <2>1. consents = {} /\ \A h \in Challenge : challenges[h].version = None /\ ~ challenges[h].used
    BY DEF Init
  <2>2. ConsentBinding
    BY <2>1 DEF ConsentBinding
  <2>3. RetainedWithConsent
    BY <1>2, <1>3 DEF RetainedWithConsent
  <2> QED BY <2>2, <2>3
<1>7. RevokedIffTombstone
  <2>1. tombs = {} /\ epoch = 0
    BY DEF Init
  <2> QED BY <1>2, <1>3, <2>1 DEF RevokedIffTombstone, Exists
<1> QED BY <1>1, <1>4, <1>5, <1>6, <1>7 DEF IInv

\* The invariant is inductive: each part needs at most the parts before it.
LEMMA NextIInv == IInv /\ [Next]_vars => IInv'
  BY NextTypeInv, NextStatusFromLog, NextOneEffect, NextConsentBinding, NextRetained,
     NextRevoked DEF IInv

\* In every reachable state the invariant holds.
LEMMA Invariance == Spec => []IInv
  BY InitIInv, NextIInv, PTL DEF Spec

\* The lifecycle columns of experience_cards can be rebuilt from card_events.
THEOREM StatusRebuildable == Spec => []StatusFromLog
<1>1. IInv => StatusFromLog
  BY DEF IInv
<1> QED BY <1>1, Invariance, PTL

\* Repeated, delayed and duplicated calls with one idempotency key have one
\* effect, and every event has its key.
THEOREM Idempotent == Spec => []OneEffectPerKey
<1>1. IInv => OneEffectPerKey
  BY DEF IInv
<1> QED BY <1>1, Invariance, PTL

\* A challenge is used once, for what it showed, by whom it was shown to.
THEOREM ConsentIsExact == Spec => []ConsentBinding
<1>1. IInv => ConsentBinding
  BY DEF IInv
<1> QED BY <1>1, Invariance, PTL

\* No card is retained without its creator's consent to its current version.
THEOREM NoRetentionWithoutConsent == Spec => []RetainedWithConsent
<1>1. IInv => RetainedWithConsent
  BY DEF IInv
<1> QED BY <1>1, Invariance, PTL

\* Tombstones hide exactly the revoked cards, in the order of their epochs.
THEOREM TombstonesAreRevocations == Spec => []RevokedIffTombstone
<1>1. IInv => RevokedIffTombstone
  BY DEF IInv
<1> QED BY <1>1, Invariance, PTL

\* No step changes a revoked card or appends to its log.
THEOREM Finality == Spec => RevokedIsFinal
<1> DEFINE Final == \A c \in Card : cards[c].status = "revoked" =>
                      cards'[c] = cards[c] /\ log'[c] = log[c]
<1>1. IInv /\ [Next]_vars => [Final]_vars
  <2> SUFFICES ASSUME IInv, [Next]_vars, NEW d \in Card, cards[d].status = "revoked"
               PROVE  cards'[d] = cards[d] /\ log'[d] = log[d]
    OBVIOUS
  <2>1. ASSUME NEW c \in Card, CardStep(c)
        PROVE  cards'[d] = cards[d] /\ log'[d] = log[d]
    <3>1. cards[c].status # "revoked"
      <4>1. Exists(c) /\ CardNotRevoked(c)
        BY <2>1 DEF CardStep, Visible
      <4> QED BY <4>1 DEF IInv, RevokedIffTombstone
    <3> QED BY <2>1, <3>1, CardStepEffect DEF IInv
  <2>2. ASSUME NEW c \in Card, NEW v \in Version, NEW p \in Payload, NEW u \in User,
               NEW key \in Key, SubmitCandidate(c, v, p, u, key)
        PROVE  cards'[d] = cards[d] /\ log'[d] = log[d]
    <3>1. d # c
      BY <2>2, NoneAssumption DEF SubmitCandidate, Exists, Status
    <3> QED BY <2>2, <3>1 DEF SubmitCandidate, IInv, TypeInv, TypeOK
  <2> QED BY <2>1, <2>2, StepKinds DEF IInv
<1> QED BY <1>1, Invariance, PTL DEF Spec, RevokedIsFinal

\* Events, versions, tombstones and idempotency rows are added and never
\* rewritten; challenges stay spent, and consents keep what was consented to.
THEOREM NothingRewritten == Spec => AppendOnly
<1> DEFINE Kept ==
      /\ \A c \in Card :
           \/ log'[c] = log[c] /\ cards'[c] = cards[c]
           \/ /\ Len(log'[c]) = Len(log[c]) + 1
              /\ SubSeq(log'[c], 1, Len(log[c])) = log[c]
              /\ \A d \in Card \ {c} : log'[d] = log[d]
      /\ \A v \in Version : versions[v].card # None => versions'[v] = versions[v]
      /\ tombs \subseteq tombs' /\ idem \subseteq idem'
      /\ \A h \in Challenge : challenges[h].used => challenges'[h].used
      /\ \A r \in consents : \E s \in consents' :
           s = r \/ s = [r EXCEPT !.terminated = s.terminated]
<1>1. IInv /\ [Next]_vars => [Kept]_vars
  BY LogKept, VersionsKept, RowsKept, SpentKept, ConsentsKept DEF IInv
<1> QED BY <1>1, Invariance, PTL DEF Spec, AppendOnly

-----------------------------------------------------------------------------
(* One consent for a card. *)

\* The grant on record is the one the card stands on, or stood on when it was
\* revoked: the same version, the creator's, at the event where it was taken.
Granted(r) ==
  /\ r.version = cards[r.card].current /\ r.subject = cards[r.card].creator
  /\ \/ cards[r.card].status = "approved_private" /\ r.seq = Len(log[r.card])
     \/ cards[r.card].status = "revoked" /\ Len(log[r.card]) = r.seq + 1
  /\ log[r.card][r.seq].type = "private_approved"

\* Every consent record, ended or not, is the only one its card ever has.
OneGrant == \A r \in consents :
  Granted(r) /\ \A s \in consents : s.card = r.card => s = r

\* Every step keeps it: a card that has a consent can only be revoked, and a
\* card that is approved has none yet.
LEMMA NextOneGrant ==
  ASSUME IInv, OneGrant, [Next]_vars
  PROVE  OneGrant'
<1>1. /\ \A r \in consents : r \in Consent /\ r.card \in Card /\ r.seq \in Nat \ {0}
      /\ \A c \in Card : log[c] \in Seq(Event) /\ cards[c] \in CardRow
  BY DEF IInv, TypeInv, TypeOK, Consent
\* A grant whose card the step leaves alone.
<1>2. ASSUME NEW r \in consents, NEW s, s.card = r.card, s.version = r.version,
             s.seq = r.seq, s.subject = r.subject,
             cards'[r.card] = cards[r.card], log'[r.card] = log[r.card]
      PROVE  Granted(s)'
  BY <1>2 DEF OneGrant, Granted
\* A card without a consent moves on and takes none.
<1>3. ASSUME NEW c \in Card, UNCHANGED consents,
             \A d \in Card \ {c} : log'[d] = log[d] /\ cards'[d] = cards[d],
             cards[c].status \notin {"approved_private", "revoked"}
      PROVE  OneGrant'
  <2>1. \A r \in consents : r.card # c
    BY <1>3 DEF OneGrant, Granted
  <2> QED BY <1>1, <1>2, <1>3, <2>1 DEF OneGrant
<1>4. ASSUME NEW c \in Card, CardStep(c)
      PROVE  \A d \in Card \ {c} : log'[d] = log[d] /\ cards'[d] = cards[d]
  BY <1>4, CardStepEffect DEF IInv
<1>5. ASSUME NEW c \in Card, PlainAdvance(c) PROVE OneGrant'
  <2>1. CardStep(c) /\ UNCHANGED consents
    BY <1>5, CardSteps DEF IInv, PlainAdvance
  <2>2. cards[c].status \notin {"approved_private", "revoked"}
    BY <1>5 DEF PlainAdvance, Advance, Transition, PreReview
  <2> QED BY <1>3, <1>4, <2>1, <2>2
<1>6. ASSUME NEW c \in Card, NEW p \in Payload, NEW v \in Version, NEW key \in Key,
             CompleteRedaction(c, p, v, key)
      PROVE  OneGrant'
  <2>1. CardStep(c)
    BY <1>6, CardSteps DEF IInv
  <2>2. UNCHANGED consents /\ cards[c].status \notin {"approved_private", "revoked"}
    BY <1>6 DEF CompleteRedaction
  <2> QED BY <1>3, <1>4, <2>1, <2>2
<1>7. ASSUME NEW c \in Card, NEW h \in Challenge, NEW key \in Key,
             RequestPrivateApproval(c, h, key)
      PROVE  OneGrant'
  <2>1. CardStep(c)
    BY <1>7, CardSteps DEF IInv
  <2>2. UNCHANGED consents /\ cards[c].status \notin {"approved_private", "revoked"}
    BY <1>7 DEF RequestPrivateApproval
  <2> QED BY <1>3, <1>4, <2>1, <2>2
<1>8. ASSUME NEW c \in Card, AnyRevoke(c) PROVE OneGrant'
  <2>1. PICK op \in {"revoke_subject", "break_glass_revoke_subject"}, role \in Role,
             type \in {"card", "card_version"}, key \in Key : Revoke(op, role, type, c, key)
    BY <1>8 DEF AnyRevoke
  <2>2. /\ UNCHANGED consents /\ Visible(c)
        /\ cards'[c].status = "revoked" /\ cards'[c].current = cards[c].current
        /\ cards'[c].creator = cards[c].creator
    BY <1>1, <2>1 DEF Revoke, Advance, IInv, TypeInv, TypeOK, CardRow
  <2>3. CardStep(c) /\ cards[c].status # "revoked"
    <3>1. CardStep(c)
      BY <1>8, CardSteps DEF IInv
    <3>2. cards[c].status # "revoked"
      BY <2>2 DEF Visible, IInv, RevokedIffTombstone
    <3> QED BY <3>1, <3>2
  <2>4. PICK e \in Event : log'[c] = Append(log[c], e)
    BY <2>3, CardStepEffect DEF IInv
  <2>5. ASSUME NEW r \in consents, r.card = c PROVE Granted(r)'
    <3>1. /\ r.seq = Len(log[c]) /\ log[c][r.seq].type = "private_approved"
          /\ r.version = cards[c].current /\ r.subject = cards[c].creator
      BY <2>3, <2>5 DEF OneGrant, Granted
    <3>2. r.seq \in 1 .. Len(log[c])
      BY <1>1, <3>1
    <3>3. Len(log'[c]) = r.seq + 1 /\ log'[c][r.seq] = log[c][r.seq]
      BY <1>1, <2>4, <3>1, <3>2
    <3> QED BY <2>2, <2>5, <3>1, <3>3 DEF Granted
  <2>6. ASSUME NEW r \in consents, r.card # c PROVE Granted(r)'
    BY <1>1, <1>2, <1>4, <2>3, <2>6
  <2> QED BY <2>2, <2>5, <2>6 DEF OneGrant
<1>9. ASSUME NEW c \in Card, NEW h \in Challenge, NEW u \in User, NEW key \in Key,
             ApprovePrivateRetention(c, h, u, key)
      PROVE  OneGrant'
  <2> DEFINE v == cards[c].current
  <2>1. PICK r : r = [challenge |-> h, version |-> v, payload |-> versions[v].payload,
                      subject |-> u, card |-> c, seq |-> Len(log[c]) + 1,
                      terminated |-> None]
    OBVIOUS
  <2>2. PICK e : e = [type |-> "private_approved", role |-> "app_user",
                      prev |-> cards[c].status, next |-> "approved_private",
                      expected |-> v]
    OBVIOUS
  <2>3. /\ Exists(c) /\ cards[c].status = "awaiting_user_approval"
        /\ challenges[h].version = v /\ challenges[h].subject = u
        /\ consents' = consents \cup {r} /\ log'[c] = Append(log[c], e)
        /\ cards'[c].status = "approved_private" /\ cards'[c].current = v
        /\ cards'[c].creator = cards[c].creator
    BY <1>1, <1>9, <2>1, <2>2 DEF ApprovePrivateRetention, MayApprove, Active, Visible,
       Advance, IInv, TypeInv, TypeOK, CardRow
  <2>4. u = cards[c].creator
    <3>1. v \in Version /\ versions[v].card = c
      BY <2>3, CurrentTypes DEF IInv
    <3> QED BY <2>3, <3>1, NoneAssumption DEF IInv, ConsentBinding
  <2>5. \A q \in consents : q.card # c
    BY <2>3 DEF OneGrant, Granted
  <2>6. Granted(r)'
    <3>1. r.seq = Len(log[c]) + 1 /\ r.card = c /\ r.version = v /\ r.subject = u
      BY <2>1
    <3>2. Len(log'[c]) = Len(log[c]) + 1 /\ log'[c][r.seq] = e
      BY <1>1, <2>3, <3>1
    <3>3. e.type = "private_approved"
      BY <2>2
    <3> QED BY <2>3, <2>4, <3>1, <3>2, <3>3 DEF Granted
  <2>7. \A q \in consents : Granted(q)'
    <3>1. CardStep(c)
      BY <1>9, CardSteps DEF IInv
    <3> QED BY <1>1, <1>2, <1>4, <2>5, <3>1
  <2>8. r.card = c
    BY <2>1
  <2> QED BY <2>3, <2>5, <2>6, <2>7, <2>8 DEF OneGrant
<1>10. ASSUME NEW c \in Card, NEW v \in Version, NEW p \in Payload, NEW u \in User,
              NEW key \in Key, SubmitCandidate(c, v, p, u, key)
       PROVE  OneGrant'
  <2>1. /\ UNCHANGED consents /\ cards[c].status = None
        /\ \A d \in Card \ {c} : log'[d] = log[d] /\ cards'[d] = cards[d]
    BY <1>10 DEF SubmitCandidate, Exists, IInv, TypeInv, TypeOK
  <2>2. cards[c].status \notin {"approved_private", "revoked"}
    BY <2>1, NoneAssumption DEF Status
  <2> QED BY <1>3, <2>1, <2>2
<1>11. ASSUME NEW q \in consents, NEW key \in Key, RevokeConsentRecord(q, key)
       PROVE  OneGrant'
  <2>1. PICK t : t = [q EXCEPT !.terminated = key]
    OBVIOUS
  <2>2. t.card = q.card /\ t.version = q.version /\ t.seq = q.seq /\ t.subject = q.subject
    BY <1>1, <2>1 DEF Consent
  <2>3. consents' = (consents \ {q}) \cup {t} /\ UNCHANGED <<cards, log>>
    BY <1>11, <2>1 DEF RevokeConsentRecord
  <2>4. Granted(t)' /\ \A r \in consents : Granted(r)'
    BY <1>2, <2>2, <2>3
  <2> QED BY <2>2, <2>3, <2>4 DEF OneGrant
<1>12. CASE UNCHANGED vars \/ \E h \in Challenge : ExpireChallenge(h)
  <2>1. UNCHANGED <<cards, log, consents>>
    BY <1>12 DEF vars, ExpireChallenge
  <2> QED BY <2>1 DEF OneGrant, Granted
<1> QED BY <1>5, <1>6, <1>7, <1>8, <1>9, <1>10, <1>11, <1>12, StepCases DEF IInv

\* A card has at most one consent record for ever.  One that the user has ended
\* is not followed by another, and what it was given for is still what the card
\* holds: the same version, the same creator, at its last event or, once the card
\* is revoked, at the event before.
THEOREM OneConsentPerCard == Spec => []OneGrant
<1>1. Init => OneGrant
  BY DEF Init, OneGrant
<1>2. IInv /\ OneGrant /\ [Next]_vars => OneGrant'
  BY NextOneGrant
<1> QED BY <1>1, <1>2, Invariance, PTL DEF Spec

-----------------------------------------------------------------------------
(* The refinement: every step of the kernel is a step of CardLifecycle or     *)
(* leaves what the owner sees as it was.                                     *)

\* The owner's view: the arguments of the refinement mapping.
Stages == [c \in Card |-> OwnerStage(c)]
Held == {r.card : r \in {s \in consents : s.terminated = None}}
Revocations == [e \in 1 .. epoch |-> (CHOOSE t \in tombs : t.epoch = e).card]

\* The stage that a card's status stands for.
StageOf(status) ==
  IF status = "awaiting_user_approval" THEN "asked"
  ELSE IF status = "discard_pending" THEN "discarded"
  ELSE IF status = "approved_private" THEN "retained"
  ELSE IF status = "revoked" THEN "revoked" ELSE "open"

\* The owner's stage, read off the log, is that of the card's status.
LEMMA StageRead ==
  ASSUME IInv, [Next]_vars, NEW c \in Card
  PROVE  /\ Stages[c] = IF Exists(c) THEN StageOf(cards[c].status) ELSE "absent"
         /\ Stages'[c] = IF Exists(c)' THEN StageOf(cards'[c].status) ELSE "absent"
<1>1. StatusFromLog /\ StatusFromLog'
  BY NextIInv DEF IInv
<1>2. OwnerStage(c) = IF Exists(c) THEN StageOf(cards[c].status) ELSE "absent"
  BY <1>1 DEF StatusFromLog, OwnerStage, StageOf
<1>3. OwnerStage(c)' = IF Exists(c)' THEN StageOf(cards'[c].status) ELSE "absent"
  BY <1>1 DEF StatusFromLog, OwnerStage, StageOf
<1> QED BY <1>2, <1>3 DEF Stages

\* A step that appends to one card's log moves no other card's stage.
LEMMA OtherStages ==
  ASSUME NEW c \in Card, \A d \in Card \ {c} : log'[d] = log[d]
  PROVE  Stages' = [Stages EXCEPT ![c] = Stages'[c]]
<1>1. \A d \in Card \ {c} : OwnerStage(d)' = OwnerStage(d)
  BY DEF OwnerStage
<1> QED BY <1>1 DEF Stages

\* The owner sees a move of one card, or nothing.
Moves(c, from, to) == Stages[c] \in from /\ Stages' = [Stages EXCEPT ![c] = to]

\* The first event of a card takes it from "absent" to "open".
LEMMA SubmitMoves ==
  ASSUME IInv, [Next]_vars, NEW c \in Card, NEW v \in Version, NEW p \in Payload,
         NEW u \in User, NEW key \in Key, SubmitCandidate(c, v, p, u, key)
  PROVE  Moves(c, {"absent"}, "open") /\ UNCHANGED <<Held, Revocations>>
<1>1. ~ Exists(c) /\ UNCHANGED <<consents, tombs, epoch>>
  BY DEF SubmitCandidate
<1>2. \A d \in Card \ {c} : log'[d] = log[d]
  BY DEF SubmitCandidate, IInv, TypeInv, TypeOK
<1>3. cards'[c].status = "candidate_created" /\ Exists(c)'
  BY NoneAssumption DEF SubmitCandidate, IInv, TypeInv, TypeOK, Exists, Status, PreReview
<1>4. Stages[c] = "absent" /\ Stages'[c] = "open"
  BY <1>1, <1>3, StageRead DEF StageOf
<1>5. Stages' = [Stages EXCEPT ![c] = "open"]
  BY <1>2, <1>4, OtherStages
<1> QED BY <1>1, <1>4, <1>5 DEF Moves, Held, Revocations

\* Any later event moves the card as its row of the transition table says.
LEMMA CardStepMoves ==
  ASSUME IInv, [Next]_vars, NEW c \in Card, CardStep(c)
  PROVE  /\ Stages' = [Stages EXCEPT ![c] = StageOf(cards'[c].status)]
         /\ Stages[c] = StageOf(cards[c].status) /\ Stages = [d \in Card |-> Stages[d]]
         /\ \E type \in EventType, role \in Role :
              Transition(cards[c].status, cards'[c].status, type, role)
<1>1. PICK e \in Event :
        /\ e.prev = cards[c].status /\ e.next = cards'[c].status
        /\ Transition(e.prev, e.next, e.type, e.role)
        /\ \A d \in Card \ {c} : log'[d] = log[d]
        /\ Exists(c) /\ Exists(c)'
  BY CardStepEffect DEF IInv
<1>2. Stages[c] = StageOf(cards[c].status) /\ Stages'[c] = StageOf(cards'[c].status)
  BY <1>1, StageRead
<1>3. Stages' = [Stages EXCEPT ![c] = StageOf(cards'[c].status)]
  BY <1>1, <1>2, OtherStages
<1>4. Stages = [d \in Card |-> Stages[d]]
  BY DEF Stages
<1> QED BY <1>1, <1>2, <1>3, <1>4 DEF Event

\* What the advances that need no consent and revoke nothing do to the owner.
LEMMA PlainMoves ==
  ASSUME IInv, [Next]_vars, NEW c \in Card, CardStep(c),
         cards'[c].status \notin {"approved_private", "revoked"}
  PROVE  \/ Moves(c, {"open"}, "asked")
         \/ Moves(c, {"asked"}, "open")
         \/ Moves(c, {"open", "asked"}, "discarded")
         \/ Moves(c, {"discarded"}, "open")
         \/ Stages' = Stages
<1> DEFINE from == cards[c].status
           to == cards'[c].status
<1>1. /\ Stages' = [Stages EXCEPT ![c] = StageOf(to)] /\ Stages[c] = StageOf(from)
      /\ Stages = [d \in Card |-> Stages[d]]
      /\ \E type \in EventType, role \in Role : Transition(from, to, type, role)
  BY CardStepMoves
<1>2. \/ from \in {"candidate_created", "deferred", "pending_admission",
                   "pending_redaction"}
         /\ to \in {"pending_admission", "pending_redaction", "pending_review"}
      \/ from = "pending_review" /\ to = "awaiting_user_approval"
      \/ from = "awaiting_user_approval" /\ to = "pending_redaction"
      \/ from \in PreReview /\ to = "discard_pending"
      \/ from = "discard_pending" /\ to = "pending_review"
  BY <1>1 DEF Transition
<1> HIDE DEF from, to
<1>3. StageOf(from) = StageOf(to) => Stages' = Stages
  BY <1>1
<1>4. \/ StageOf(from) = "open" /\ StageOf(to) = "open"
      \/ StageOf(from) = "open" /\ StageOf(to) = "asked"
      \/ StageOf(from) = "asked" /\ StageOf(to) = "open"
      \/ StageOf(from) \in {"open", "asked"} /\ StageOf(to) = "discarded"
      \/ StageOf(from) = "discarded" /\ StageOf(to) = "open"
  BY <1>2 DEF StageOf, PreReview
<1> QED BY <1>1, <1>3, <1>4 DEF Moves

\* Consents in force are changed by their own two operations only, tombstones by
\* revocations.
LEMMA NothingHeld ==
  ASSUME \/ \E c \in Card : PlainAdvance(c)
         \/ \E c \in Card, p \in Payload, v \in Version, key \in Key :
              CompleteRedaction(c, p, v, key)
         \/ \E c \in Card, h \in Challenge, key \in Key : RequestPrivateApproval(c, h, key)
         \/ \E h \in Challenge : ExpireChallenge(h)
         \/ UNCHANGED vars
  PROVE  UNCHANGED <<Held, Revocations>>
<1>1. UNCHANGED <<consents, tombs, epoch>>
  BY DEF PlainAdvance, CompleteRedaction, RequestPrivateApproval, ExpireChallenge, vars
<1> QED BY <1>1 DEF Held, Revocations

\* Approval moves an asked card to "retained" and takes the consent.
LEMMA ApproveMoves ==
  ASSUME IInv, [Next]_vars, NEW c \in Card, NEW h \in Challenge, NEW u \in User,
         NEW key \in Key, ApprovePrivateRetention(c, h, u, key)
  PROVE  /\ Moves(c, {"asked"}, "retained") /\ Held' = Held \cup {c}
         /\ UNCHANGED Revocations
<1>1. CardStep(c)
  BY CardSteps DEF IInv
<1>2. /\ Stages' = [Stages EXCEPT ![c] = StageOf(cards'[c].status)]
      /\ Stages[c] = StageOf(cards[c].status)
  BY <1>1, CardStepMoves
<1>3. cards[c].status = "awaiting_user_approval" /\ cards'[c].status = "approved_private"
  BY DEF ApprovePrivateRetention, MayApprove, Advance, IInv, TypeInv, TypeOK, CardRow
<1>4. Held' = Held \cup {c}
  <2> DEFINE v == cards[c].current
             r == [challenge |-> h, version |-> v, payload |-> versions[v].payload,
                   subject |-> u, card |-> c, seq |-> Len(log[c]) + 1,
                   terminated |-> None]
  <2>1. consents' = consents \cup {r}
    BY DEF ApprovePrivateRetention
  <2>2. r.terminated = None /\ r.card = c
    OBVIOUS
  <2> HIDE DEF r
  <2> QED BY <2>1, <2>2 DEF Held
<1>5. UNCHANGED Revocations
  BY DEF ApprovePrivateRetention, Revocations
<1> QED BY <1>2, <1>3, <1>4, <1>5 DEF Moves, StageOf

\* A revocation moves a card that is there to "revoked" and takes the next epoch.
LEMMA RevokeMoves ==
  ASSUME IInv, [Next]_vars, NEW c \in Card, AnyRevoke(c)
  PROVE  /\ Moves(c, Lifecycle!Stage \ {"absent", "revoked"}, "revoked")
         /\ Revocations' = Append(Revocations, c) /\ UNCHANGED Held
<1>1. PICK op \in {"revoke_subject", "break_glass_revoke_subject"}, role \in Role,
           type \in {"card", "card_version"}, key \in Key : Revoke(op, role, type, c, key)
  BY DEF AnyRevoke
<1>2. CardStep(c)
  BY CardSteps DEF IInv
<1>3. /\ Stages' = [Stages EXCEPT ![c] = StageOf(cards'[c].status)]
      /\ Stages[c] = StageOf(cards[c].status)
  BY <1>2, CardStepMoves
<1>4. cards[c].status # "revoked" /\ cards'[c].status = "revoked"
  <2>1. CardNotRevoked(c)
    BY <1>1 DEF Revoke, Visible
  <2>2. cards[c].status # "revoked"
    BY <2>1 DEF IInv, RevokedIffTombstone
  <2> QED BY <1>1, <2>2 DEF Revoke, Advance, IInv, TypeInv, TypeOK, CardRow
<1>5. Revocations' = Append(Revocations, c)
  <2> DEFINE t == [type |-> type, card |-> c, version |-> cards[c].current,
                   epoch |-> epoch + 1, seq |-> Len(log[c]) + 1]
             Of(e, set) == (CHOOSE x \in set : x.epoch = e).card
  <2>1. epoch' = epoch + 1 /\ tombs' = tombs \cup {t} /\ epoch \in Nat
    BY <1>1 DEF Revoke, IInv, TypeInv, TypeOK
  <2>2. /\ {x.epoch : x \in tombs} = 1 .. epoch
        /\ \A x, y \in tombs : x.epoch = y.epoch => x = y
    BY DEF IInv, RevokedIffTombstone
  <2>3. t.epoch = epoch + 1 /\ t.card = c
    OBVIOUS
  <2> HIDE DEF t
  <2>4. \A x \in tombs : x.epoch \in 1 .. epoch
    BY <2>2
  <2>5. \A e \in 1 .. epoch : (CHOOSE x \in tombs' : x.epoch = e) =
                              (CHOOSE x \in tombs : x.epoch = e)
    <3>1. ASSUME NEW e \in 1 .. epoch
          PROVE  (CHOOSE x \in tombs' : x.epoch = e) = (CHOOSE x \in tombs : x.epoch = e)
      <4>1. PICK y \in tombs : y.epoch = e
        BY <2>2
      <4>2. \A x \in tombs : x.epoch = e <=> x = y
        BY <2>2, <4>1
      <4>3. \A x \in tombs' : x.epoch = e <=> x = y
        BY <2>1, <2>3, <4>1, <4>2
      <4>4. (CHOOSE x \in tombs' : x.epoch = e) = y
        BY <2>1, <4>1, <4>3
      <4> QED BY <4>1, <4>2, <4>4
    <3> QED BY <3>1
  <2>6. (CHOOSE x \in tombs' : x.epoch = epoch + 1) = t
    <3>1. \A x \in tombs' : x.epoch = epoch + 1 <=> x = t
      BY <2>1, <2>3, <2>4
    <3> QED BY <2>1, <2>3, <3>1
  <2>7. Revocations' = [e \in 1 .. epoch + 1 |->
                          IF e = epoch + 1 THEN c ELSE Revocations[e]]
    <3> DEFINE Then(e) == (CHOOSE x \in tombs' : x.epoch = e).card
               After(e) == IF e = epoch + 1 THEN c ELSE Revocations[e]
    <3>1. ASSUME NEW e \in 1 .. epoch PROVE Then(e) = Revocations[e]
      <4>1. Revocations[e] = (CHOOSE x \in tombs : x.epoch = e).card
        BY DEF Revocations
      <4> QED BY <2>5, <4>1
    <3>2. Then(epoch + 1) = c
      BY <2>3, <2>6
    <3>3. Revocations' = [e \in 1 .. epoch' |-> Then(e)]
      BY DEF Revocations
    <3> HIDE DEF Then
    <3>4. \A e \in 1 .. epoch + 1 : e # epoch + 1 => e \in 1 .. epoch
      BY <2>1
    <3>5. \A e \in 1 .. epoch + 1 : Then(e) = After(e)
      BY <3>1, <3>2, <3>4
    <3> HIDE DEF After
    <3>6. Revocations' = [e \in 1 .. epoch + 1 |-> After(e)]
      BY <2>1, <3>3, <3>5
    <3> QED BY <3>6 DEF After
  <2>8. Len(Revocations) = epoch /\ Revocations = [e \in 1 .. epoch |-> Revocations[e]]
    BY <2>1 DEF Revocations
  <2> QED BY <2>1, <2>7, <2>8
<1>6. UNCHANGED Held
  BY <1>1 DEF Revoke, Held
<1> QED BY <1>3, <1>4, <1>5, <1>6 DEF Moves, StageOf, Lifecycle!Stage

\* The end of a consent: its card is held no more, unless by another consent.
LEMMA EndsConsent ==
  ASSUME IInv, NEW r \in consents, NEW key \in Key, RevokeConsentRecord(r, key)
  PROVE  /\ r.card \in Held /\ r.card \in Card
         /\ Held' = Held \/ Held' = Held \ {r.card}
         /\ UNCHANGED <<Stages, Revocations>>
<1> DEFINE t == [r EXCEPT !.terminated = key]
<1>1. /\ r.terminated = None /\ consents' = (consents \ {r}) \cup {t}
      /\ UNCHANGED <<log, tombs, epoch>>
  BY DEF RevokeConsentRecord
<1>2. t.terminated # None /\ r.card \in Card
  BY NoneAssumption DEF IInv, TypeInv, TypeOK, Consent
<1>3. r.card \in Held
  BY <1>1 DEF Held
<1> HIDE DEF t
<1>4. Held' = {s.card : s \in {q \in consents \ {r} : q.terminated = None}}
  BY <1>1, <1>2 DEF Held
<1>5. Held' = Held \/ Held' = Held \ {r.card}
  BY <1>4 DEF Held
<1>6. UNCHANGED <<Stages, Revocations>>
  BY <1>1 DEF Stages, OwnerStage, Revocations
<1> QED BY <1>2, <1>3, <1>5, <1>6

\* The moves of the owner's view are the actions of CardLifecycle.
LEMMA LifecycleSteps ==
  ASSUME \/ UNCHANGED <<Stages, Held, Revocations>>
         \/ \E c \in Card :
              \/ Moves(c, {"absent"}, "open") /\ UNCHANGED <<Held, Revocations>>
              \/ Moves(c, {"open"}, "asked") /\ UNCHANGED <<Held, Revocations>>
              \/ Moves(c, {"asked"}, "open") /\ UNCHANGED <<Held, Revocations>>
              \/ Moves(c, {"open", "asked"}, "discarded") /\ UNCHANGED <<Held, Revocations>>
              \/ Moves(c, {"discarded"}, "open") /\ UNCHANGED <<Held, Revocations>>
              \/ /\ Moves(c, {"asked"}, "retained") /\ Held' = Held \cup {c}
                 /\ UNCHANGED Revocations
              \/ /\ c \in Held /\ Held' = Held \ {c}
                 /\ UNCHANGED <<Stages, Revocations>>
              \/ /\ Moves(c, Lifecycle!Stage \ {"absent", "revoked"}, "revoked")
                 /\ Revocations' = Append(Revocations, c) /\ UNCHANGED Held
  PROVE  [Lifecycle!Next]_(Lifecycle!vars)
<1>1. CASE UNCHANGED <<Stages, Held, Revocations>>
  BY <1>1 DEF Lifecycle!vars, Stages, Held, Revocations
<1>2. ASSUME NEW c \in Card, NEW from, NEW to, Moves(c, from, to)
      PROVE  Lifecycle!Move(c, from, to)
  BY <1>2 DEF Moves, Stages, Lifecycle!Move
<1> QED
  BY <1>1, <1>2 DEF Held, Revocations, Stages, Lifecycle!Next, Lifecycle!Create,
     Lifecycle!Ask, Lifecycle!Reconsider, Lifecycle!Discard, Lifecycle!Restore,
     Lifecycle!Retain, Lifecycle!EndConsent, Lifecycle!Revoke

\* No card, no consent and no revocation: the promise begins where the kernel does.
LEMMA InitLifecycle == Init => Lifecycle!Init
<1> SUFFICES ASSUME Init PROVE Lifecycle!Init
  OBVIOUS
<1>1. \A c \in Card : OwnerStage(c) = "absent"
  BY DEF Init, OwnerStage
<1>2. {r.card : r \in {s \in consents : s.terminated = None}} = {}
  BY DEF Init
<1>3. [e \in 1 .. epoch |-> (CHOOSE t \in tombs : t.epoch = e).card] = <<>>
  BY DEF Init
<1> QED BY <1>1, <1>2, <1>3 DEF Lifecycle!Init

\* Each kind of step as the owner sees it.
LEMMA NextLifecycle == IInv /\ [Next]_vars => [Lifecycle!Next]_(Lifecycle!vars)
<1> SUFFICES ASSUME IInv, [Next]_vars PROVE [Lifecycle!Next]_(Lifecycle!vars)
  OBVIOUS
<1>1. ASSUME NEW c \in Card, NEW v \in Version, NEW p \in Payload, NEW u \in User,
             NEW key \in Key, SubmitCandidate(c, v, p, u, key)
      PROVE  [Lifecycle!Next]_(Lifecycle!vars)
  BY <1>1, SubmitMoves, LifecycleSteps
<1>2. ASSUME NEW c \in Card,
             \/ PlainAdvance(c)
             \/ \E p \in Payload, v \in Version, key \in Key :
                  CompleteRedaction(c, p, v, key)
             \/ \E h \in Challenge, key \in Key : RequestPrivateApproval(c, h, key)
      PROVE  [Lifecycle!Next]_(Lifecycle!vars)
  <2>1. CardStep(c)
    BY <1>2, CardSteps DEF IInv
  <2>2. cards'[c].status \notin {"approved_private", "revoked"}
    <3>1. ASSUME NEW op \in Operation, NEW subject \in Card \cup Version, NEW key \in Key,
                 NEW type, NEW role, NEW to \in Status \ {"approved_private", "revoked"},
                 NEW expected, NEW current,
                 Advance(op, subject, key, c, type, role, to, expected, current)
          PROVE  cards'[c].status \notin {"approved_private", "revoked"}
      BY <3>1 DEF Advance, IInv, TypeInv, TypeOK, CardRow
    <3>2. {"pending_review", "awaiting_user_approval"} \subseteq
            Status \ {"approved_private", "revoked"}
      BY DEF Status, PreReview
    <3>3. "complete_redaction" \in Operation /\ "request_private_approval" \in Operation
      BY DEF Operation
    <3> QED
      BY <1>2, <3>1, <3>2, <3>3 DEF PlainAdvance, CompleteRedaction, RequestPrivateApproval
  <2>3. UNCHANGED <<Held, Revocations>>
    BY <1>2, NothingHeld
  <2> QED BY <2>1, <2>2, <2>3, PlainMoves, LifecycleSteps
<1>3. ASSUME NEW c \in Card, NEW h \in Challenge, NEW u \in User, NEW key \in Key,
             ApprovePrivateRetention(c, h, u, key)
      PROVE  [Lifecycle!Next]_(Lifecycle!vars)
  BY <1>3, ApproveMoves, LifecycleSteps
<1>4. ASSUME NEW c \in Card, AnyRevoke(c) PROVE [Lifecycle!Next]_(Lifecycle!vars)
  BY <1>4, RevokeMoves, LifecycleSteps
<1>5. ASSUME NEW r \in consents, NEW key \in Key, RevokeConsentRecord(r, key)
      PROVE  [Lifecycle!Next]_(Lifecycle!vars)
  BY <1>5, EndsConsent, LifecycleSteps
<1>6. ASSUME (\E h \in Challenge : ExpireChallenge(h)) \/ UNCHANGED vars
      PROVE  [Lifecycle!Next]_(Lifecycle!vars)
  <2>1. UNCHANGED Stages
    BY <1>6 DEF ExpireChallenge, vars, Stages, OwnerStage
  <2> QED BY <1>6, <2>1, NothingHeld, LifecycleSteps
<1> QED BY <1>1, <1>2, <1>3, <1>4, <1>5, <1>6, StepCases

\* The kernel keeps what CardLifecycle promises the owner of a card: consent is
\* taken in the step that retains, a revoked card is gone for good, and the
\* epochs of the tombstones number the revocations in the order they happened.
THEOREM KeepsThePromise == Spec => LifecycleSpec
<1>1. Init => Lifecycle!Init
  BY InitLifecycle
<1>2. IInv /\ [Next]_vars => [Lifecycle!Next]_(Lifecycle!vars)
  BY NextLifecycle
<1> QED BY <1>1, <1>2, Invariance, PTL DEF Spec, LifecycleSpec, Lifecycle!Spec

\* What an owner may conclude from where the cards are (s), from the consents in
\* force (h) and from the sequence of revocations (o), if the promise is kept: a
\* consent is in force only on a card that is retained, or was until it was
\* revoked, and the sequence names every revoked card exactly once.
OwnerMayConclude(s, h, o) ==
  /\ s \in [Card -> Lifecycle!Stage] /\ o \in Seq(Card)
  /\ h \subseteq {c \in Card : s[c] \in {"retained", "revoked"}}
  /\ \A c \in Card : s[c] = "revoked" <=> \E i \in 1 .. Len(o) : o[i] = c
  /\ \A i, j \in 1 .. Len(o) : o[i] = o[j] => i = j

\* A move of one card that neither retains nor revokes it.
LEMMA MoveConcludes ==
  ASSUME NEW s, NEW h, NEW o, OwnerMayConclude(s, h, o), NEW c \in Card,
         s[c] \notin {"retained", "revoked"}, NEW to \in Lifecycle!Stage \ {"revoked"}
  PROVE  OwnerMayConclude([s EXCEPT ![c] = to], h, o)
<1>1. [s EXCEPT ![c] = to] \in [Card -> Lifecycle!Stage]
  BY DEF OwnerMayConclude
<1>2. \A d \in Card : [s EXCEPT ![c] = to][d] = IF d = c THEN to ELSE s[d]
  BY DEF OwnerMayConclude
<1> QED BY <1>1, <1>2 DEF OwnerMayConclude

\* A revocation: its card is not yet in the sequence, and is its last entry.
LEMMA RevokeConcludes ==
  ASSUME NEW s, NEW h, NEW o, OwnerMayConclude(s, h, o), NEW c \in Card, s[c] # "revoked"
  PROVE  OwnerMayConclude([s EXCEPT ![c] = "revoked"], h, Append(o, c))
<1> DEFINE t == [s EXCEPT ![c] = "revoked"]
           q == Append(o, c)
<1>1. t \in [Card -> Lifecycle!Stage] /\ o \in Seq(Card) /\ q \in Seq(Card)
  BY DEF OwnerMayConclude, Lifecycle!Stage
<1>2. \A d \in Card : t[d] = IF d = c THEN "revoked" ELSE s[d]
  BY DEF OwnerMayConclude
<1>3. /\ Len(q) = Len(o) + 1 /\ q[Len(o) + 1] = c
      /\ \A i \in 1 .. Len(o) : q[i] = o[i] /\ o[i] # c /\ i \in 1 .. Len(q)
      /\ \A i \in 1 .. Len(q) : i = Len(o) + 1 \/ i \in 1 .. Len(o)
  BY <1>1 DEF OwnerMayConclude
<1> HIDE DEF t, q
<1>4. \A d \in Card : t[d] = "revoked" <=> \E i \in 1 .. Len(q) : q[i] = d
  <2>1. ASSUME NEW d \in Card, d # c
        PROVE  t[d] = "revoked" <=> \E i \in 1 .. Len(q) : q[i] = d
    <3>1. t[d] = "revoked" <=> \E i \in 1 .. Len(o) : o[i] = d
      BY <1>2, <2>1 DEF OwnerMayConclude
    <3> QED BY <1>3, <2>1, <3>1
  <2>2. t[c] = "revoked" /\ \E i \in 1 .. Len(q) : q[i] = c
    <3>1. Len(o) + 1 \in 1 .. Len(q)
      BY <1>1, <1>3
    <3> QED BY <1>2, <1>3, <3>1
  <2> QED BY <2>1, <2>2
<1>5. \A i, j \in 1 .. Len(q) : q[i] = q[j] => i = j
  <2>1. ASSUME NEW i \in 1 .. Len(q), NEW j \in 1 .. Len(q), q[i] = q[j] PROVE i = j
    <3>1. CASE i \in 1 .. Len(o) /\ j \in 1 .. Len(o)
      BY <1>3, <2>1, <3>1 DEF OwnerMayConclude
    <3>2. CASE i \notin 1 .. Len(o) \/ j \notin 1 .. Len(o)
      BY <1>3, <2>1, <3>2
    <3> QED BY <3>1, <3>2
  <2> QED BY <2>1
<1>6. h \subseteq {d \in Card : t[d] \in {"retained", "revoked"}}
  BY <1>2 DEF OwnerMayConclude
<1> QED BY <1>1, <1>4, <1>5, <1>6 DEF OwnerMayConclude, t, q

\* It follows from the promise alone, and so holds of the kernel that keeps it.
LEMMA PromiseConcludes == LifecycleSpec => []OwnerMayConclude(Stages, Held, Revocations)
<1> DEFINE Inv == OwnerMayConclude(Stages, Held, Revocations)
<1>1. Lifecycle!Init => Inv
  <2> SUFFICES ASSUME Lifecycle!Init PROVE Inv
    OBVIOUS
  <2>1. Stages = [c \in Card |-> "absent"] /\ Held = {} /\ Revocations = <<>>
    BY DEF Lifecycle!Init, Stages, Held, Revocations
  <2>2. "absent" \in Lifecycle!Stage /\ <<>> \in Seq(Card) /\ Len(<<>>) = 0 /\ 1 .. 0 = {}
    BY DEF Lifecycle!Stage
  <2> QED BY <2>1, <2>2 DEF OwnerMayConclude
<1>2. Inv /\ [Lifecycle!Next]_(Lifecycle!vars) => Inv'
  <2> SUFFICES ASSUME Inv, [Lifecycle!Next]_(Lifecycle!vars) PROVE Inv'
    OBVIOUS
  <2>1. CASE UNCHANGED Lifecycle!vars
    <3>1. UNCHANGED <<Stages, Held, Revocations>>
      BY <2>1 DEF Lifecycle!vars, Stages, Held, Revocations
    <3> QED BY <3>1
  <2>2. CASE Lifecycle!Next
    <3>1. PICK c \in Card :
            \/ \E to \in Lifecycle!Stage \ {"revoked"} :
                 /\ Stages[c] \notin {"retained", "revoked"}
                 /\ Stages' = [Stages EXCEPT ![c] = to]
                 /\ Held' = Held \/ (to = "retained" /\ Held' = Held \cup {c})
                 /\ UNCHANGED Revocations
            \/ Held' = Held \ {c} /\ UNCHANGED <<Stages, Revocations>>
            \/ /\ Stages[c] # "revoked" /\ Stages' = [Stages EXCEPT ![c] = "revoked"]
               /\ Revocations' = Append(Revocations, c) /\ UNCHANGED Held
      <4>1. ASSUME NEW c \in Card, NEW from, NEW to, Lifecycle!Move(c, from, to)
            PROVE  Moves(c, from, to)
        BY <4>1 DEF Moves, Stages, Lifecycle!Move
      <4>2. PICK c \in Card :
              \/ \E to \in {"open", "asked", "discarded"} :
                   /\ Moves(c, {"absent", "open", "asked", "discarded"}, to)
                   /\ UNCHANGED <<Held, Revocations>>
              \/ /\ Moves(c, {"asked"}, "retained") /\ Held' = Held \cup {c}
                 /\ UNCHANGED Revocations
              \/ Held' = Held \ {c} /\ UNCHANGED <<Stages, Revocations>>
              \/ /\ Moves(c, Lifecycle!Stage \ {"absent", "revoked"}, "revoked")
                 /\ Revocations' = Append(Revocations, c) /\ UNCHANGED Held
        <5>1. PICK c \in Card :
                \/ Lifecycle!Create(c) \/ Lifecycle!Ask(c) \/ Lifecycle!Reconsider(c)
                \/ Lifecycle!Discard(c) \/ Lifecycle!Restore(c) \/ Lifecycle!Retain(c)
                \/ Lifecycle!EndConsent(c) \/ Lifecycle!Revoke(c)
          BY <2>2 DEF Lifecycle!Next
        <5>2. CASE \/ Lifecycle!Create(c) \/ Lifecycle!Ask(c) \/ Lifecycle!Reconsider(c)
                   \/ Lifecycle!Discard(c) \/ Lifecycle!Restore(c)
          <6>1. /\ \E from \in {{"absent"}, {"open"}, {"asked"}, {"open", "asked"}, {"discarded"}},
                      to \in {"open", "asked", "discarded"} : Moves(c, from, to)
                /\ UNCHANGED <<Held, Revocations>>
            BY <4>1, <5>2 DEF Lifecycle!Create, Lifecycle!Ask, Lifecycle!Reconsider,
               Lifecycle!Discard, Lifecycle!Restore, Held, Revocations
          <6> QED BY <6>1 DEF Moves
        <5>3. CASE Lifecycle!Retain(c)
          BY <4>1, <5>3 DEF Lifecycle!Retain, Held, Revocations
        <5>4. CASE Lifecycle!EndConsent(c)
          BY <5>4 DEF Lifecycle!EndConsent, Held, Stages, Revocations
        <5>5. CASE Lifecycle!Revoke(c)
          BY <4>1, <5>5 DEF Lifecycle!Revoke, Held, Revocations
        <5> QED BY <5>1, <5>2, <5>3, <5>4, <5>5
      <4> QED BY <4>2 DEF Moves, Lifecycle!Stage
    <3>2. CASE \E to \in Lifecycle!Stage \ {"revoked"} :
                 /\ Stages[c] \notin {"retained", "revoked"}
                 /\ Stages' = [Stages EXCEPT ![c] = to]
                 /\ Held' = Held \/ (to = "retained" /\ Held' = Held \cup {c})
                 /\ UNCHANGED Revocations
      <4>1. PICK to \in Lifecycle!Stage \ {"revoked"} :
              /\ Stages[c] \notin {"retained", "revoked"}
              /\ Stages' = [Stages EXCEPT ![c] = to]
              /\ Held' = Held \/ (to = "retained" /\ Held' = Held \cup {c})
              /\ UNCHANGED Revocations
        BY <3>2
      <4>2. OwnerMayConclude(Stages', Held, Revocations')
        BY <4>1, MoveConcludes
      <4>3. to = "retained" => Stages'[c] = "retained"
        BY <4>1 DEF OwnerMayConclude
      <4> QED BY <4>1, <4>2, <4>3 DEF OwnerMayConclude
    <3>3. CASE Held' = Held \ {c} /\ UNCHANGED <<Stages, Revocations>>
      BY <3>3 DEF OwnerMayConclude
    <3>4. CASE /\ Stages[c] # "revoked" /\ Stages' = [Stages EXCEPT ![c] = "revoked"]
               /\ Revocations' = Append(Revocations, c) /\ UNCHANGED Held
      <4>1. OwnerMayConclude(Stages', Held, Revocations')
        BY <3>4, RevokeConcludes
      <4> QED BY <3>4, <4>1
    <3> QED BY <3>1, <3>2, <3>3, <3>4
  <2> QED BY <2>1, <2>2
<1> QED BY <1>1, <1>2, PTL DEF LifecycleSpec, Lifecycle!Spec

\* In every reachable state of the kernel a consent is in force only on a card
\* that is approved_private or was when it was revoked, and the tombstones, in the
\* order of their epochs, name every revoked card exactly once.
THEOREM OwnerIsNotMisled == Spec => []OwnerMayConclude(Stages, Held, Revocations)
  BY KeepsThePromise, PromiseConcludes, PTL

-----------------------------------------------------------------------------
(* What a command has picked and what was handed off. *)

\* A candidate names a version that belongs to a card, which it does for ever.
Sound(a) == a \in Candidate /\ versions[a.version].card \in Card

Carried ==
  /\ handoffs \in [Challenge -> Handoff \cup {None}]
  /\ picked \in [Operator -> Candidate \cup {None}]
  /\ records \in [Record -> RecordRow \cup {None}]
  /\ \A o \in Operator : picked[o] # None => Sound(picked[o])
  /\ \A h \in Challenge : handoffs[h] # None =>
       /\ Sound(handoffs[h].of) /\ handoffs[h].of.challenge = h
       /\ handoffs[h].digest = ApprovalHandoffDigest(handoffs[h].of, handoffs[h].digest[2])

\* The kernel's own invariant is part of it: that a candidate has a card and a
\* subject follows from what the kernel knows of its challenges.
AllIInv == IInv /\ Carried

\* The candidate of a ready challenge is sound, because its version is the
\* current one of a card and its subject that card's creator.
LEMMA ReadyIsSound ==
  ASSUME IInv, NEW h \in Challenge, Ready(h)
  PROVE  Sound(CandidateOf(h))
<1>1. PICK c \in Card : /\ cards[c].status = "awaiting_user_approval"
                        /\ cards[c].current = challenges[h].version
                        /\ challenges[h].payload = versions[cards[c].current].payload
  BY DEF Ready
<1>2. Exists(c)
  BY <1>1, NoneAssumption DEF Exists, Status, PreReview
<1> DEFINE v == challenges[h].version
<1>3. /\ v \in Version /\ versions[v].card = c /\ versions[v].payload \in Payload
      /\ cards[c].creator \in User
  BY <1>1, <1>2, CurrentTypes DEF IInv
<1>4. challenges[h].subject = cards[c].creator
  BY <1>3, NoneAssumption DEF IInv, ConsentBinding
<1> QED BY <1>1, <1>3, <1>4 DEF Sound, CandidateOf, Candidate

\* A candidate stays sound, for versions are never rewritten.
LEMMA SoundKept ==
  ASSUME IInv, [Next]_vars, NEW a, Sound(a)
  PROVE  Sound(a)'
<1>1. a.version \in Version /\ versions[a.version].card # None
  BY NoneAssumption DEF Sound, Candidate
<1>2. versions'[a.version] = versions[a.version]
  BY <1>1, VersionsKept DEF IInv
<1> QED BY <1>2 DEF Sound

\* The completion of a retention is the kernel's own approval by the subject.
LEMMA CompletionApproves ==
  ASSUME AllIInv, NEW h \in Challenge, NEW key \in Key, CompleteRetention(h, key)
  PROVE  Next
<1> DEFINE a == handoffs[h].of
           c == versions[a.version].card
<1>1. handoffs[h] # None /\ ApprovePrivateRetention(c, h, a.subject, key)
  BY DEF CompleteRetention, HandoffActive
<1>2. c \in Card /\ a.subject \in User
  BY <1>1 DEF AllIInv, Carried, Sound, Candidate
<1> QED BY <1>1, <1>2 DEF Next

\* Every step is one of the kernel's, or leaves all its tables alone.
LEMMA StepOfKernel ==
  ASSUME AllIInv, [AllNext]_allVars
  PROVE  [Next]_vars
<1>1. ASSUME NEW h \in Challenge, NEW key \in Key, CompleteRetention(h, key)
      PROVE  Next
  BY <1>1, CompletionApproves
<1>2. CASE KernelStep
  BY <1>2 DEF KernelStep
<1>3. CASE \E o \in Operator : \/ \E h \in Challenge : PickCandidate(o, h)
                               \/ \E zone \in Zone : InsertHandoff(o, zone)
  BY <1>3 DEF PickCandidate, InsertHandoff
<1>4. CASE \E h \in Challenge, r \in Record : StoreRecord(r, h)
  BY <1>4 DEF StoreRecord
<1>5. CASE \E r \in Record : RevokeRecord(r) \/ PurgeRecord(r)
  BY <1>5 DEF RevokeRecord, PurgeRecord
<1>6. CASE UNCHANGED allVars
  BY <1>6 DEF allVars
<1> QED BY <1>1, <1>2, <1>3, <1>4, <1>5, <1>6 DEF AllNext

-----------------------------------------------------------------------------
(* The invariant. *)

\* A step that leaves handoffs, commands and records alone.
LEMMA CarriedKept ==
  ASSUME AllIInv, [Next]_vars, UNCHANGED <<handoffs, picked, records>>
  PROVE  Carried'
<1>1. \A o \in Operator : picked[o] # None => Sound(picked[o])'
  BY SoundKept DEF AllIInv, Carried
<1>2. \A h \in Challenge : handoffs[h] # None => Sound(handoffs[h].of)'
  BY SoundKept DEF AllIInv, Carried
<1> QED BY <1>1, <1>2 DEF AllIInv, Carried, Sound, ApprovalHandoffDigest

\* A candidate that is read is its challenge's.
LEMMA PickKeeps ==
  ASSUME AllIInv, NEW o \in Operator, NEW h \in Challenge, PickCandidate(o, h)
  PROVE  Carried'
<1>1. Sound(CandidateOf(h))
  BY ReadyIsSound DEF PickCandidate, AllIInv
<1>2. /\ picked' = [picked EXCEPT ![o] = CandidateOf(h)]
      /\ UNCHANGED <<versions, handoffs, records>>
  BY DEF PickCandidate, vars
<1> QED BY <1>1, <1>2 DEF AllIInv, Carried, Sound, ApprovalHandoffDigest

\* A handoff copies the candidate its command has read, under the digest of the
\* session that inserts it.
LEMMA InsertKeeps ==
  ASSUME AllIInv, NEW o \in Operator, NEW zone \in Zone, InsertHandoff(o, zone)
  PROVE  Carried'
<1> DEFINE a == picked[o]
           row == [of |-> a, digest |-> ApprovalHandoffDigest(a, zone)]
<1>1. Sound(a) /\ UNCHANGED <<versions, records>>
  BY DEF InsertHandoff, AllIInv, Carried, vars
<1>2. picked' = [picked EXCEPT ![o] = None]
  BY DEF InsertHandoff
<1>3. row \in Handoff /\ a.challenge \in Challenge
  BY <1>1 DEF Sound, Handoff, Candidate, ApprovalHandoffDigest
<1>4. CASE UNCHANGED handoffs
  BY <1>1, <1>2, <1>4 DEF AllIInv, Carried, Sound, ApprovalHandoffDigest
<1>5. CASE handoffs' = [handoffs EXCEPT ![a.challenge] = row]
  <2>1. handoffs' \in [Challenge -> Handoff \cup {None}]
    BY <1>3, <1>5 DEF AllIInv, Carried
  <2>2. \A h \in Challenge : handoffs'[h] # None =>
          /\ Sound(handoffs'[h].of) /\ handoffs'[h].of.challenge = h
          /\ handoffs'[h].digest = ApprovalHandoffDigest(handoffs'[h].of, handoffs'[h].digest[2])
    BY <1>1, <1>3, <1>5 DEF AllIInv, Carried, ApprovalHandoffDigest
  <2> QED BY <1>1, <1>2, <2>1, <2>2 DEF AllIInv, Carried, Sound, ApprovalHandoffDigest
<1> QED BY <1>4, <1>5 DEF InsertHandoff

\* The records change no handoff and no command, and keep their types.
LEMMA RecordsKeep ==
  ASSUME AllIInv, NEW r \in Record,
         (\E h \in Challenge : StoreRecord(r, h)) \/ RevokeRecord(r) \/ PurgeRecord(r)
  PROVE  Carried'
<1>1. UNCHANGED <<versions, handoffs, picked>>
  BY DEF StoreRecord, RevokeRecord, PurgeRecord, vars
<1>2. records' \in [Record -> RecordRow \cup {None}]
  <2>1. CASE \E h \in Challenge : StoreRecord(r, h)
    BY <2>1 DEF StoreRecord, AllIInv, Carried, Sound, RecordRow
  <2>2. CASE RevokeRecord(r) \/ PurgeRecord(r)
    BY <2>2 DEF RevokeRecord, PurgeRecord, AllIInv, Carried, RecordRow
  <2> QED BY <2>1, <2>2
<1> QED BY <1>1, <1>2 DEF AllIInv, Carried, Sound, ApprovalHandoffDigest

\* Without handoffs and records the invariant is the kernel's.
LEMMA InitAllIInv == AllInit => AllIInv
<1> SUFFICES ASSUME AllInit PROVE AllIInv
  OBVIOUS
<1>1. IInv
  BY InitIInv DEF AllInit
<1>2. Carried
  BY DEF AllInit, Carried
<1> QED BY <1>1, <1>2 DEF AllIInv

\* The kernel keeps its invariant with handoffs around it, and what the handoffs
\* have copied stays true.
LEMMA NextAllIInv == AllIInv /\ [AllNext]_allVars => AllIInv'
<1> SUFFICES ASSUME AllIInv, [AllNext]_allVars PROVE AllIInv'
  OBVIOUS
<1>1. [Next]_vars
  BY StepOfKernel
<1>2. IInv'
  BY <1>1, NextIInv DEF AllIInv
<1>3. ASSUME UNCHANGED <<handoffs, picked, records>> PROVE Carried'
  BY <1>1, <1>3, CarriedKept
<1>4. ASSUME NEW h \in Challenge, NEW key \in Key, CompleteRetention(h, key)
      PROVE  UNCHANGED <<handoffs, picked, records>>
  BY <1>4 DEF CompleteRetention
<1>5. KernelStep \/ UNCHANGED allVars => UNCHANGED <<handoffs, picked, records>>
  BY DEF KernelStep, allVars
<1>6. Carried'
  BY <1>3, <1>4, <1>5, PickKeeps, InsertKeeps, RecordsKeep DEF AllNext
<1> QED BY <1>2, <1>6 DEF AllIInv

\* In every reachable state of the kernel with handoffs the invariant holds.
LEMMA AllInvariance == AllSpec => []AllIInv
  BY InitAllIInv, NextAllIInv, PTL DEF AllSpec

-----------------------------------------------------------------------------
(* The theorems. *)

\* Handoffs, commands and records have their types.
THEOREM AllTypeCorrect == AllSpec => []AllTypeOK
<1>1. AllIInv => AllTypeOK
  BY DEF AllIInv, AllTypeOK, Carried, IInv, TypeInv
<1> QED BY <1>1, AllInvariance, PTL

\* With handoffs around it the kernel does nothing that it does not do alone:
\* every completion is an approval by the subject of the challenge, so whatever
\* is proved of CardLog holds of the whole.
THEOREM IntoTheKernel == AllSpec => KernelSpec
<1>1. AllInit => Init
  BY DEF AllInit
<1>2. AllIInv /\ [AllNext]_allVars => [Next]_vars
  BY StepOfKernel
<1> QED BY <1>1, <1>2, AllInvariance, PTL DEF AllSpec, KernelSpec, Spec

\* The consent a record is stored under is in force, and it is its subject's own
\* to that very version and digest; records never change hands, and what was
\* purged stays so.
THEOREM UnderConsent == AllSpec => StoredUnderConsent
<1> DEFINE Stored(r) ==
      /\ (records[r] = None /\ records'[r] # None) =>
           \E s \in consents :
             /\ s.terminated = None
             /\ records'[r].of = [challenge |-> s.challenge, version |-> s.version,
                                  payload |-> s.payload, subject |-> s.subject]
      /\ records[r] # None =>
           /\ records'[r] # None /\ records'[r].of = records[r].of
           /\ records[r].state = "purged" => records'[r] = records[r]
<1>1. ASSUME AllIInv, NEW q \in Record, NEW h \in Challenge, StoreRecord(q, h)
      PROVE  \A r \in Record : Stored(r)
  <2>1. PICK s \in consents :
          /\ s.challenge = h /\ s.terminated = None
          /\ s.version = handoffs[h].of.version /\ s.payload = handoffs[h].of.payload
    BY <1>1 DEF StoreRecord, ActiveMatchingConsent
  <2>2. challenges[h].subject = s.subject
    BY <1>1, <2>1 DEF AllIInv, IInv, ConsentBinding
  <2>3. handoffs[h].of = [challenge |-> s.challenge, version |-> s.version,
                          payload |-> s.payload, subject |-> s.subject]
    BY <1>1, <2>1, <2>2 DEF StoreRecord, CandidateOf
  <2>4. /\ records[q] = None
        /\ records' = [records EXCEPT ![q] = [state |-> "captured", of |-> handoffs[h].of,
                                              text |-> TRUE]]
    BY <1>1 DEF StoreRecord
  <2> QED BY <1>1, <2>1, <2>3, <2>4 DEF AllIInv, Carried
<1>2. ASSUME AllIInv, NEW q \in Record, RevokeRecord(q) \/ PurgeRecord(q)
      PROVE  \A r \in Record : Stored(r)
  <2>1. records' \in [Record -> RecordRow \cup {None}] /\ records'[q] \in RecordRow
    BY <1>2 DEF RevokeRecord, PurgeRecord, AllIInv, Carried, RecordRow
  <2>2. records'[q].of = records[q].of
    BY <1>2 DEF RevokeRecord, PurgeRecord, AllIInv, Carried, RecordRow
  <2>3. records[q] # None /\ records[q].state # "purged"
    BY <1>2 DEF RevokeRecord, PurgeRecord
  <2>4. \A r \in Record \ {q} : records'[r] = records[r]
    BY <1>2 DEF RevokeRecord, PurgeRecord, AllIInv, Carried
  <2> QED BY <2>1, <2>2, <2>3, <2>4, NoRowAssumption
<1>3. UNCHANGED records => \A r \in Record : Stored(r)
  OBVIOUS
<1>4. ASSUME AllIInv, AllNext PROVE UNCHANGED records \/ \A r \in Record : Stored(r)
  <2> HIDE DEF Stored
  <2>1. ASSUME NEW h \in Challenge, NEW key \in Key, CompleteRetention(h, key)
        PROVE  UNCHANGED records
    BY <2>1 DEF CompleteRetention
  <2>2. ASSUME NEW o \in Operator, \/ \E h \in Challenge : PickCandidate(o, h)
                                   \/ \E zone \in Zone : InsertHandoff(o, zone)
        PROVE  UNCHANGED records
    BY <2>2 DEF PickCandidate, InsertHandoff
  <2>3. KernelStep => UNCHANGED records
    BY DEF KernelStep
  <2> QED BY <1>1, <1>2, <1>4, <2>1, <2>2, <2>3 DEF AllNext
<1>5. AllIInv /\ [AllNext]_allVars => [\A r \in Record : Stored(r)]_allVars
  <2> HIDE DEF Stored
  <2> QED BY <1>3, <1>4
<1> QED BY <1>5, AllInvariance, PTL DEF AllSpec, StoredUnderConsent

\* What the status calls pending, in any time zone, the completion and the kernel
\* let through: every check of theirs is among the status's twelve, so with a key
\* that was not used the owner's call changes the tables.
PendingIsOpen ==
  \A h \in Challenge, zone \in Zone, key \in Key :
    LET a == handoffs[h].of
        c == versions[a.version].card
    IN handoffs[h] # None /\ HandoffState(h, zone) = "pending_user_consent" /\
       Fresh("approve_private_retention", c, key)
         => /\ HandoffActive(h) /\ MayApprove(c, h, a.subject, key)
            /\ Transition(cards[c].status, "approved_private", "private_approved", "app_user")

\* One half of PendingCanComplete: without ENABLED, that no guard refuses.
THEOREM PendingOpens == AllSpec => []PendingIsOpen
<1>1. ASSUME AllIInv, NEW h \in Challenge, NEW zone \in Zone, NEW key \in Key,
             handoffs[h] # None, HandoffState(h, zone) = "pending_user_consent",
             Fresh("approve_private_retention", versions[handoffs[h].of.version].card, key)
      PROVE  LET a == handoffs[h].of
                 c == versions[a.version].card
             IN /\ HandoffActive(h) /\ MayApprove(c, h, a.subject, key)
                /\ Transition(cards[c].status, "approved_private", "private_approved", "app_user")
  <2> DEFINE a == handoffs[h].of
             c == versions[a.version].card
  <2>1. a \in Candidate /\ a.challenge = h /\ c \in Card
    BY <1>1 DEF AllIInv, Carried, Sound
  <2>2. Blockers(h, zone) = {}
    BY <1>1 DEF HandoffState
  <2>3. /\ ~ challenges[h].expired /\ ~ challenges[h].used
        /\ CandidateOf(h) = a /\ a.payload = versions[a.version].payload
        /\ cards[c].current = a.version /\ cards[c].status = "awaiting_user_approval"
        /\ \A t \in tombs : t.card # c /\ t.version # a.version
    BY <2>2 DEF Blockers
  <2>4. HandoffActive(h)
    BY <1>1, <2>3 DEF HandoffActive
  <2>5. Visible(c)
    BY <2>3, NoneAssumption DEF Visible, Exists, CardNotRevoked, Status, PreReview
  <2>6. Active(h, cards[c].current, a.subject)
    BY <2>3 DEF Active, CandidateOf
  <2>7. MayApprove(c, h, a.subject, key)
    BY <1>1, <2>3, <2>5, <2>6 DEF MayApprove
  <2>8. Transition(cards[c].status, "approved_private", "private_approved", "app_user")
    BY <2>3 DEF Transition
  <2> QED BY <2>4, <2>7, <2>8
<1>2. AllIInv => PendingIsOpen
  BY <1>1 DEF PendingIsOpen
<1> QED BY <1>2, AllInvariance, PTL

\* No retention is completed that `approval-handoff status' would not have called
\* pending, asked in the time zone the handoff was made in: its twelve checks
\* refuse nothing that the completion and the kernel let through.
OnlyPendingCompletes ==
  [][\A h \in Challenge, key \in Key : CompleteRetention(h, key) =>
       HandoffState(h, handoffs[h].digest[2]) = "pending_user_consent"]_allVars

\* The other half of PendingCanComplete.
THEOREM CompletionWasPending == AllSpec => OnlyPendingCompletes
<1>1. ASSUME AllIInv, NEW h \in Challenge, NEW key \in Key, CompleteRetention(h, key)
      PROVE  HandoffState(h, handoffs[h].digest[2]) = "pending_user_consent"
  <2> DEFINE a == handoffs[h].of
             c == versions[a.version].card
             zone == handoffs[h].digest[2]
  <2>1. /\ handoffs[h] # None /\ a.payload = versions[a.version].payload
        /\ cards[c].current = a.version /\ ~ challenges[h].expired /\ ~ challenges[h].used
        /\ Visible(c) /\ cards[c].status = "awaiting_user_approval"
        /\ Active(h, a.version, a.subject)
    BY <1>1 DEF CompleteRetention, HandoffActive, ApprovePrivateRetention, MayApprove
  <2>2. /\ a \in Candidate /\ a.challenge = h /\ c \in Card
        /\ handoffs[h].digest = ApprovalHandoffDigest(a, zone)
    BY <1>1, <2>1 DEF AllIInv, Carried, Sound
  <2>3. CandidateOf(h) = a
    <3>1. /\ challenges[h].version = a.version /\ challenges[h].payload = a.payload
          /\ challenges[h].subject = a.subject
      BY <2>1 DEF Active
    <3> QED BY <2>2, <3>1 DEF CandidateOf, Candidate
  <2>4. \A r \in consents : r.challenge # h
    BY <1>1, <2>1 DEF AllIInv, IInv, ConsentBinding
  <2>5. \A t \in tombs : t.card # c /\ t.version # a.version
    <3>1. \A t \in tombs : t.card # c
      BY <1>1, <2>1, TombHides DEF AllIInv, IInv, Visible
    <3>2. \A t \in tombs : versions[t.version].card = t.card
      BY <1>1, TombHides DEF AllIInv, IInv
    <3> QED BY <3>1, <3>2
  <2>6. Blockers(h, zone) = {}
    BY <2>1, <2>2, <2>3, <2>4, <2>5 DEF Blockers
  <2>7. ~ ActiveMatchingConsent(h)
    BY <2>4 DEF ActiveMatchingConsent
  <2> QED BY <2>6, <2>7 DEF HandoffState
<1>2. AllIInv /\ [AllNext]_allVars =>
        [\A h \in Challenge, key \in Key : CompleteRetention(h, key) =>
           HandoffState(h, handoffs[h].digest[2]) = "pending_user_consent"]_allVars
  BY <1>1
<1> QED BY <1>2, AllInvariance, PTL DEF AllSpec, OnlyPendingCompletes
=============================================================================
