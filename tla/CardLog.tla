------------------------------- MODULE CardLog -------------------------------
(***************************************************************************)
(* The M0 kernel of Knudg: experience cards, their immutable versions, the *)
(* append-only card event log, approval challenges, consent records,       *)
(* permanent idempotency rows, and revocation tombstones, as changed by    *)
(* the SECURITY DEFINER functions of migrations/0001_m0_schema.up.sql.     *)
(*                                                                         *)
(* One tenant and one namespace.  Every function takes a row lock on the   *)
(* card before it looks at anything else about it, so one call is one      *)
(* action.  Claims, grants and worker identities are the environment: a    *)
(* call that fails its authorisation changes nothing, so every call here   *)
(* is authorised and the role that the function demands is the role of its *)
(* event.  A refused call and an idempotent replay change no table and are *)
(* stuttering steps.                                                       *)
(*                                                                         *)
(* Operators named Faulty... are no part of the specification, here and in *)
(* the other modules: each is a plausible mistake in the operator that     *)
(* follows it, kept to show that a property notices it.                    *)
(***************************************************************************)
EXTENDS Naturals, Sequences

CONSTANTS
  Card,       \* card ids a caller may submit
  Version,    \* card version ids a caller may supply
  Payload,    \* payload digests that may be submitted or come out of redaction
  Challenge,  \* approval challenge ids
  User,       \* principals of role app_user
  Key,        \* idempotency keys; each operation has at most Key many effects
  Expected,   \* expected-version arguments callers send, NULL among them or not
  None        \* SQL NULL

ASSUME ExpectedAssumption == Expected \subseteq Version \cup {None}

VARIABLES
  cards,       \* experience_cards: status, current version, creator
  versions,    \* card_versions: owning card, version number, payload digest
  log,         \* card_events of each card; event_seq is the index
  challenges,  \* approval_challenges
  consents,    \* consent_records
  idem,        \* idempotency_keys
  tombs,       \* revocation_tombstones
  epoch        \* tenant_revocation_epochs.last_epoch

vars == <<cards, versions, log, challenges, consents, idem, tombs, epoch>>

-----------------------------------------------------------------------------
(* The lifecycle. *)

PreReview == {"candidate_created", "pending_admission", "deferred",
              "pending_redaction", "pending_review", "awaiting_user_approval"}

Status == PreReview \cup
          {"approved_private", "discard_pending", "rejected", "revoked"}

EventType == {"card_created", "admission_accepted", "redaction_requested",
              "redaction_completed", "user_approval_requested",
              "private_approved", "approval_digest_invalidated",
              "discard_requested", "discard_restored", "revoked"}

Role == {"app_user", "ingestion_worker", "redaction_worker", "review_worker",
         "break_glass_admin"}

\* The seeded rows of card_state_transitions that the event types above use.
Transition(from, to, type, role) ==
  \/ /\ type = "admission_accepted" /\ role = "ingestion_worker"
     /\ from \in {"candidate_created", "deferred"} /\ to = "pending_admission"
  \/ /\ type = "redaction_requested" /\ role = "ingestion_worker"
     /\ from = "pending_admission" /\ to = "pending_redaction"
  \/ /\ type = "redaction_completed" /\ role = "redaction_worker"
     /\ from = "pending_redaction" /\ to = "pending_review"
  \/ /\ type = "user_approval_requested" /\ role = "review_worker"
     /\ from = "pending_review" /\ to = "awaiting_user_approval"
  \/ /\ type = "private_approved" /\ role = "app_user"
     /\ from = "awaiting_user_approval" /\ to = "approved_private"
  \/ /\ type = "approval_digest_invalidated"
     /\ role \in {"app_user", "review_worker"}
     /\ from = "awaiting_user_approval" /\ to = "pending_redaction"
  \/ /\ type = "discard_requested" /\ role = "app_user"
     /\ from \in PreReview /\ to = "discard_pending"
  \/ /\ type = "discard_restored" /\ role = "app_user"
     /\ from = "discard_pending" /\ to = "pending_review"
  \/ /\ type = "revoked" /\ role \in {"app_user", "break_glass_admin"}
     /\ from \in Status \ {"revoked"} /\ to = "revoked"

ASSUME NoneAssumption ==
  None \notin Card \cup Version \cup Payload \cup User \cup Key \cup Status

-----------------------------------------------------------------------------
(* Rows.  A row whose first field is None is not in its table. *)

CardRow == [status : Status \cup {None}, current : Version \cup {None},
            creator : User \cup {None}]
VersionRow == [card : Card \cup {None}, number : Nat,
               payload : Payload \cup {None}]
Event == [type : EventType, role : Role, prev : Status \cup {None},
          next : Status, expected : Version \cup {None}]
ChallengeRow == [version : Version \cup {None}, payload : Payload \cup {None},
                 subject : User \cup {None}, used : BOOLEAN, expired : BOOLEAN]
\* card and seq name the grant event, terminated the domain event's key.
Consent == [challenge : Challenge, version : Version, payload : Payload,
            subject : User, card : Card, seq : Nat \ {0},
            terminated : Key \cup {None}]
Operation == {"submit_candidate", "append_card_event", "accept_admission",
              "request_redaction", "complete_redaction",
              "request_private_approval", "approve_private_retention",
              "revoke_subject", "break_glass_revoke_subject"}
\* subject is the logical object: the card, or the version of a card_version
\* revocation; card and seq name the effect event.
IdemRow == [op : Operation, subject : Card \cup Version, key : Key,
            card : Card, seq : Nat \ {0}]
Tombstone == [type : {"card", "card_version"}, card : Card, version : Version,
              epoch : Nat \ {0}, seq : Nat \ {0}]

TypeOK ==
  /\ cards \in [Card -> CardRow]
  /\ versions \in [Version -> VersionRow]
  /\ log \in [Card -> Seq(Event)]
  /\ challenges \in [Challenge -> ChallengeRow]
  /\ consents \subseteq Consent
  /\ idem \subseteq IdemRow
  /\ tombs \subseteq Tombstone
  /\ epoch \in Nat

Init ==
  /\ cards = [c \in Card |-> [status |-> None, current |-> None, creator |-> None]]
  /\ versions = [v \in Version |-> [card |-> None, number |-> 0, payload |-> None]]
  /\ log = [c \in Card |-> <<>>]
  /\ challenges = [h \in Challenge |->
       [version |-> None, payload |-> None, subject |-> None,
        used |-> FALSE, expired |-> FALSE]]
  /\ consents = {} /\ idem = {} /\ tombs = {} /\ epoch = 0

-----------------------------------------------------------------------------
(* What the functions share. *)

Exists(c) == cards[c].status # None

\* Looks for tombstones of the card only.
FaultyCardNotRevoked(c) == \A t \in tombs : ~(t.type = "card" /\ t.card = c)

CardNotRevoked(c) ==
  \A t \in tombs : /\ ~(t.type = "card" /\ t.card = c)
                   /\ ~(t.type = "card_version" /\ t.version = cards[c].current)

\* The lookup FOR UPDATE every function starts with.
Visible(c) == Exists(c) /\ CardNotRevoked(c)

\* Recognises a replay only while its effect is the card's last event.
FaultyFresh(op, subject, key) ==
  ~ \E r \in idem : /\ r.op = op /\ r.subject = subject /\ r.key = key
                    /\ r.seq = Len(log[r.card])

\* No idempotency row: the call is not a replay.
Fresh(op, subject, key) ==
  ~ \E r \in idem : r.op = op /\ r.subject = subject /\ r.key = key

\* SQL's three-valued test: a NULL expected version is never stale.
NotStale(c, expected) == expected = None \/ cards[c].current = expected

\* Does not look the transition up.
FaultyAdvance(op, subject, key, c, type, role, to, expected, current) ==
  /\ log' = [log EXCEPT ![c] = Append(@,
       [type |-> type, role |-> role, prev |-> cards[c].status, next |-> to,
        expected |-> expected])]
  /\ cards' = [cards EXCEPT ![c] = [@ EXCEPT !.status = to, !.current = current]]
  /\ idem' = idem \cup {[op |-> op, subject |-> subject, key |-> key,
                         card |-> c, seq |-> Len(log[c]) + 1]}

\* The event insert, the status and version update of the card, and the
\* idempotency row that every function ends with.
Advance(op, subject, key, c, type, role, to, expected, current) ==
  LET from == cards[c].status
  IN /\ Transition(from, to, type, role)
     /\ log' = [log EXCEPT ![c] = Append(@,
          [type |-> type, role |-> role, prev |-> from, next |-> to,
           expected |-> expected])]
     /\ cards' = [cards EXCEPT ![c] = [@ EXCEPT !.status = to, !.current = current]]
     /\ idem' = idem \cup {[op |-> op, subject |-> subject, key |-> key,
                            card |-> c, seq |-> Len(log[c]) + 1]}

-----------------------------------------------------------------------------
(* The user's and the workers' operations. *)

SubmitCandidate(c, v, p, u, key) ==
  /\ ~ Exists(c)
  /\ versions[v].card = None
  /\ Fresh("submit_candidate", c, key)
  /\ cards' = [cards EXCEPT ![c] =
       [status |-> "candidate_created", current |-> v, creator |-> u]]
  /\ versions' = [versions EXCEPT ![v] = [card |-> c, number |-> 1, payload |-> p]]
  /\ log' = [log EXCEPT ![c] = Append(@,
       [type |-> "card_created", role |-> "app_user", prev |-> None,
        next |-> "candidate_created", expected |-> None])]
  /\ idem' = idem \cup {[op |-> "submit_candidate", subject |-> c, key |-> key,
                         card |-> c, seq |-> 1]}
  /\ UNCHANGED <<challenges, consents, tombs, epoch>>

\* The three event types append_card_event accepts; the transition row
\* determines the next status, and the function does not touch challenges.
AppendCardEvent(c, type, to, expected, key) ==
  /\ Visible(c)
  /\ Fresh("append_card_event", c, key)
  /\ NotStale(c, expected)
  /\ Advance("append_card_event", c, key, c, type, "app_user", to, expected,
             cards[c].current)
  /\ UNCHANGED <<versions, challenges, consents, tombs, epoch>>

DiscardRequested(c, expected, key) ==
  AppendCardEvent(c, "discard_requested", "discard_pending", expected, key)

DiscardRestored(c, expected, key) ==
  AppendCardEvent(c, "discard_restored", "pending_review", expected, key)

ApprovalDigestInvalidated(c, expected, key) ==
  AppendCardEvent(c, "approval_digest_invalidated", "pending_redaction",
                  expected, key)

WorkerAdvanceCard(op, role, type, allowed, to, c, expected, key) ==
  /\ Visible(c)
  /\ Fresh(op, c, key)
  /\ NotStale(c, expected)
  /\ cards[c].status \in allowed
  /\ Advance(op, c, key, c, type, role, to, expected, cards[c].current)
  /\ UNCHANGED <<versions, challenges, consents, tombs, epoch>>

AcceptAdmission(c, expected, key) ==
  WorkerAdvanceCard("accept_admission", "ingestion_worker", "admission_accepted",
    {"candidate_created", "deferred"}, "pending_admission", c, expected, key)

RequestRedaction(c, expected, key) ==
  WorkerAdvanceCard("request_redaction", "ingestion_worker", "redaction_requested",
    {"pending_admission"}, "pending_redaction", c, expected, key)

MaxNumber(c) ==
  LET numbers == {0} \cup {versions[v].number : v \in {w \in Version : versions[w].card = c}}
  IN CHOOSE n \in numbers : \A m \in numbers : m <= n

\* A redacted payload with another digest becomes a new version; with the same
\* digest, or with no payload, the current version stays.
CompleteRedaction(c, p, v, key) ==
  LET old     == cards[c].current
      changed == versions[old].payload # p
  IN /\ Visible(c)
     /\ Fresh("complete_redaction", c, key)
     /\ cards[c].status = "pending_redaction"
     /\ IF changed
          THEN /\ versions[v].card = None
               /\ versions' = [versions EXCEPT ![v] =
                    [card |-> c, number |-> MaxNumber(c) + 1, payload |-> p]]
          ELSE UNCHANGED versions
     /\ Advance("complete_redaction", c, key, c, "redaction_completed",
                "redaction_worker", "pending_review", old,
                IF changed THEN v ELSE old)
     /\ UNCHANGED <<challenges, consents, tombs, epoch>>

RequestPrivateApproval(c, h, key) ==
  LET v == cards[c].current
  IN /\ Visible(c)
     /\ Fresh("request_private_approval", c, key)
     /\ cards[c].status = "pending_review"
     /\ challenges[h].version = None
     /\ challenges' = [challenges EXCEPT ![h] =
          [version |-> v, payload |-> versions[v].payload,
           subject |-> cards[c].creator, used |-> FALSE, expired |-> FALSE]]
     /\ Advance("request_private_approval", c, key, c, "user_approval_requested",
                "review_worker", "awaiting_user_approval", v, v)
     /\ UNCHANGED <<versions, consents, tombs, epoch>>

\* Finds the challenge without comparing it with the card's version.
FaultyActive(h, v, u) ==
  /\ challenges[h].version # None /\ versions[challenges[h].version].card = versions[v].card
  /\ challenges[h].subject = u
  /\ ~ challenges[h].used /\ ~ challenges[h].expired

\* The challenge asks user u about version v and its digest, and can be answered.
Active(h, v, u) ==
  /\ challenges[h].version = v /\ challenges[h].subject = u
  /\ challenges[h].payload = versions[v].payload
  /\ ~ challenges[h].used /\ ~ challenges[h].expired

\* What approve_private_retention asks for before it changes anything.
MayApprove(c, h, u, key) ==
  /\ Visible(c)
  /\ Fresh("approve_private_retention", c, key)
  /\ cards[c].status = "awaiting_user_approval"
  /\ Active(h, cards[c].current, u)

\* The caller names a challenge, not a version: whichever challenge is still
\* active for the current version will do.
ApprovePrivateRetention(c, h, u, key) ==
  LET v == cards[c].current
  IN /\ MayApprove(c, h, u, key)
     /\ challenges' = [challenges EXCEPT ![h].used = TRUE]
     /\ consents' = consents \cup
          {[challenge |-> h, version |-> v, payload |-> versions[v].payload,
            subject |-> u, card |-> c, seq |-> Len(log[c]) + 1,
            terminated |-> None]}
     /\ Advance("approve_private_retention", c, key, c, "private_approved",
                "app_user", "approved_private", v, v)
     /\ UNCHANGED <<versions, tombs, epoch>>

\* Revocation by the user or by a break-glass administrator, of the card or of
\* its current version.
Revoke(op, role, type, c, key) ==
  LET v       == cards[c].current
      subject == IF type = "card" THEN c ELSE v
  IN /\ Visible(c)
     /\ Fresh(op, subject, key)
     /\ epoch' = epoch + 1
     /\ tombs' = tombs \cup {[type |-> type, card |-> c, version |-> v,
                              epoch |-> epoch + 1, seq |-> Len(log[c]) + 1]}
     /\ Advance(op, subject, key, c, "revoked", role, "revoked", v, v)
     /\ UNCHANGED <<versions, challenges, consents>>

RevokeSubject(type, c, key) == Revoke("revoke_subject", "app_user", type, c, key)

BreakGlassRevokeSubject(type, c, key) ==
  Revoke("break_glass_revoke_subject", "break_glass_admin", type, c, key)

\* Deletes the record.
FaultyRevokeConsentDelete(r, key) ==
  /\ r.terminated = None
  /\ consents' = consents \ {r}
  /\ UNCHANGED <<cards, versions, log, challenges, idem, tombs, epoch>>

\* Puts the card back to review with the consent gone.
FaultyRevokeConsentReopen(r, key) ==
  /\ r.terminated = None
  /\ consents' = (consents \ {r}) \cup {[r EXCEPT !.terminated = key]}
  /\ cards' = [cards EXCEPT ![r.card].status = "pending_review"]
  /\ UNCHANGED <<versions, log, challenges, idem, tombs, epoch>>

\* Ends a consent.  The card keeps its status, and no tombstone is written.  Its
\* event and idempotency row are of the consent record, not of a card, and are left
\* out: a second call ends nothing either way.
RevokeConsentRecord(r, key) ==
  /\ r.terminated = None
  /\ consents' = (consents \ {r}) \cup {[r EXCEPT !.terminated = key]}
  /\ UNCHANGED <<cards, versions, log, challenges, idem, tombs, epoch>>

\* The clock passes a challenge's expires_at.
ExpireChallenge(h) ==
  /\ challenges[h].version # None
  /\ ~ challenges[h].expired
  /\ challenges' = [challenges EXCEPT ![h].expired = TRUE]
  /\ UNCHANGED <<cards, versions, log, consents, idem, tombs, epoch>>

-----------------------------------------------------------------------------

Next ==
  \/ \E c \in Card, key \in Key :
       \/ \E v \in Version, p \in Payload, u \in User : SubmitCandidate(c, v, p, u, key)
       \/ \E expected \in Expected :
            \/ DiscardRequested(c, expected, key)
            \/ DiscardRestored(c, expected, key)
            \/ ApprovalDigestInvalidated(c, expected, key)
            \/ AcceptAdmission(c, expected, key)
            \/ RequestRedaction(c, expected, key)
       \/ \E p \in Payload, v \in Version : CompleteRedaction(c, p, v, key)
       \/ \E h \in Challenge : RequestPrivateApproval(c, h, key)
       \/ \E h \in Challenge, u \in User : ApprovePrivateRetention(c, h, u, key)
       \/ \E type \in {"card", "card_version"} :
            \/ RevokeSubject(type, c, key)
            \/ BreakGlassRevokeSubject(type, c, key)
  \/ \E r \in consents, key \in Key : RevokeConsentRecord(r, key)
  \/ \E h \in Challenge : ExpireChallenge(h)

Spec == Init /\ [][Next]_vars

-----------------------------------------------------------------------------
(* Safety. *)

\* The status of a card is the outcome of its last event, and its events chain
\* from card_created through rows of the transition table: the status column of
\* experience_cards can be rebuilt from card_events.
StatusFromLog ==
  \A c \in Card :
    /\ Exists(c) <=> log[c] # <<>>
    /\ Exists(c) => /\ log[c][1].type = "card_created"
                   /\ log[c][1].next = "candidate_created"
                   /\ cards[c].status = log[c][Len(log[c])].next
    /\ \A i \in 2 .. Len(log[c]) :
         /\ log[c][i].prev = log[c][i - 1].next
         /\ Transition(log[c][i].prev, log[c][i].next, log[c][i].type, log[c][i].role)

\* The current version of a card is its own and its newest, whichever order
\* redactions, invalidations and restores came in: the current_version_id of
\* experience_cards can be rebuilt from card_versions.
CurrentIsNewest ==
  /\ \A v \in Version : versions[v].card # None =>
       Exists(versions[v].card) /\ versions[v].payload # None
  /\ \A c \in Card : Exists(c) =>
       /\ cards[c].current # None /\ cards[c].creator # None
       /\ versions[cards[c].current].card = c
       /\ \A v \in Version \ {cards[c].current} : versions[v].card = c =>
            versions[v].number < versions[cards[c].current].number

\* However often a call is repeated, its idempotency key has one effect, and
\* every event is the effect of exactly one key.
OneEffectPerKey ==
  /\ \A r, s \in idem :
       (r.op = s.op /\ r.subject = s.subject /\ r.key = s.key) => r = s
  /\ \A r, s \in idem : (r.card = s.card /\ r.seq = s.seq) => r = s
  /\ \A c \in Card : \A i \in 1 .. Len(log[c]) :
       \E r \in idem : r.card = c /\ r.seq = i
  /\ \A r \in idem : r.seq <= Len(log[r.card])

\* A challenge asks the creator of a card about one version and its digest; it is
\* spent by at most one consent, and that consent is for the subject, the version
\* and the digest the challenge was shown for.
ConsentBinding ==
  /\ \A h \in Challenge : challenges[h].version # None =>
       LET v == challenges[h].version
       IN /\ versions[v].card # None /\ challenges[h].payload = versions[v].payload
          /\ challenges[h].subject = cards[versions[v].card].creator
  /\ \A r, s \in consents : r.challenge = s.challenge => r = s
  /\ \A h \in Challenge :
       challenges[h].used <=> \E r \in consents : r.challenge = h
  /\ \A r \in consents :
       LET h == challenges[r.challenge]
       IN /\ h.version = r.version /\ h.payload = r.payload /\ h.subject = r.subject
          /\ versions[r.version].card = r.card

\* A card is held as approved_private only on a consent that its creator gave,
\* at its latest event, to the version it has now.
RetainedWithConsent ==
  \A c \in Card : cards[c].status = "approved_private" =>
    \E r \in consents : /\ r.card = c /\ r.version = cards[c].current
                        /\ r.seq = Len(log[c]) /\ r.subject = cards[c].creator

\* Cards are revoked exactly when a tombstone hides them; a card has one
\* tombstone, written with its last event, and the tombstones' epochs are the
\* tenant's epochs 1 .. last_epoch, each used once.
RevokedIffTombstone ==
  /\ \A c \in Card : cards[c].status = "revoked" <=> (Exists(c) /\ ~ CardNotRevoked(c))
  /\ \A t \in tombs : /\ t.seq = Len(log[t.card])
                      /\ t.version = cards[t.card].current
  /\ \A t, u \in tombs : (t.card = u.card \/ t.epoch = u.epoch) => t = u
  /\ {t.epoch : t \in tombs} = 1 .. epoch

(* Action properties. *)

\* The log is append only: a step adds at most one event, to one card, a card
\* row changes only in a step that adds an event to it, and versions,
\* tombstones, spent challenges and consents are never rewritten or lost.
AppendOnly ==
  [][/\ \A c \in Card :
          \/ log'[c] = log[c] /\ cards'[c] = cards[c]
          \/ /\ Len(log'[c]) = Len(log[c]) + 1
             /\ SubSeq(log'[c], 1, Len(log[c])) = log[c]
             /\ \A d \in Card \ {c} : log'[d] = log[d]
     /\ \A v \in Version : versions[v].card # None => versions'[v] = versions[v]
     /\ tombs \subseteq tombs' /\ idem \subseteq idem'
     /\ \A h \in Challenge : challenges[h].used => challenges'[h].used
     /\ \A r \in consents : \E s \in consents' :
          s = r \/ s = [r EXCEPT !.terminated = s.terminated]]_vars

\* Nothing happens to a card after its revocation.
RevokedIsFinal ==
  [][\A c \in Card : cards[c].status = "revoked" =>
       cards'[c] = cards[c] /\ log'[c] = log[c]]_vars

(* The abstract specification this one implements. *)

\* The owner's stage, read off the event log alone.
OwnerStage(c) ==
  IF log[c] = <<>> THEN "absent"
  ELSE LET status == log[c][Len(log[c])].next
       IN CASE status = "awaiting_user_approval" -> "asked"
            [] status = "discard_pending" -> "discarded"
            [] status = "approved_private" -> "retained"
            [] status = "revoked" -> "revoked"
            [] OTHER -> "open"

\* Every step of the kernel is a step of the lifecycle the owner is promised or
\* none: in particular the revocation epochs number the revocations in the
\* order in which they took effect.
Lifecycle == INSTANCE CardLifecycle WITH
  stage <- [c \in Card |-> OwnerStage(c)],
  held  <- {r.card : r \in {s \in consents : s.terminated = None}},
  order <- [e \in 1 .. epoch |-> (CHOOSE t \in tombs : t.epoch = e).card]

LifecycleSpec == Lifecycle!Spec
=============================================================================
