------------------------------- MODULE Handoffs -------------------------------
(***************************************************************************)
(* Approval handoffs (`writer approval-handoff` of scripts/knudgctl.py),   *)
(* the completion of a private retention through one, and the redacted     *)
(* experience records that need its consent (migrations/0012), on top of   *)
(* the card kernel: All... is the kernel with them.                        *)
(*                                                                         *)
(* An operator's command reads a candidate challenge in one statement and  *)
(* inserts its handoff in a later one, while the kernel's own operations   *)
(* go on.  A completion locks handoff, challenge, version and card and is  *)
(* one step.                                                               *)
(***************************************************************************)
EXTENDS CardLog

CONSTANTS
  Operator,  \* approval-handoff processes
  Zone,      \* time zones of the operators' database sessions
  Record     \* ids of redacted experience records

VARIABLES
  handoffs,  \* approval_handoffs, by the challenge they are unique for
  picked,    \* the candidate that each operator's command has read
  records    \* redacted_private_experience_records

allVars == <<vars, handoffs, picked, records>>

\* What a handoff copies from its challenge; the digest is over these and over
\* expires_at as the session that computes it prints it, in its time zone.
Candidate == [challenge : Challenge, version : Version, payload : Payload, subject : User]
Handoff == [of : Candidate, digest : Candidate \X Zone]
RecordRow == [state : {"captured", "revoked", "purged"}, of : Candidate, text : BOOLEAN]

ASSUME NoRowAssumption == None \notin RecordRow

AllTypeOK ==
  /\ TypeOK
  /\ handoffs \in [Challenge -> Handoff \cup {None}]
  /\ picked \in [Operator -> Candidate \cup {None}]
  /\ records \in [Record -> RecordRow \cup {None}]

AllInit ==
  /\ Init
  /\ handoffs = [h \in Challenge |-> None]
  /\ picked = [o \in Operator |-> None]
  /\ records = [r \in Record |-> None]

-----------------------------------------------------------------------------
(* The operator's commands. *)

CandidateOf(h) == [challenge |-> h, version |-> challenges[h].version,
                   payload |-> challenges[h].payload, subject |-> challenges[h].subject]

\* Which of several candidates is the newest is left open.
Ready(h) ==
  \E c \in Card :
    /\ cards[c].status = "awaiting_user_approval"
    /\ cards[c].current = challenges[h].version
    /\ challenges[h].payload = versions[cards[c].current].payload
    /\ ~ challenges[h].used /\ ~ challenges[h].expired

\* create: the candidate, and no handoff of its challenge.  A dry run and a
\* handoff that exists are answered and change nothing.
PickCandidate(o, h) ==
  /\ picked[o] = None
  /\ Ready(h) /\ handoffs[h] = None
  /\ picked' = [picked EXCEPT ![o] = CandidateOf(h)]
  /\ UNCHANGED <<vars, handoffs, records>>

ApprovalHandoffDigest(candidate, zone) == <<candidate, zone>>

\* create: the insert; the unique challenge_id refuses the second of two.
InsertHandoff(o, zone) ==
  LET c == picked[o] IN
  /\ c # None
  /\ picked' = [picked EXCEPT ![o] = None]
  /\ handoffs' = IF handoffs[c.challenge] # None THEN handoffs
                 ELSE [handoffs EXCEPT ![c.challenge] =
                         [of |-> c, digest |-> ApprovalHandoffDigest(c, zone)]]
  /\ UNCHANGED <<vars, records>>

\* status: the consent of the handoff's challenge, exactly as handed off.
ActiveMatchingConsent(h) ==
  \E r \in consents :
    /\ r.challenge = h /\ r.terminated = None
    /\ r.version = handoffs[h].of.version /\ r.payload = handoffs[h].of.payload

\* Forgets that a tombstone of the version hides the card as well.
FaultyBlockers(h, zone) ==
  LET a == handoffs[h].of
      c == versions[a.version].card
  IN {b \in {"challenge_expired", "challenge_used", "digest_binding_valid",
             "handoff_digest_valid", "card_current_version_matches"} :
        CASE b = "challenge_expired" -> challenges[h].expired
          [] b = "challenge_used" -> challenges[h].used
          [] b = "digest_binding_valid" ->
               ~ (CandidateOf(h) = a /\ a.payload = versions[a.version].payload)
          [] b = "handoff_digest_valid" ->
               handoffs[h].digest # ApprovalHandoffDigest(a, zone)
          [] b = "card_current_version_matches" -> cards[c].current # a.version}

\* status: what the verification lists.  Nothing sets invalidated_at of a
\* handoff or of a challenge.
Blockers(h, zone) ==
  LET a == handoffs[h].of
      c == versions[a.version].card
  IN {b \in {"challenge_expired", "challenge_used", "consent_record_exists",
             "revocation_visible", "digest_binding_valid", "handoff_digest_valid",
             "card_current_version_matches", "card_awaiting_user_approval"} :
        CASE b = "challenge_expired" -> challenges[h].expired
          [] b = "challenge_used" -> challenges[h].used
          [] b = "consent_record_exists" ->
               \E r \in consents : r.challenge = h /\ r.terminated = None
          [] b = "revocation_visible" ->
               \E t \in tombs : t.card = c \/ t.version = a.version
          [] b = "digest_binding_valid" ->
               ~ (CandidateOf(h) = a /\ a.payload = versions[a.version].payload)
          [] b = "handoff_digest_valid" ->
               handoffs[h].digest # ApprovalHandoffDigest(a, zone)
          [] b = "card_current_version_matches" -> cards[c].current # a.version
          [] b = "card_awaiting_user_approval" -> cards[c].status # "awaiting_user_approval"}

HandoffState(h, zone) ==
  IF ActiveMatchingConsent(h) THEN "consent_completed"
  ELSE IF Blockers(h, zone) # {} THEN "blocked" ELSE "pending_user_consent"

-----------------------------------------------------------------------------
(* The owner's calls through the closed API. *)

\* Takes the grant of any earlier version of the card for its own.
FaultyCompleteRetention(h, key) ==
  LET a == handoffs[h].of
      c == versions[challenges[h].version].card
  IN /\ handoffs[h] # None
     /\ cards[c].status = "awaiting_user_approval"
     /\ ~ challenges[h].expired /\ ~ challenges[h].used
     /\ Fresh("approve_private_retention", c, key)
     /\ challenges' = [challenges EXCEPT ![h].used = TRUE]
     /\ consents' = consents \cup
          {[challenge |-> h, version |-> a.version, payload |-> a.payload,
            subject |-> a.subject, card |-> c, seq |-> Len(log[c]) + 1,
            terminated |-> None]}
     /\ Advance("approve_private_retention", c, key, c, "private_approved",
                       "app_user", "approved_private", cards[c].current, cards[c].current)
     /\ UNCHANGED <<versions, tombs, epoch, handoffs, picked, records>>

\* What complete_private_retention itself asks for: the handoff has to be active,
\* which is looked at before the idempotency key is.
HandoffActive(h) ==
  LET a == handoffs[h].of
  IN /\ handoffs[h] # None
     /\ a.payload = versions[a.version].payload
     /\ cards[versions[a.version].card].current = a.version
     /\ ~ challenges[h].expired /\ ~ challenges[h].used

\* complete_private_retention: then comes the kernel's own approval.
CompleteRetention(h, key) ==
  LET a == handoffs[h].of
  IN /\ HandoffActive(h)
     /\ ApprovePrivateRetention(versions[a.version].card, h, a.subject, key)
     /\ UNCHANGED <<handoffs, picked, records>>

\* Does not ask whether the consent was revoked since.
FaultyStoreRecord(r, h) ==
  /\ records[r] = None /\ handoffs[h] # None /\ challenges[h].used
  /\ records' = [records EXCEPT ![r] = [state |-> "captured", of |-> handoffs[h].of, text |-> TRUE]]
  /\ UNCHANGED <<vars, handoffs, picked>>

\* store_redacted_experience: the proof has to name an active consent, its
\* spent challenge and their handoff, which agree in everything.
StoreRecord(r, h) ==
  /\ records[r] = None /\ handoffs[h] # None
  /\ challenges[h].used /\ CandidateOf(h) = handoffs[h].of
  /\ ActiveMatchingConsent(h)
  /\ records' = [records EXCEPT ![r] = [state |-> "captured", of |-> handoffs[h].of, text |-> TRUE]]
  /\ UNCHANGED <<vars, handoffs, picked>>

RevokeRecord(r) ==
  /\ records[r] # None /\ records[r].state = "captured"
  /\ records' = [records EXCEPT ![r].state = "revoked"]
  /\ UNCHANGED <<vars, handoffs, picked>>

\* The row stays, its display fields are replaced.
PurgeRecord(r) ==
  /\ records[r] # None /\ records[r].state \in {"captured", "revoked"}
  /\ records' = [records EXCEPT ![r].state = "purged", ![r].text = FALSE]
  /\ UNCHANGED <<vars, handoffs, picked>>

-----------------------------------------------------------------------------

KernelStep == Next /\ UNCHANGED <<handoffs, picked, records>>

AllNext ==
  \/ KernelStep
  \/ \E o \in Operator : \/ \E h \in Challenge : PickCandidate(o, h)
                         \/ \E zone \in Zone : InsertHandoff(o, zone)
  \/ \E h \in Challenge : \/ \E key \in Key : CompleteRetention(h, key)
                          \/ \E r \in Record : StoreRecord(r, h)
  \/ \E r \in Record : RevokeRecord(r) \/ PurgeRecord(r)

AllSpec == AllInit /\ [][AllNext]_allVars

-----------------------------------------------------------------------------

\* What `approval-handoff status' calls pending is what the owner can complete:
\* its twelve checks, read in one query by the operator, agree with the guards of
\* the completion and of the kernel's approval, whatever happened to the card, the
\* challenge and the version since the handoff was made.
PendingCanComplete ==
  \A h \in Challenge, zone \in Zone : handoffs[h] # None =>
    (HandoffState(h, zone) = "pending_user_consent" /\
     (\E key \in Key : Fresh("approve_private_retention", versions[handoffs[h].of.version].card, key)))
      <=> \E key \in Key : ENABLED CompleteRetention(h, key)

\* Handoffs are a way into the kernel and no way around it: with them it still is
\* the kernel of CardLog, so what is proved of that holds here.
KernelSpec == Spec

\* A record is stored under a consent that is in force, given by the subject of
\* the handoff to the version and the digest that were handed off, and it never
\* passes to another one; a purged record never has its text again.
StoredUnderConsent ==
  [][\A r \in Record :
       /\ (records[r] = None /\ records'[r] # None) =>
            \E s \in consents :
              /\ s.terminated = None
              /\ records'[r].of = [challenge |-> s.challenge, version |-> s.version,
                                   payload |-> s.payload, subject |-> s.subject]
       /\ records[r] # None =>
            /\ records'[r] # None /\ records'[r].of = records[r].of
            /\ records[r].state = "purged" => records'[r] = records[r]]_allVars
=============================================================================
