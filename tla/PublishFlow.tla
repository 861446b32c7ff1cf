----------------------------- MODULE PublishFlow -----------------------------
(***************************************************************************)
(* Publication of private cards through the API server, its clients (the   *)
(* posting tool, programs that speak HTTP, the browser front end) and the  *)
(* local commands of knudgctl.py that work on the same tables.             *)
(*                                                                         *)
(* A publish request looks for similar cards in one transaction and writes *)
(* in another; nothing ties the two, and a request has no idempotency key. *)
(* Each call of a database function is one step here, at its end; what a   *)
(* removal had found by then may be older.  PrivateCards opens the calls   *)
(* up.  A card's text stands for all its fields, and for its digest: two   *)
(* texts have the same digest only if they are the same.                   *)
(***************************************************************************)
EXTENDS Naturals, Sequences, SequencesExt

CONSTANTS
  Client,      \* who publishes, one request at a time
  Text,        \* card texts
  Input,       \* the texts that users write
  normal,      \* what _normalize_text makes of a text
  Searchable,  \* texts whose task profile the search does not reject
  Finds,       \* <<t, u>>: of the first 32 terms of t, in the order of the alphabet
               \* and ASCII alone, at least two occur in u
  MaxCards,    \* bound on the cards
  MaxVersions, \* bound on the versions of all the cards together
  None

ASSUME TextAssumption ==
  /\ Input \subseteq Text /\ Searchable \subseteq Text /\ Finds \subseteq Text \X Text
  /\ normal \in [Text -> Text]
ASSUME BoundAssumption == MaxCards \in Nat /\ MaxVersions \in Nat \ {0}
Card == 1 .. MaxCards
Kind == {"captured", "revoked", "purged"}
Via == {"tool", "http", "browser"}
Challenge == {"approval_required", "merge_required"}

ASSUME NoneAssumption ==
  /\ None \notin Text /\ None \notin Card
  /\ None \notin Via \cup Challenge \cup {"lost", "create_new", "update_existing"}

VARIABLES
  cards,   \* the cards with their versions, the last of which is the current one
  client   \* each client's request and how far it is

vars == <<cards, client>>

\* agreed: who stored the version had approved this very text (history).
Version == [text : Text, doc : Kind, body : Kind, agreed : BOOLEAN]
\* History: unasked, stored by a request without a decision whose search succeeded and
\* found nothing, and not changed since; seen, the cards there were when it looked;
\* purged, how many versions the API's purges found that have ended.
CardRow == [status : {"absent", "approved_private", "revoked"}, versions : Seq(Version),
            unasked : BOOLEAN, seen : SUBSET Card, purged : Nat]
Request == [pc : {"idle", "sent", "looked", "answered"}, via : Via \cup {None},
            text : Text \cup {None}, digest : Text \cup {None},
            decision : {None, "create_new", "update_existing"}, target : Card \cup {None},
            unasked : BOOLEAN, seen : SUBSET Card,
            answer : Challenge \cup {None, "stored", "lost"}]

NoCard == [status |-> "absent", versions |-> <<>>, unasked |-> FALSE, seen |-> {}, purged |-> 0]
NoRequest == [pc |-> "idle", via |-> None, text |-> None, digest |-> None, decision |-> None,
              target |-> None, unasked |-> FALSE, seen |-> {}, answer |-> None]

TypeOK ==
  /\ cards \in [Card -> CardRow]
  /\ client \in [Client -> Request]
  /\ \A k \in Card : (cards[k].versions = <<>>) <=> (cards[k].status = "absent")

Init ==
  /\ cards = [k \in Card |-> NoCard]
  /\ client = [c \in Client |-> NoRequest]

-----------------------------------------------------------------------------
(* What the tables serve. *)

Current(k) == Last(cards[k].versions)

Existing == {k \in Card : cards[k].status # "absent"}

\* knudg_closed_private_search and knudg_closed_api_card_view: the current
\* version alone, while the card, its document and its body stand.
Served(k) ==
  /\ cards[k].status = "approved_private"
  /\ Current(k).doc = "captured" /\ Current(k).body = "captured"

\* local_private_search: any version, for it does not ask which is the current one.
LocalHits(k) ==
  {i \in DOMAIN cards[k].versions :
     /\ cards[k].status = "approved_private"
     /\ cards[k].versions[i].doc = "captured" /\ cards[k].versions[i].body = "captured"}

\* local_private_verify_fences
ActiveBodies(k) == {i \in DOMAIN cards[k].versions : cards[k].versions[i].body = "captured"}

\* The id is a new one; which one is no matter.
NextCard == CHOOSE k \in Card : k \notin Existing

\* The bounds leave room for one more version.
Room ==
  Cardinality(UNION {{<<k, i>> : i \in DOMAIN cards[k].versions} : k \in Card}) < MaxVersions

NewVersion(text, agreed) ==
  [text |-> text, doc |-> "captured", body |-> "captured", agreed |-> agreed]

NewCard(version, unasked, seen) ==
  [status |-> "approved_private", versions |-> <<version>>,
   unasked |-> unasked, seen |-> seen, purged |-> 0]

-----------------------------------------------------------------------------
(* The clients. *)

\* The posting tool (via "tool") sends the normalized card with the digest of it that its
\* user has approved; the browser and an HTTP client come without a digest.
Post(c, via, x) ==
  /\ client[c].pc = "idle"
  /\ client' = [client EXCEPT ![c] =
       [NoRequest EXCEPT !.pc = "sent", !.via = via,
                         !.text = IF via = "tool" THEN normal[x] ELSE x,
                         !.digest = IF via = "tool" THEN normal[x] ELSE None]]
  /\ UNCHANGED cards

Resend(c, digest, decision, target) ==
  /\ client' = [client EXCEPT ![c] =
       [NoRequest EXCEPT !.pc = "sent", !.via = client[c].via, !.text = client[c].text,
                         !.digest = digest, !.decision = decision, !.target = target]]
  /\ UNCHANGED cards

\* The user has reviewed the text of the digest offered, and may decide about
\* the candidates.  The front end refuses (completion_disabled) and the tool
\* has no way to say so.
Resubmit(c) ==
  /\ client[c].answer \in Challenge /\ client[c].via = "http"
  /\ \/ Resend(c, normal[client[c].text], client[c].decision, client[c].target)
     \/ Resend(c, normal[client[c].text], "create_new", None)
     \/ \E k \in Existing : Resend(c, normal[client[c].text], "update_existing", k)

\* The same request again, whether or not it was carried out.
Retry(c) ==
  /\ client[c].answer = "lost"
  /\ Resend(c, client[c].digest, client[c].decision, client[c].target)

Leave(c) ==
  /\ client[c].pc = "answered"
  /\ client' = [client EXCEPT ![c] = NoRequest]
  /\ UNCHANGED cards

-----------------------------------------------------------------------------
(* The server's handling of a publish request. *)

\* The text as the server stores it: validated, hence normalized, once more.
Stored(c) == normal[client[c].text]

\* What the search for the terms of the text is sure of.  A text of too few terms
\* is not sure of any card, its own included.
Hits(c) == {k \in Card : Served(k) /\ <<Stored(c), Current(k).text>> \in Finds}

\* The terms may bring up other cards (the rank of the text counts as one), and so may
\* the vectors, where there are any; the limit drops some of them, but never all.
\* That the target is left out is no matter: who names one has decided.
Candidates(c) ==
  {found \in SUBSET {k \in Card : Served(k)} : Hits(c) # {} => found # {}}

Answer(c, answer) ==
  client' = [client EXCEPT ![c] =
    [@ EXCEPT !.pc = "answered", !.answer = answer, !.unasked = FALSE, !.seen = {}]]

\* Any digest will do.
FaultyApproved(c) == client[c].digest # None

Approved(c) == client[c].digest = Stored(c)

\* Asks only those who named a target.
FaultyUndecided(c, found) == found # {} /\ client[c].target # None /\ client[c].decision = None

Undecided(c, found) == found # {} /\ client[c].decision = None

\* Asks the client back, or goes on to write with what the search said.
AfterSearch(c, found, blind) ==
  /\ \/ ~ Approved(c) /\ Answer(c, "approval_required")
     \/ Approved(c) /\ Undecided(c, found) /\ Answer(c, "merge_required")
     \/ /\ Approved(c) /\ ~ Undecided(c, found)
        /\ LET unasked == ~ blind /\ client[c].decision = None
           IN client' = [client EXCEPT ![c] =
                [@ EXCEPT !.pc = "looked", !.unasked = unasked,
                          !.seen = IF unasked THEN Existing ELSE {}]]
  /\ UNCHANGED cards

Look(c) ==
  /\ client[c].pc = "sent" /\ Stored(c) \in Searchable
  /\ \E found \in Candidates(c) : AfterSearch(c, found, FALSE)

\* Whatever goes wrong in the search, "allow_create_new" is recommended; it
\* always does when the search rejects the text.
LookFails(c) ==
  /\ client[c].pc = "sent"
  /\ AfterSearch(c, {}, TRUE)

\* The digest header agrees, and it is not the browser's doing.
Written(c) == NewVersion(Stored(c), client[c].digest = Stored(c) /\ client[c].via # "browser")

Insert(c) ==
  /\ client[c].pc = "looked" /\ client[c].decision # "update_existing"
  /\ Existing # Card /\ Room
  /\ cards' = [cards EXCEPT ![NextCard] =
       NewCard(Written(c), client[c].unasked, client[c].seen)]
  /\ Answer(c, "stored")

\* Leaves the status of the card aside.
FaultyEligible(k) == Current(k).doc # "purged" /\ Current(k).body # "purged"

\* knudg_closed_private_merge_update finds its target.
Eligible(k) == Served(k)

\* Leaves the document of the old version as it is.
FaultyAppended(row, version) ==
  [row EXCEPT !.versions = Append(@, version), !.unasked = FALSE, !.seen = {}]

Appended(row, version) ==
  LET old == row.versions
  IN [row EXCEPT !.versions = Append([old EXCEPT ![Len(old)].doc = "revoked"], version),
                 !.unasked = FALSE, !.seen = {}]

Update(c) ==
  LET k == client[c].target
  IN /\ client[c].pc = "looked" /\ client[c].decision = "update_existing" /\ Eligible(k)
     /\ IF Current(k).text = Stored(c)
        THEN UNCHANGED cards
        ELSE Room /\ cards' = [cards EXCEPT ![k] = Appended(cards[k], Written(c))]
     /\ Answer(c, "stored")

\* The client knows no more than if the answer had got lost.
UpdateRefused(c) ==
  /\ client[c].pc = "looked" /\ client[c].decision = "update_existing" /\ ~ Eligible(client[c].target)
  /\ Answer(c, "lost")
  /\ UNCHANGED cards

\* The server dies over the request, or its answer gets lost.
Lose(c) ==
  /\ client[c].pc # "idle" /\ client[c].answer # "lost"
  /\ Answer(c, "lost")
  /\ UNCHANGED cards

-----------------------------------------------------------------------------
(* The other operations on the tables. *)

LocalCapture(x) ==
  /\ Existing # Card /\ Room
  /\ cards' = [cards EXCEPT ![NextCard] = NewCard(NewVersion(normal[x], TRUE), FALSE, {})]
  /\ UNCHANGED client

(* A removal works on what its statements find.  Its first one, on the     *)
(* documents, may have begun before the last merges, hence n versions; the *)
(* one on the bodies comes after the merge whose document the first one    *)
(* waited for, but the card's own row is the last that either locks.       *)

Withdrawn(row, versions) ==
  [row EXCEPT !.status = "revoked", !.versions = versions, !.unasked = FALSE, !.seen = {}]

\* How many versions the two statements of a removal find.
Found(versions) ==
  {f \in (1 .. Len(versions)) \X (1 .. Len(versions)) :
     f[1] < f[2] \/ (f[1] = f[2] /\ f[1] = Len(versions))}

\* What a revocation by the API leaves of the versions.
RevokeAll(versions, n, b) ==
  [i \in DOMAIN versions |->
     [versions[i] EXCEPT
        !.doc = IF i <= n /\ versions[i].doc = "captured" THEN "revoked" ELSE versions[i].doc,
        !.body = IF i <= b /\ versions[i].body # "purged" THEN "revoked" ELSE versions[i].body]]

\* knudg_closed_private_revoke, as of migration 0016
ApiRevoke(k) ==
  /\ \E f \in Found(cards[k].versions) :
       LET versions == cards[k].versions
       IN /\ \/ \E i \in 1 .. f[1] : versions[i].doc = "captured"
             \/ \E i \in 1 .. f[2] : versions[i].body # "purged"
          /\ cards' = [cards EXCEPT ![k] =
               Withdrawn(cards[k], RevokeAll(versions, f[1], f[2]))]
  /\ UNCHANGED client

\* As it was before migration 0016: the current version alone.
FaultyPurgeAll(versions, n, b) ==
  [versions EXCEPT ![n].doc = "purged", ![n].body = "purged"]

PurgeAll(versions, n, b) ==
  [i \in DOMAIN versions |->
     [versions[i] EXCEPT !.doc = IF i <= n THEN "purged" ELSE versions[i].doc,
                         !.body = IF i <= b THEN "purged" ELSE versions[i].body]]

\* knudg_closed_private_purge, as of migration 0016
ApiPurge(k) ==
  /\ \E f \in Found(cards[k].versions) :
       LET emptied == PurgeAll(cards[k].versions, f[1], f[2])
       IN /\ emptied # cards[k].versions
          /\ cards' = [cards EXCEPT ![k] =
               [Withdrawn(cards[k], emptied) EXCEPT !.purged = IF @ < f[1] THEN f[1] ELSE @]]
  /\ UNCHANGED client

\* The documents that are captured; the body of one of their versions.
Hidden(versions, n, one) ==
  [i \in DOMAIN versions |->
     [versions[i] EXCEPT
        !.doc = IF i <= n /\ versions[i].doc = "captured" THEN "revoked" ELSE versions[i].doc,
        !.body = IF i = one /\ versions[i].body = "captured" THEN "revoked" ELSE versions[i].body]]

LocalRevoke(k) ==
  /\ \E n \in DOMAIN cards[k].versions : \E one \in 1 .. n :
       /\ cards[k].versions[one].doc = "captured"
       /\ cards' = [cards EXCEPT ![k] = Withdrawn(cards[k], Hidden(cards[k].versions, n, one))]
  /\ UNCHANGED client

\* The version of the document that was the newest when it looked.
LocalPurge(k) ==
  /\ \E n \in DOMAIN cards[k].versions :
       cards' = [cards EXCEPT ![k] =
         Withdrawn(cards[k], [cards[k].versions EXCEPT ![n].doc = "purged", ![n].body = "purged"])]
  /\ UNCHANGED client

-----------------------------------------------------------------------------

Handle(c) ==
  Look(c) \/ LookFails(c) \/ Insert(c) \/ Update(c) \/ UpdateRefused(c) \/ Lose(c)

Next ==
  \/ \E c \in Client : Handle(c) \/ Resubmit(c) \/ Retry(c) \/ Leave(c)
  \/ \E c \in Client, x \in Input, via \in Via : Post(c, via, x)
  \/ \E x \in Input : LocalCapture(x)
  \/ \E k \in Card : ApiRevoke(k) \/ ApiPurge(k) \/ LocalRevoke(k) \/ LocalPurge(k)

Spec == Init /\ [][Next]_vars

-----------------------------------------------------------------------------

\* Two cards are served, neither of them by somebody's decision, though a search
\* for the one is sure of the other, only if that search failed or the requests
\* overlapped: a request that is repeated after a lost answer makes no second card
\* of a text that finds itself.  Of other texts it may.
NoSilentTwin ==
  \A j, k \in Card :
    (/\ j # k /\ Served(j) /\ Served(k) /\ cards[j].unasked /\ cards[k].unasked
     /\ <<Current(k).text, Current(j).text>> \in Finds)
    => j \notin cards[k].seen

\* What a request has stored is the text whose digest its user approved, however
\* often it was normalized on the way, and nothing comes from the browser.
StoredAsApproved ==
  \A k \in Card : \A i \in DOMAIN cards[k].versions : cards[k].versions[i].agreed

\* Search and view of the API, the local search and its count of active
\* documents tell of the same cards in the same version.
SurfacesAgree ==
  \A k \in Card :
    LocalHits(k) = IF Served(k) THEN {Len(cards[k].versions)} ELSE {}

\* After a purge by the API none of the versions that the card had when it began
\* keeps its text, also none that a merge replaced or a local command left, and
\* nothing brings one back.  A version whose merge the purge overlapped may keep it
\* until the next purge.
ApiPurgeIsThorough ==
  \A k \in Card : \A i \in DOMAIN cards[k].versions :
    i <= cards[k].purged =>
      cards[k].versions[i].doc = "purged" /\ cards[k].versions[i].body = "purged"

\* A card that was revoked or purged in either way stays out of every search, gets
\* no text any more and no version, also not from a merge that was under way; so a
\* purge that begins later reaches all there is.
WithdrawnIsFinal ==
  [][\A k \in Card : cards[k].status = "revoked" =>
       /\ cards'[k].status = "revoked" /\ LocalHits(k)' = {}
       /\ ActiveBodies(k)' \subseteq ActiveBodies(k)
       /\ Len(cards'[k].versions) = Len(cards[k].versions)]_vars
=============================================================================
