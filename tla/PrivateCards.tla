---------------------------- MODULE PrivateCards ----------------------------
(***************************************************************************)
(* One card of the closed private service: publish, merge update, revoke,  *)
(* purge, the embedding and the two searches (migrations 0005, 0015, 0016  *)
(* and 0018, called by scripts/knudg_closed_api.py).                       *)
(*                                                                         *)
(* Each call is one READ COMMITTED transaction.  A statement finds its     *)
(* rows in what was committed when it began, then locks them one by one    *)
(* and checks its condition again on each row's latest version; what is    *)
(* not committed is seen by its own transaction only, and a row's writer   *)
(* holds its lock until the end.  Hence the variables hold what is         *)
(* committed, and a call remembers the rows it has written.                *)
(* A merge update locks the card, the body and the search document, in     *)
(* this order; a revoke or a purge the documents, the bodies and the card. *)
(***************************************************************************)
EXTENDS Naturals, FiniteSets

CONSTANTS
  Publisher,   \* calls that publish: the card is born by one of them
  Merger,      \* calls that merge an update into the card
  Revoker,     \* calls that revoke it
  Purger,      \* calls that purge it
  Free         \* the holder of a row nobody has locked

Remover == Revoker \cup Purger
Call == Publisher \cup Merger \cup Remover
Version == 1 .. (1 + Cardinality(Merger))
Card == <<"card", 0>>
Doc(v) == <<"doc", v>>
Body(v) == <<"body", v>>
Row == {Card} \cup ({"doc", "body"} \X Version)

ASSUME CallAssumption ==
  /\ IsFiniteSet(Call) /\ Cardinality(Publisher) = 1
  /\ Cardinality(Call) = 1 + Cardinality(Merger) + Cardinality(Revoker)
                           + Cardinality(Purger)
  /\ Free \notin Call

VARIABLES
  card,      \* experience_cards: status and current_version_id
  doc,       \* local_private_search_documents.lifecycle_status, by version
  body,      \* local_private_card_bodies.lifecycle_status, by version
  embedded,  \* the versions whose document has an embedding
  base,      \* card_edges: the version each version supersedes
  lock,      \* the call that holds each row's lock
  call       \* the calls

vars == <<card, doc, body, embedded, base, lock, call>>

-----------------------------------------------------------------------------

Lifecycle == {"absent", "captured", "revoked", "purged"}

\* todo: the rows the current statement has found and not locked yet; wrote:
\* the rows written; late: a removal had taken effect before it began.
CallState ==
  [pc : {"idle", "locking", "docs", "bodies", "embedding",
         "done", "aborted"},
   version : Version \cup {0}, todo : SUBSET Row, wrote : SUBSET Row,
   late : BOOLEAN]

TypeOK ==
  /\ card \in [status : {"absent", "approved_private", "revoked"},
               current : Version \cup {0}]
  /\ doc \in [Version -> Lifecycle] /\ body \in [Version -> Lifecycle]
  /\ embedded \in SUBSET Version
  /\ base \in [Version -> Version \cup {0}]
  /\ lock \in [Row -> Call \cup {Free}]
  /\ call \in [Call -> CallState]

Init ==
  /\ card = [status |-> "absent", current |-> 0]
  /\ doc = [v \in Version |-> "absent"] /\ body = [v \in Version |-> "absent"]
  /\ embedded = {}
  /\ base = [v \in Version |-> 0]
  /\ lock = [r \in Row |-> Free]
  /\ call = [c \in Call |-> [pc |-> "idle", version |-> 0, todo |-> {},
                             wrote |-> {}, late |-> FALSE]]

Stored == <<card, doc, body, embedded, base>>

\* Leaves the connection open, and the transaction with it.
FaultyEnd(c, outcome) ==
  /\ call' = [call EXCEPT ![c].pc = outcome, ![c].todo = {}]
  /\ UNCHANGED lock

\* The transaction of call c ends.
End(c, outcome) ==
  /\ lock' = [r \in Row |-> IF lock[r] = c THEN Free ELSE lock[r]]
  /\ call' = [call EXCEPT ![c].pc = outcome, ![c].todo = {}]

\* Call c, which has row r to lock, locks it.
Lock(c, r) ==
  /\ lock[r] = Free
  /\ lock' = [lock EXCEPT ![r] = c]

-----------------------------------------------------------------------------
(* Publish and merge update. *)

Publish(c) ==
  /\ call[c].pc = "idle"
  /\ card' = [status |-> "approved_private", current |-> 1]
  /\ doc' = [doc EXCEPT ![1] = "captured"]
  /\ body' = [body EXCEPT ![1] = "captured"]
  /\ call' = [call EXCEPT ![c].pc = "embedding", ![c].version = 1]
  /\ UNCHANGED <<embedded, base, lock>>

\* Looks at the status of the card only.
FaultyEligible(v) == card.status = "approved_private"

Eligible(v) ==
  /\ card.status = "approved_private" /\ card.current = v
  /\ doc[v] = "captured" /\ body[v] = "captured"

\* The SELECT ... FOR UPDATE finds the card and its current version.
MergeBegin(c) ==
  /\ call[c].pc = "idle"
  /\ LET v == card.current
     IN IF v # 0 /\ Eligible(v)
        THEN call' = [call EXCEPT ![c].pc = "locking", ![c].version = v,
                                  ![c].todo = {Card, Body(v), Doc(v)}]
        ELSE call' = [call EXCEPT ![c].pc = "done"]
  /\ UNCHANGED <<Stored, lock>>

\* A revoke or a purge has updated its rows and wants the card's.
NeedsCard(c) ==
  call[c].pc = "bodies" /\ call[c].todo = {} /\ call[c].wrote # {}

\* The rows call c may lock next; the rows of a merge are locked in order.
Wanted(c) ==
  LET todo == call[c].todo
      v == call[c].version
  IN IF NeedsCard(c) THEN {Card}
     ELSE IF c \notin Merger THEN todo
     ELSE IF Card \in todo THEN {Card}
     ELSE IF Body(v) \in todo THEN {Body(v)} ELSE todo

MergeLock(c) ==
  /\ call[c].pc = "locking"
  /\ \E r \in Wanted(c) :
       Lock(c, r) /\ call' = [call EXCEPT ![c].todo = @ \ {r}]
  /\ UNCHANGED Stored

\* With every row locked the condition is checked again.
MergeReady(c) == call[c].pc = "locking" /\ call[c].todo = {}

\* The row is no longer eligible, so the function raises; or the digests of
\* the new body and payload are those of the current version.
MergeNothing(c) ==
  /\ MergeReady(c)
  /\ End(c, "done")
  /\ UNCHANGED Stored

\* Leaves the old document as it is.
FaultySupersededKept(v, new) == [doc EXCEPT ![new] = "captured"]

\* Makes no document for the new version.
FaultySupersededOnly(v, new) == [doc EXCEPT ![v] = "revoked"]

\* The documents once version new has superseded version v.
Superseded(v, new) == [doc EXCEPT ![v] = "revoked", ![new] = "captured"]

MergeCommit(c) ==
  LET v == call[c].version
      new == Cardinality({u \in Version : body[u] # "absent"}) + 1
  IN /\ MergeReady(c) /\ Eligible(v)
     /\ card' = [card EXCEPT !.current = new]
     /\ doc' = Superseded(v, new)
     /\ body' = [body EXCEPT ![new] = "captured"]
     /\ base' = [base EXCEPT ![new] = v]
     /\ lock' = [r \in Row |-> IF lock[r] = c THEN Free ELSE lock[r]]
     /\ call' = [call EXCEPT ![c].pc = "embedding", ![c].version = new]
     /\ UNCHANGED embedded

\* store_card_embedding, after the commit, in a transaction of its own.
Embed(c) ==
  LET v == call[c].version
  IN /\ call[c].pc = "embedding" /\ lock[Doc(v)] = Free
     /\ embedded' = IF doc[v] = "captured" THEN embedded \cup {v} ELSE embedded
     /\ call' = [call EXCEPT ![c].pc = "done"]
     /\ UNCHANGED <<card, doc, body, base, lock>>

\* There is no embedding provider, or storing the embedding fails.
SkipEmbedding(c) ==
  /\ call[c].pc = "embedding"
  /\ call' = [call EXCEPT ![c].pc = "done"]
  /\ UNCHANGED <<Stored, lock>>

-----------------------------------------------------------------------------
(* Revoke and purge. *)

\* Purges what has not been revoked.
FaultyDocMatches(c, v) == doc[v] = "captured"

\* The WHERE clauses of their two updates, on a row's committed version.
DocMatches(c, v) ==
  IF c \in Purger THEN doc[v] \notin {"absent", "purged"} ELSE doc[v] = "captured"
BodyMatches(c, v) == body[v] \notin {"absent", "purged"}
Matches(c, r) ==
  IF r[1] = "doc" THEN DocMatches(c, r[2]) ELSE BodyMatches(c, r[2])

\* The first statement that writes finds the documents.
RemoveBegin(c) ==
  /\ call[c].pc = "idle"
  /\ IF card.status = "absent"
     THEN call' = [call EXCEPT ![c].pc = "done"]
     ELSE call' = [call EXCEPT
            ![c].pc = "docs",
            ![c].todo = {Doc(v) : v \in {u \in Version : DocMatches(c, u)}},
            ![c].late = card.status = "revoked"]
  /\ UNCHANGED <<Stored, lock>>

\* A row that matches no longer is skipped.
RemoveRow(c) ==
  /\ call[c].pc \in {"docs", "bodies"}
  /\ \E r \in call[c].todo :
       /\ lock[r] = Free
       /\ lock' = IF Matches(c, r) THEN [lock EXCEPT ![r] = c] ELSE lock
       /\ call' = [call EXCEPT ![c].todo = @ \ {r},
            ![c].wrote = IF Matches(c, r) THEN @ \cup {r} ELSE @]
  /\ UNCHANGED Stored

\* The second one finds the bodies, in what is committed by now.
RemoveBodies(c) ==
  /\ call[c].pc = "docs" /\ call[c].todo = {}
  /\ call' = [call EXCEPT ![c].pc = "bodies",
       ![c].todo = {Body(v) : v \in {u \in Version : BodyMatches(c, u)}}]
  /\ UNCHANGED <<Stored, lock>>

\* No row was updated: the card is left alone.
RemoveNothing(c) ==
  /\ call[c].pc = "bodies" /\ call[c].todo = {} /\ call[c].wrote = {}
  /\ End(c, "done")
  /\ UNCHANGED Stored

Removed(c) == IF c \in Purger THEN "purged" ELSE "revoked"

\* The third one updates the card, if a row was updated.
RemoveCommit(c) ==
  LET status == Removed(c)
      wrote == call[c].wrote
  IN /\ NeedsCard(c) /\ lock[Card] = Free
     /\ card' = [card EXCEPT !.status = "revoked"]
     /\ doc' = [v \in Version |-> IF Doc(v) \in wrote THEN status ELSE doc[v]]
     /\ body' = [v \in Version |-> IF Body(v) \in wrote THEN status ELSE body[v]]
     /\ End(c, "done")
     /\ UNCHANGED <<embedded, base>>

-----------------------------------------------------------------------------
(* What ends a call early. *)

\* The calls all of whose next rows are locked by others.
Waiting ==
  {c \in Call : Wanted(c) # {} /\ \A r \in Wanted(c) : lock[r] \notin {Free, c}}

\* PostgreSQL aborts a call that waits, through others, for itself.
Deadlocked(c) ==
  /\ c \in Waiting
  /\ LET Holders(d) == {lock[r] : r \in Wanted(d)}
     IN \E cycle \in SUBSET Waiting :
          /\ c \in cycle
          /\ \A d \in cycle : /\ Holders(d) \cap cycle # {}
                              /\ \E e \in cycle : d \in Holders(e)

AbortDeadlock(c) ==
  /\ Deadlocked(c)
  /\ End(c, "aborted")
  /\ UNCHANGED Stored

\* The connection or the API process is lost: the transaction is rolled back.
Disconnect(c) ==
  /\ call[c].pc \in {"locking", "docs", "bodies"}
  /\ End(c, "aborted")
  /\ UNCHANGED Stored

Proceed(c) ==
  \/ c \in Publisher /\ Publish(c)
  \/ c \in Merger /\ MergeBegin(c)
  \/ c \in Merger /\ MergeLock(c)
  \/ c \in Merger /\ MergeNothing(c)
  \/ c \in Merger /\ MergeCommit(c)
  \/ Embed(c)
  \/ SkipEmbedding(c)
  \/ c \in Remover /\ RemoveBegin(c)
  \/ RemoveRow(c)
  \/ RemoveBodies(c)
  \/ RemoveNothing(c)
  \/ RemoveCommit(c)
  \/ AbortDeadlock(c)

Next == \E c \in Call : Proceed(c) \/ Disconnect(c)

Spec == Init /\ [][Next]_vars

\* The server does not stand still while a call can go on, a deadlock it
\* finds included.  Each call makes finitely many steps, so this is enough.
FairSpec == Spec /\ WF_vars(\E c \in Call : Proceed(c))

-----------------------------------------------------------------------------
(* What the searches serve, and the properties. *)

\* knudg_closed_private_search joins on the current version ...
TextServed ==
  {v \in Version : /\ card.status = "approved_private" /\ card.current = v
                   /\ doc[v] = "captured" /\ body[v] = "captured"}
\* ... and knudg_closed_private_vector_search does not.
VectorServed ==
  {v \in Version : /\ card.status = "approved_private" /\ v \in embedded
                   /\ doc[v] = "captured" /\ body[v] = "captured"}

\* The vector search never serves a version the text search would not: that
\* merge_update revokes the old document with the move of current_version_id
\* makes up for the join the vector search leaves out.
SearchesAgree == VectorServed \subseteq TextServed

\* Whatever runs concurrently, a card that has not been removed is found:
\* exactly one of its versions is served.
AlwaysFound ==
  card.status = "approved_private" => TextServed = {card.current}

\* Merges never overwrite each other: the committed versions form a chain,
\* each superseding the one that was current just before it.
NoLostUpdate ==
  \A v \in 1 .. card.current : base[v] = v - 1

\* A purge that began after a removal had taken effect leaves no document
\* and no body behind, whatever the first one missed in a race with a merge.
SecondPurgeCompletes ==
  \A c \in Purger :
    call[c].pc = "done" /\ call[c].late =>
      \A v \in Version : {doc[v], body[v]} \subseteq {"absent", "purged"}

\* A call never waits for ever, though merges and removals take their locks
\* in opposite orders.
EveryCallEnds == <>(\A c \in Call : call[c].pc \in {"done", "aborted"})

\* The promise of the purge test: when a purge has removed something, every
\* version's document and body are purged.
PurgeIsComplete ==
  \A c \in Purger :
    call[c].pc = "done" /\ call[c].wrote # {} =>
      \A v \in Version : {doc[v], body[v]} \subseteq {"absent", "purged"}
=============================================================================
