------------------------- MODULE PrivateCardsProofs -------------------------
(* PrivateCards, proved for any number of concurrent calls: the searches     *)
(* agree, a card that has not been removed is found, merges do not overwrite *)
(* each other, a second purge completes the first, a purge sees to all that  *)
(* was there when it began, and the calls never come to a standstill.        *)
EXTENDS PrivateCards, FiniteSetTheorems, TLAPS

Gone == {"absent", "purged"}

\* What each kind of call can be doing.
Place(c) ==
  /\ c \in Publisher => call[c].pc \in {"idle", "embedding", "done"}
  /\ c \in Merger =>
       call[c].pc \in {"idle", "locking", "embedding", "done", "aborted"}
  /\ c \in Remover =>
       call[c].pc \in {"idle", "docs", "bodies", "done", "aborted"}

\* What a call remembers: nothing before it begins; a version while it needs
\* one; rows to lock in the middle only; a removal looks for documents and bodies only.
Memory(c) ==
  /\ call[c].pc = "idle" => call[c].wrote = {} /\ ~ call[c].late
  /\ call[c].pc \in {"locking", "embedding"} => call[c].version \in Version
  /\ call[c].pc \notin {"locking", "docs", "bodies"} => call[c].todo = {}
  /\ call[c].pc \in {"docs", "bodies"} => Card \notin call[c].todo
  /\ call[c].pc = "bodies" => \A v \in Version : Doc(v) \notin call[c].todo

\* What a call holds: a merge has locked what it need not lock any more, a
\* removal what it has written, which nobody has changed since.
Hold(c) ==
  /\ call[c].pc = "locking" =>
       LET v == call[c].version
       IN \A r \in {Card, Body(v), Doc(v)} : r \in call[c].todo \/ lock[r] = c
  /\ call[c].pc \in {"docs", "bodies"} =>
       \A r \in call[c].wrote : r # Card /\ lock[r] = c /\ Matches(c, r)

\* What a late purge has still to do: a document or body that is not gone is
\* among the rows it has found or written, or will be found by its next
\* statement.
Leave(c) ==
  /\ call[c].late => card.status = "revoked"
  /\ (c \in Purger /\ call[c].late) =>
       /\ call[c].pc = "docs" => \A v \in Version :
            doc[v] \in Gone \/ Doc(v) \in call[c].todo \cup call[c].wrote
       /\ call[c].pc = "bodies" => \A v \in Version :
            /\ doc[v] \in Gone \/ Doc(v) \in call[c].wrote
            /\ body[v] \in Gone \/ Body(v) \in call[c].todo \cup call[c].wrote
       /\ call[c].pc = "done" => \A v \in Version :
            doc[v] \in Gone /\ body[v] \in Gone

Sane(c) == Place(c) /\ Memory(c) /\ Hold(c) /\ Leave(c)

\* The mergers that can commit no more.
Past == {m \in Merger : call[m].pc \notin {"idle", "locking"}}

\* The versions are 1 .. current, each made by the publisher or by a merger of
\* its own, and the card is there once the publisher has begun.
Versions ==
  /\ card.status = "absent" <=> card.current = 0
  /\ (\E c \in Publisher : call[c].pc = "idle") => card.current = 0
  /\ card.current <= 1 + Cardinality(Past)
  /\ \A v \in Version : /\ doc[v] = "absent" <=> v > card.current
                        /\ body[v] = "absent" <=> v > card.current
                        /\ v > card.current => base[v] = 0

\* While the card stands, the current version's document and body are
\* captured, and no other document is.
Current ==
  card.status = "approved_private" =>
    /\ body[card.current] = "captured"
    /\ \A v \in Version : doc[v] = "captured" <=> v = card.current

IInv ==
  /\ TypeOK
  /\ \A c \in Call : Sane(c)
  /\ Versions
  /\ Current
  /\ NoLostUpdate

-----------------------------------------------------------------------------
(* The calls and the versions. *)

\* No call is of two kinds, and there is one publisher.
LEMMA Kinds ==
  /\ IsFiniteSet(Merger) /\ Cardinality(Merger) \in Nat
  /\ Publisher \cap Merger = {} /\ (Publisher \cup Merger) \cap Remover = {}
  /\ \E p : Publisher = {p}
<1> DEFINE Both == Publisher \cup Merger
<1>1. /\ IsFiniteSet(Publisher) /\ IsFiniteSet(Merger) /\ IsFiniteSet(Revoker)
      /\ IsFiniteSet(Purger) /\ IsFiniteSet(Both) /\ IsFiniteSet(Remover)
      /\ IsFiniteSet(Publisher \cap Merger) /\ IsFiniteSet(Revoker \cap Purger)
      /\ IsFiniteSet(Both \cap Remover)
  BY CallAssumption, FS_Subset DEF Call, Remover
<1>2. /\ Cardinality(Publisher) \in Nat /\ Cardinality(Merger) \in Nat
      /\ Cardinality(Revoker) \in Nat /\ Cardinality(Purger) \in Nat
      /\ Cardinality(Publisher \cap Merger) \in Nat
      /\ Cardinality(Revoker \cap Purger) \in Nat
      /\ Cardinality(Both \cap Remover) \in Nat
  BY <1>1, FS_CardinalityType
<1>3. Cardinality(Both) =
        Cardinality(Publisher) + Cardinality(Merger) - Cardinality(Publisher \cap Merger)
  BY <1>1, FS_Union
<1>4. Cardinality(Remover) =
        Cardinality(Revoker) + Cardinality(Purger) - Cardinality(Revoker \cap Purger)
  BY <1>1, FS_Union DEF Remover
<1>5. Cardinality(Call) =
        Cardinality(Both) + Cardinality(Remover) - Cardinality(Both \cap Remover)
  <2>1. Call = Both \cup Remover
    BY DEF Call
  <2>2. QED
    BY <1>1, <2>1, FS_Union
<1>6. Cardinality(Publisher \cap Merger) = 0 /\ Cardinality(Both \cap Remover) = 0
  <2> HIDE DEF Both
  <2>1. QED
    BY <1>2, <1>3, <1>4, <1>5, CallAssumption
<1>7. Publisher \cap Merger = {} /\ Both \cap Remover = {}
  BY <1>1, <1>6, FS_EmptySet
<1>8. \E p : Publisher = {p}
  BY <1>1, CallAssumption, FS_Singleton
<1>9. QED
  BY <1>1, <1>2, <1>7, <1>8

\* The rows of a version.
LEMMA Rows ==
  /\ Card \in Row
  /\ \A v \in Version : Doc(v) \in Row /\ Body(v) \in Row
  /\ \A r \in Row : r # Card => \E v \in Version : r = Doc(v) \/ r = Body(v)
  /\ \A u, v : /\ Doc(u) # Body(v) /\ Doc(u) # Card /\ Body(u) # Card
               /\ Doc(u) = Doc(v) => u = v
               /\ Body(u) = Body(v) => u = v
BY DEF Card, Doc, Body, Row

\* Which rows a removal looks for.
LEMMA MatchesRow ==
  \A c, v : /\ Matches(c, Doc(v)) = DocMatches(c, v)
            /\ Matches(c, Body(v)) = BodyMatches(c, v)
BY DEF Matches, Doc, Body

\* The version a merge makes is one of the versions there is room for.
LEMMA NextVersion ==
  ASSUME TypeOK, Versions, NEW m \in Merger, call[m].pc = "locking",
         card.status # "absent"
  PROVE  /\ Cardinality({u \in Version : body[u] # "absent"}) = card.current
         /\ card.current \in Version /\ card.current + 1 \in Version
<1>1. card.current \in Version
  BY DEF TypeOK, Versions
<1>2. Cardinality({u \in Version : body[u] # "absent"}) = card.current
  <2>1. {u \in Version : body[u] # "absent"} = 1 .. card.current
    <3>1. PICK n \in Nat : n = Cardinality(Merger)
      BY Kinds
    <3>2. \A v \in Version : body[v] # "absent" <=> v <= card.current
      BY <1>1, <3>1 DEF Versions, Version
    <3>3. 1 .. card.current \subseteq Version
      BY <1>1, <3>1 DEF Version
    <3>4. \A v \in Version : v <= card.current <=> v \in 1 .. card.current
      BY <1>1, <3>1 DEF Version
    <3>5. QED
      BY <3>2, <3>3, <3>4
  <2>2. card.current \in Int /\ 1 <= card.current
    BY <1>1, Kinds DEF Version
  <2>3. Cardinality(1 .. card.current) = card.current
    BY <2>2, FS_Interval
  <2>4. QED
    BY <2>1, <2>3
<1>3. card.current + 1 <= 1 + Cardinality(Merger)
  <2>1. Past \subseteq Merger /\ m \notin Past /\ Past \cup {m} \subseteq Merger
    BY DEF Past
  <2>2. IsFiniteSet(Past) /\ Cardinality(Past) \in Nat
    BY <2>1, Kinds, FS_Subset, FS_CardinalityType
  <2>3. Cardinality(Past \cup {m}) = Cardinality(Past) + 1
    BY <2>1, <2>2, FS_AddElement
  <2>4. Cardinality(Past \cup {m}) <= Cardinality(Merger)
    BY <2>1, Kinds, FS_Subset
  <2>5. QED
    BY <1>1, <2>2, <2>3, <2>4, Kinds DEF Versions, Version
<1>4. QED
  BY <1>1, <1>2, <1>3, Kinds DEF Version

-----------------------------------------------------------------------------
(* What a step leaves alone. *)

\* A call that does not step, and whose locks are its own still, stays sane
\* when nothing is committed.
LEMMA OthersKeep ==
  ASSUME TypeOK, NEW d \in Call, Sane(d), UNCHANGED <<card, doc, body>>,
         call'[d] = call[d], \A r \in Row : lock[r] = d => lock'[r] = d
  PROVE  Sane(d)'
<1>1. Place(d)' /\ Memory(d)' /\ Leave(d)'
  BY DEF Sane, Place, Memory, Leave, Gone
<1>2. Hold(d)'
  <2>1. call[d].pc = "locking" =>
          LET v == call[d].version
          IN \A r \in {Card, Body(v), Doc(v)} : r \in call[d].todo \/ lock'[r] = d
    BY Rows DEF Sane, Hold, Memory
  <2>2. \A r : Matches(d, r)' = Matches(d, r)
    BY DEF Matches, DocMatches, BodyMatches
  <2>3. call[d].wrote \subseteq Row
    BY DEF TypeOK, CallState
  <2>4. QED
    BY <2>1, <2>2, <2>3 DEF Sane, Hold
<1>3. QED
  BY <1>1, <1>2 DEF Sane

\* The contents stay right when nothing is committed and no call goes back.
LEMMA ContentsKeep ==
  ASSUME Versions, Current, NoLostUpdate, NEW c \in Call,
         UNCHANGED <<card, doc, body, base>>,
         \A d \in Call \ {c} : call'[d] = call[d],
         call'[c].pc # "idle",
         call[c].pc \notin {"idle", "locking"} => call'[c].pc # "locking",
         TypeOK
  PROVE  Versions' /\ Current' /\ NoLostUpdate'
<1>1. Current' /\ NoLostUpdate'
  BY DEF Current, NoLostUpdate
<1>2. Cardinality(Past) <= Cardinality(Past') /\ Cardinality(Past) \in Nat
                        /\ Cardinality(Past') \in Nat
  <2>1. Past \subseteq Past' /\ Past' \subseteq Merger
    BY DEF Past, Call
  <2>2. IsFiniteSet(Past') /\ IsFiniteSet(Past)
    BY <2>1, Kinds, FS_Subset
  <2>3. QED
    BY <2>1, <2>2, FS_Subset, FS_CardinalityType
<1>3. (\E d \in Publisher : call'[d].pc = "idle") => card.current = 0
  BY DEF Versions, Call
<1>4. card.current \in Nat
  BY Kinds DEF TypeOK, Version
<1>5. QED
  BY <1>1, <1>2, <1>3, <1>4 DEF Versions

\* The same for a whole step that commits nothing and that call c takes.
LEMMA Quiet ==
  ASSUME IInv, NEW c \in Call, UNCHANGED <<card, doc, body, base>>,
         embedded' \in SUBSET Version, lock' \in [Row -> Call \cup {Free}],
         call' \in [Call -> CallState],
         \A d \in Call \ {c} : call'[d] = call[d],
         \A d \in Call \ {c}, r \in Row : lock[r] = d => lock'[r] = d,
         call'[c].pc # "idle",
         call[c].pc \notin {"idle", "locking"} => call'[c].pc # "locking",
         Sane(c)'
  PROVE  IInv'
<1>1. TypeOK'
  BY DEF IInv, TypeOK
<1>2. ASSUME NEW d \in Call PROVE Sane(d)'
  <2>1. CASE d = c
    BY <2>1
  <2>2. CASE d # c
    BY <2>2, OthersKeep DEF IInv
  <2>3. QED
    BY <2>1, <2>2
<1>3. Versions' /\ Current' /\ NoLostUpdate'
  BY ContentsKeep DEF IInv
<1>4. QED
  BY <1>1, <1>2, <1>3 DEF IInv

\* A call may end without a commit, a late purge when nothing is left.
LEMMA EndKeeps ==
  ASSUME IInv, NEW c \in Call, NEW outcome \in {"done", "aborted"},
         UNCHANGED Stored, End(c, outcome),
         call[c].pc \in {"locking", "docs", "bodies"},
         outcome = "done" /\ c \in Purger /\ call[c].late =>
           \A v \in Version : doc[v] \in Gone /\ body[v] \in Gone
  PROVE  IInv'
<1>1. /\ call' \in [Call -> CallState] /\ lock' \in [Row -> Call \cup {Free}]
      /\ \A d \in Call \ {c} : call'[d] = call[d]
      /\ call'[c] = [call[c] EXCEPT !.pc = outcome, !.todo = {}]
  <2> DEFINE x == [call[c] EXCEPT !.pc = outcome, !.todo = {}]
  <2>1. call[c] \in CallState /\ call \in [Call -> CallState]
    BY DEF IInv, TypeOK
  <2>2. x \in CallState
    BY <2>1 DEF CallState
  <2>3. call' = [call EXCEPT ![c] = x]
    BY <2>1 DEF End, CallState
  <2>4. lock' \in [Row -> Call \cup {Free}]
    BY DEF End, IInv, TypeOK
  <2> HIDE DEF x
  <2>5. /\ call' \in [Call -> CallState] /\ call'[c] = x
        /\ \A d \in Call \ {c} : call'[d] = call[d]
    BY <2>1, <2>2, <2>3
  <2>6. QED
    BY <2>4, <2>5 DEF x
<1>2. \A d \in Call \ {c}, r \in Row : lock[r] = d => lock'[r] = d
  BY DEF End
<1>3. /\ call'[c].pc = outcome /\ call'[c].todo = {}
      /\ call'[c].late = call[c].late
  BY <1>1 DEF IInv, TypeOK, CallState
<1>4. Sane(c)
  BY DEF IInv
<1>5. Sane(c)'
  <2>1. Place(c)' /\ Memory(c)' /\ Hold(c)'
    BY <1>3, <1>4 DEF Sane, Place, Memory, Hold
  <2>2. Leave(c)'
    BY <1>3, <1>4 DEF Sane, Leave, Stored, Gone
  <2>3. QED
    BY <2>1, <2>2 DEF Sane
<1>6. QED
  BY <1>1, <1>2, <1>3, <1>5, Quiet DEF Stored, IInv, TypeOK

-----------------------------------------------------------------------------
(* The steps of a merge update that commit nothing. *)

\* A merge begins with all its locks to take and no version of its own.
LEMMA MergeBeginKeeps ==
  ASSUME IInv, NEW c \in Merger, MergeBegin(c)
  PROVE  IInv'
<1> DEFINE v == card.current
           begun == [call[c] EXCEPT !.pc = "locking", !.version = v,
                                    !.todo = {Card, Body(v), Doc(v)}]
           over == [call[c] EXCEPT !.pc = "done"]
<1>1. c \in Call /\ Sane(c) /\ call[c] \in CallState /\ c \notin Remover
                 /\ c \notin Publisher
  BY Kinds DEF Call, IInv, TypeOK
<1>2. /\ v \in Version \cup {0} /\ call[c].pc = "idle"
      /\ \/ v # 0 /\ call' = [call EXCEPT ![c] = begun]
         \/ call' = [call EXCEPT ![c] = over]
  BY DEF MergeBegin, IInv, TypeOK
<1>3. over \in CallState /\ (v # 0 => begun \in CallState)
  BY <1>1, <1>2, Rows DEF CallState
<1>4. call' \in [Call -> CallState] /\ \A d \in Call \ {c} : call'[d] = call[d]
  <2>1. \E x \in CallState : call' = [call EXCEPT ![c] = x]
    BY <1>1, <1>2, <1>3
  <2>2. QED
    BY <1>1, <2>1 DEF IInv, TypeOK
<1>5. /\ call[c].late = FALSE /\ call'[c].late = FALSE
      /\ \/ call'[c].pc = "done" /\ call'[c].todo = {}
         \/ /\ call'[c].pc = "locking" /\ call'[c].version = v /\ v \in Version
            /\ call'[c].todo = {Card, Body(v), Doc(v)}
  <2>1. call[c].late = FALSE /\ call[c].todo = {}
    BY <1>1, <1>2 DEF Sane, Memory, CallState
  <2>2. call'[c] \in {begun, over} /\ (v = 0 => call'[c] = over)
    <3>1. c \in DOMAIN call
      BY <1>1 DEF IInv, TypeOK
    <3> HIDE DEF begun, over
    <3>2. QED
      BY <1>2, <3>1
  <2>3. QED
    BY <1>1, <1>2, <2>1, <2>2 DEF CallState
<1>6. Sane(c)'
  BY <1>1, <1>5 DEF Sane, Place, Memory, Hold, Leave
<1>7. QED
  BY <1>1, <1>4, <1>5, <1>6, Quiet DEF MergeBegin, Stored, IInv, TypeOK

\* A merge locks a row that nobody holds, and has one less to lock.
LEMMA MergeLockKeeps ==
  ASSUME IInv, NEW c \in Merger, MergeLock(c)
  PROVE  IInv'
<1>1. c \in Call /\ Sane(c) /\ call[c] \in CallState /\ c \notin Remover
                 /\ c \notin Publisher
  BY Kinds DEF Call, IInv, TypeOK
<1>2. PICK r \in Wanted(c) : /\ Lock(c, r)
                             /\ call' = [call EXCEPT ![c].todo = @ \ {r}]
  BY DEF MergeLock
<1>3. call[c].pc = "locking" /\ UNCHANGED Stored
  BY DEF MergeLock
<1>4. r \in call[c].todo /\ r \in Row
  <2>1. Wanted(c) \subseteq call[c].todo
    BY <1>3 DEF Wanted, NeedsCard
  <2>2. QED
    BY <1>1, <1>2, <2>1 DEF CallState
<1>5. /\ call' \in [Call -> CallState] /\ \A d \in Call \ {c} : call'[d] = call[d]
      /\ call'[c].pc = "locking" /\ call'[c].todo = call[c].todo \ {r}
      /\ call'[c].version = call[c].version /\ call'[c].late = call[c].late
  BY <1>1, <1>2, <1>3 DEF IInv, TypeOK, CallState
<1>6. /\ lock' \in [Row -> Call \cup {Free}] /\ lock[r] = Free /\ lock'[r] = c
      /\ \A q \in Row \ {r} : lock'[q] = lock[q]
  BY <1>1, <1>2, <1>4 DEF IInv, TypeOK, Lock
<1>7. \A d \in Call \ {c}, q \in Row : lock[q] = d => lock'[q] = d
  BY <1>6, CallAssumption
<1>8. Sane(c)'
  <2>1. Place(c)' /\ Memory(c)' /\ Leave(c)'
    BY <1>1, <1>3, <1>5 DEF Sane, Place, Memory, Leave, Stored, Gone
  <2>2. call[c].version \in Version
    BY <1>1, <1>3 DEF Sane, Memory
  <2>3. Hold(c)'
    BY <1>1, <1>3, <1>5, <1>6, <2>2, Rows DEF Sane, Hold
  <2>4. QED
    BY <2>1, <2>3 DEF Sane
<1>9. QED
  BY <1>1, <1>3, <1>5, <1>6, <1>7, <1>8, Quiet DEF Stored, IInv, TypeOK

\* Storing an embedding, or not, ends the call and changes no row and no lock.
LEMMA EmbeddingKeeps ==
  ASSUME IInv, NEW c \in Call, Embed(c) \/ SkipEmbedding(c)
  PROVE  IInv'
<1>1. Sane(c) /\ call[c] \in CallState /\ call[c].pc = "embedding"
  BY DEF IInv, TypeOK, Embed, SkipEmbedding
<1>2. /\ UNCHANGED <<card, doc, body, base, lock>>
      /\ call' = [call EXCEPT ![c].pc = "done"]
      /\ embedded' \subseteq embedded \cup {call[c].version}
  BY DEF Embed, SkipEmbedding, Stored
<1>3. /\ call' \in [Call -> CallState] /\ \A d \in Call \ {c} : call'[d] = call[d]
      /\ call'[c].pc = "done" /\ call'[c].todo = call[c].todo
      /\ call'[c].late = call[c].late
  BY <1>1, <1>2 DEF IInv, TypeOK, CallState
<1>4. embedded' \in SUBSET Version /\ c \notin Remover
  BY <1>1, <1>2 DEF Sane, Memory, Place, IInv, TypeOK
<1>5. Sane(c)'
  BY <1>1, <1>2, <1>3, <1>4 DEF Sane, Place, Memory, Hold, Leave, Remover
<1>6. QED
  BY <1>2, <1>3, <1>4, <1>5, Quiet DEF IInv, TypeOK

-----------------------------------------------------------------------------
(* The steps of a removal that commit nothing, and what ends a call early. *)

\* A removal begins with the documents it finds; if the card was revoked by then,
\* what it does not find is gone.
LEMMA RemoveBeginKeeps ==
  ASSUME IInv, NEW c \in Remover, RemoveBegin(c)
  PROVE  IInv'
<1> DEFINE found == {Doc(v) : v \in {u \in Version : DocMatches(c, u)}}
           begun == [call[c] EXCEPT !.pc = "docs", !.todo = found,
                                    !.late = card.status = "revoked"]
           over == [call[c] EXCEPT !.pc = "done"]
<1>1. c \in Call /\ Sane(c) /\ call[c] \in CallState /\ c \notin Merger
                 /\ c \notin Publisher
  BY Kinds DEF Call, IInv, TypeOK
<1>2. /\ call[c].pc = "idle" /\ UNCHANGED Stored /\ UNCHANGED lock
      /\ \/ call' = [call EXCEPT ![c] = begun]
         \/ call' = [call EXCEPT ![c] = over]
  BY DEF RemoveBegin, IInv, TypeOK
<1>3. call[c].late = FALSE /\ call[c].todo = {} /\ call[c].wrote = {}
  BY <1>1, <1>2 DEF Sane, Memory, CallState
<1>4. found \subseteq Row
  BY Rows
<1>5. over \in CallState /\ begun \in CallState
  <2> HIDE DEF found
  <2>1. QED
    BY <1>1, <1>4 DEF CallState
<1>6. /\ call' \in [Call -> CallState] /\ \A d \in Call \ {c} : call'[d] = call[d]
      /\ call'[c] \in {begun, over}
  <2> HIDE DEF begun, over
  <2>1. QED
    BY <1>1, <1>2, <1>5 DEF IInv, TypeOK
<1>7. /\ call'[c].pc \in {"docs", "done"} /\ call'[c].wrote = {}
      /\ call'[c].pc = "done" => call'[c].todo = {} /\ call'[c].late = FALSE
      /\ call'[c].pc = "docs" => call'[c].todo = found
      /\ call'[c].late => card.status = "revoked"
  <2> HIDE DEF found
  <2>1. QED
    BY <1>1, <1>3, <1>6 DEF CallState
<1>8. Sane(c)'
  <2>1. Card \notin found
    BY Rows
  <2>2. c \in Purger => \A v \in Version : doc[v] \in Gone \/ Doc(v) \in found
    BY DEF DocMatches, Gone
  <2> HIDE DEF found
  <2>3. Place(c)' /\ Memory(c)' /\ Hold(c)'
    BY <1>1, <1>7, <2>1 DEF Place, Memory, Hold
  <2>4. Leave(c)'
    BY <1>2, <1>7, <2>2 DEF Leave, Stored, Gone
  <2>5. QED
    BY <2>3, <2>4 DEF Sane
<1>9. QED
  BY <1>1, <1>2, <1>6, <1>7, <1>8, Quiet DEF Stored, IInv, TypeOK

\* A removal locks a row that still matches, and skips one that does not.
LEMMA RemoveRowKeeps ==
  ASSUME IInv, NEW c \in Call, RemoveRow(c)
  PROVE  IInv'
<1>1. /\ Sane(c) /\ call[c] \in CallState /\ call[c].pc \in {"docs", "bodies"}
      /\ UNCHANGED Stored
  BY DEF IInv, TypeOK, RemoveRow
<1>2. c \in Remover /\ c \notin Merger /\ c \notin Publisher
  BY <1>1, Kinds DEF Sane, Place, Call
<1>3. PICK r \in call[c].todo :
        /\ lock[r] = Free
        /\ lock' = IF Matches(c, r) THEN [lock EXCEPT ![r] = c] ELSE lock
        /\ call' = [call EXCEPT ![c].todo = @ \ {r},
             ![c].wrote = IF Matches(c, r) THEN @ \cup {r} ELSE @]
  BY DEF RemoveRow
<1>4. r \in Row /\ r # Card
  BY <1>1, <1>3 DEF CallState, Sane, Memory
<1>5. Matches(c, r) \in BOOLEAN
  BY DEF Matches, DocMatches, BodyMatches
<1>6. /\ call' \in [Call -> CallState] /\ \A d \in Call \ {c} : call'[d] = call[d]
      /\ call'[c].pc = call[c].pc /\ call'[c].late = call[c].late
      /\ call'[c].todo = call[c].todo \ {r}
      /\ call'[c].wrote = IF Matches(c, r) THEN call[c].wrote \cup {r}
                                           ELSE call[c].wrote
  BY <1>1, <1>3, <1>4 DEF IInv, TypeOK, CallState
<1>7. /\ lock' \in [Row -> Call \cup {Free}]
      /\ Matches(c, r) => lock'[r] = c
      /\ \A q \in Row \ {r} : lock'[q] = lock[q]
  BY <1>3, <1>4 DEF IInv, TypeOK
<1>8. \A d \in Call \ {c}, q \in Row : lock[q] = d => lock'[q] = d
  BY <1>3, <1>7, CallAssumption
<1>9. Sane(c)'
  <2>1. Place(c)' /\ Memory(c)'
    BY <1>1, <1>6 DEF Sane, Place, Memory
  <2>2. Hold(c)'
    <3>1. \A q : Matches(c, q)' = Matches(c, q)
      BY <1>1 DEF Stored, Matches, DocMatches, BodyMatches
    <3>2. \A q \in call[c].wrote : q # Card /\ lock[q] = c /\ Matches(c, q)
      BY <1>1 DEF Sane, Hold
    <3>3. call[c].wrote \subseteq Row /\ Free # c
      BY <1>1, CallAssumption DEF CallState
    <3>4. ASSUME NEW q \in call'[c].wrote
          PROVE  q # Card /\ lock'[q] = c /\ Matches(c, q)
      BY <1>3, <1>4, <1>6, <1>7, <3>2, <3>3
    <3>5. QED
      BY <1>1, <1>6, <3>1, <3>4 DEF Hold
  <2>3. Leave(c)'
    <3>1. c \in Purger => \A v \in Version :
            /\ r = Doc(v) => doc[v] \in Gone \/ Matches(c, r)
            /\ r = Body(v) => body[v] \in Gone \/ Matches(c, r)
      BY MatchesRow DEF DocMatches, BodyMatches, Gone
    <3>2. call[c].pc = "bodies" => \A v \in Version : r # Doc(v)
      BY <1>1, <1>3 DEF Sane, Memory
    <3>3. \A q : q \in call[c].todo \cup call[c].wrote =>
                   q \in call'[c].todo \cup call'[c].wrote \/ q = r
      BY <1>6
    <3>4. \A q : q \in call[c].wrote => q \in call'[c].wrote
      BY <1>6
    <3>5. Matches(c, r) => r \in call'[c].wrote
      BY <1>6
    <3>6. Leave(c) /\ UNCHANGED <<card, doc, body>>
      BY <1>1 DEF Sane, Stored
    <3>7. ASSUME c \in Purger, call[c].late, NEW v \in Version
          PROVE  /\ call[c].pc = "docs" => doc[v] \in Gone
                       \/ Doc(v) \in call'[c].todo \cup call'[c].wrote
                 /\ call[c].pc = "bodies" =>
                      /\ doc[v] \in Gone \/ Doc(v) \in call'[c].wrote
                      /\ body[v] \in Gone
                           \/ Body(v) \in call'[c].todo \cup call'[c].wrote
      <4>1. CASE call[c].pc = "docs"
        BY <3>1, <3>3, <3>5, <3>6, <3>7, <4>1 DEF Leave
      <4>2. CASE call[c].pc = "bodies"
        <5>1. doc[v] \in Gone \/ Doc(v) \in call'[c].wrote
          BY <3>4, <3>6, <3>7, <4>2 DEF Leave
        <5>2. body[v] \in Gone \/ Body(v) \in call'[c].todo \cup call'[c].wrote
          BY <3>1, <3>3, <3>5, <3>6, <3>7, <4>2 DEF Leave
        <5>3. QED
          BY <4>2, <5>1, <5>2
      <4>3. QED
        BY <1>1, <4>1, <4>2
    <3>8. QED
      BY <1>1, <1>6, <3>6, <3>7 DEF Leave, Gone
  <2>4. QED
    BY <2>1, <2>2, <2>3 DEF Sane
<1>10. QED
  BY <1>1, <1>6, <1>7, <1>8, <1>9, Quiet DEF Stored, IInv, TypeOK

\* The second statement of a removal looks for bodies when the documents are done.
LEMMA RemoveBodiesKeeps ==
  ASSUME IInv, NEW c \in Call, RemoveBodies(c)
  PROVE  IInv'
<1> DEFINE found == {Body(v) : v \in {u \in Version : BodyMatches(c, u)}}
<1>1. /\ Sane(c) /\ call[c] \in CallState /\ call[c].pc = "docs"
      /\ call[c].todo = {} /\ UNCHANGED Stored /\ UNCHANGED lock
      /\ call' = [call EXCEPT ![c].pc = "bodies", ![c].todo = found]
  BY DEF IInv, TypeOK, RemoveBodies
<1>2. found \subseteq Row /\ Card \notin found /\ \A v : Doc(v) \notin found
  BY Rows
<1>3. \A v \in Version : body[v] \in Gone \/ Body(v) \in found
  BY DEF BodyMatches, Gone
<1> HIDE DEF found
<1>4. /\ call' \in [Call -> CallState] /\ \A d \in Call \ {c} : call'[d] = call[d]
      /\ call'[c].pc = "bodies" /\ call'[c].late = call[c].late
      /\ call'[c].todo = found /\ call'[c].wrote = call[c].wrote
  <2> DEFINE x == [call[c] EXCEPT !.pc = "bodies", !.todo = found]
  <2>1. call \in [Call -> CallState]
    BY DEF IInv, TypeOK
  <2>2. x \in CallState
    BY <1>1, <1>2 DEF CallState
  <2>3. call' = [call EXCEPT ![c] = x]
    BY <1>1, <2>1 DEF CallState
  <2> HIDE DEF x
  <2>4. /\ call' \in [Call -> CallState] /\ call'[c] = x
        /\ \A d \in Call \ {c} : call'[d] = call[d]
    BY <2>1, <2>2, <2>3
  <2>5. QED
    BY <1>1, <2>4 DEF x, CallState
<1>5. Sane(c)'
  <2>1. Place(c)' /\ Memory(c)'
    BY <1>1, <1>2, <1>4 DEF Sane, Place, Memory
  <2>2. Hold(c)'
    <3>1. \A q : Matches(c, q)' = Matches(c, q)
      BY <1>1 DEF Stored, Matches, DocMatches, BodyMatches
    <3>2. QED
      BY <1>1, <1>4, <3>1 DEF Sane, Hold
  <2>3. Leave(c)'
    BY <1>1, <1>3, <1>4 DEF Sane, Leave, Gone, Stored
  <2>4. QED
    BY <2>1, <2>2, <2>3 DEF Sane
<1>6. QED
  BY <1>1, <1>4, <1>5, Quiet DEF Stored, IInv, TypeOK

\* A removal that found nothing, a call that lost its connection, and one that
\* was aborted.
LEMMA EndingKeeps ==
  ASSUME IInv, NEW c \in Call,
         \/ c \in Merger /\ MergeNothing(c)
         \/ RemoveNothing(c)
         \/ AbortDeadlock(c)
         \/ Disconnect(c)
  PROVE  IInv'
<1>1. Sane(c) /\ call[c] \in CallState
  BY DEF IInv, TypeOK
<1>2. CASE c \in Merger /\ MergeNothing(c)
  <2>1. call[c].pc = "locking" /\ c \notin Purger
    BY <1>2, Kinds DEF MergeNothing, MergeReady, Remover
  <2>2. QED
    BY <1>2, <2>1, EndKeeps DEF MergeNothing
<1>3. CASE RemoveNothing(c)
  <2>1. c \in Purger /\ call[c].late =>
          \A v \in Version : doc[v] \in Gone /\ body[v] \in Gone
    BY <1>1, <1>3 DEF RemoveNothing, Sane, Leave
  <2>2. QED
    BY <1>3, <2>1, EndKeeps DEF RemoveNothing
<1>4. CASE AbortDeadlock(c)
  <2>1. Wanted(c) # {}
    BY <1>4 DEF AbortDeadlock, Deadlocked, Waiting
  <2>2. call[c].pc \in {"locking", "docs", "bodies"}
    BY <1>1, <2>1 DEF Sane, Memory, Wanted, NeedsCard
  <2>3. QED
    BY <1>4, <2>2, EndKeeps DEF AbortDeadlock
<1>5. CASE Disconnect(c)
  BY <1>5, EndKeeps DEF Disconnect
<1>6. QED
  BY <1>2, <1>3, <1>4, <1>5

-----------------------------------------------------------------------------
(* The steps that commit. *)

\* The finite count of mergers that are past committing.
LEMMA PastCount ==
  ASSUME TypeOK
  PROVE  IsFiniteSet(Past) /\ Cardinality(Past) \in Nat
<1>1. Past \subseteq Merger
  BY DEF Past
<1>2. QED
  BY <1>1, Kinds, FS_Subset, FS_CardinalityType

\* The publisher makes version 1 of a card that is not there.
LEMMA PublishKeeps ==
  ASSUME IInv, NEW c \in Publisher, Publish(c)
  PROVE  IInv'
<1>1. /\ c \in Call /\ Sane(c) /\ call[c] \in CallState /\ call[c].pc = "idle"
      /\ c \notin Remover /\ c \notin Merger /\ 1 \in Version
  BY Kinds DEF Call, IInv, TypeOK, Publish, Version
<1>2. /\ card.current = 0 /\ card.status = "absent"
      /\ \A v \in Version : doc[v] = "absent" /\ body[v] = "absent" /\ base[v] = 0
  BY <1>1, Kinds DEF IInv, Versions, Version
<1>3. /\ card' = [status |-> "approved_private", current |-> 1]
      /\ doc' = [doc EXCEPT ![1] = "captured"]
      /\ body' = [body EXCEPT ![1] = "captured"]
      /\ UNCHANGED <<embedded, base, lock>>
  BY DEF Publish
<1>4. /\ call' \in [Call -> CallState] /\ \A d \in Call \ {c} : call'[d] = call[d]
      /\ call'[c].pc = "embedding" /\ call'[c].version = 1
      /\ call'[c].todo = call[c].todo /\ call'[c].late = call[c].late
  <2> DEFINE x == [call[c] EXCEPT !.pc = "embedding", !.version = 1]
  <2>1. call \in [Call -> CallState]
    BY DEF IInv, TypeOK
  <2>2. x \in CallState
    BY <1>1 DEF CallState
  <2>3. call' = [call EXCEPT ![c] = x]
    BY <1>1, <2>1 DEF CallState, Publish
  <2> HIDE DEF x
  <2>4. /\ call' \in [Call -> CallState] /\ call'[c] = x
        /\ \A d \in Call \ {c} : call'[d] = call[d]
    BY <1>1, <2>1, <2>2, <2>3
  <2>5. QED
    BY <1>1, <2>4 DEF x, CallState
<1>5. TypeOK'
  BY <1>1, <1>3, <1>4 DEF IInv, TypeOK, Lifecycle
<1>6. ASSUME NEW d \in Call PROVE Sane(d)'
  <2>1. CASE d = c
    BY <1>1, <1>4, <2>1 DEF Sane, Place, Memory, Hold, Leave
  <2>2. CASE d # c
    <3>1. Sane(d) /\ call'[d] = call[d] /\ call[d] \in CallState
      BY <1>4, <2>2 DEF IInv, TypeOK
    <3>2. ~ call[d].late
      BY <1>2, <3>1 DEF Sane, Leave
    <3>3. call[d].pc \in {"docs", "bodies"} => call[d].wrote = {}
      <4>1. ASSUME call[d].pc \in {"docs", "bodies"}, NEW r \in call[d].wrote
            PROVE  FALSE
        <5>1. r \in Row /\ r # Card /\ Matches(d, r)
          BY <3>1, <4>1 DEF Sane, Hold, CallState
        <5>2. PICK v \in Version : r = Doc(v) \/ r = Body(v)
          BY <5>1, Rows
        <5>3. QED
          BY <1>2, <5>1, <5>2, MatchesRow DEF DocMatches, BodyMatches
      <4>2. QED
        BY <4>1
    <3>4. QED
      BY <1>3, <3>1, <3>2, <3>3 DEF Sane, Place, Memory, Hold, Leave
  <2>3. QED
    BY <2>1, <2>2
<1>7. Versions'
  <2>1. Cardinality(Past') \in Nat
    <3>1. Past' \subseteq Merger
      BY DEF Past
    <3>2. QED
      BY <3>1, Kinds, FS_Subset, FS_CardinalityType
  <2>2. ~ \E d \in Publisher : call'[d].pc = "idle"
    BY <1>4, Kinds
  <2>3. \A v \in Version : /\ doc'[v] = "absent" <=> v > 1
                           /\ body'[v] = "absent" <=> v > 1
                           /\ v > 1 => base'[v] = 0
    BY <1>2, <1>3, Kinds DEF IInv, TypeOK, Version
  <2>4. QED
    BY <1>3, <2>1, <2>2, <2>3 DEF Versions
<1>8. Current'
  BY <1>1, <1>2, <1>3 DEF Current, IInv, TypeOK
<1>9. NoLostUpdate'
  <2>1. base'[1] = 0 /\ \A v \in 1 .. card'.current : v = 1
    BY <1>1, <1>2, <1>3
  <2>2. QED
    BY <2>1 DEF NoLostUpdate
<1>10. QED
  BY <1>5, <1>6, <1>7, <1>8, <1>9 DEF IInv

\* A merge commits with every lock it needs: its version is the next one, nobody
\* else has it, and the merger is counted among the past ones.
LEMMA MergeCommitKeeps ==
  ASSUME IInv, NEW c \in Merger, MergeCommit(c)
  PROVE  IInv'
<1> DEFINE v == call[c].version
           new == card.current + 1
<1>1. /\ c \in Call /\ Sane(c) /\ call[c] \in CallState /\ c \notin Remover
      /\ call[c].pc = "locking" /\ call[c].todo = {} /\ Eligible(v)
  BY Kinds DEF Call, IInv, TypeOK, MergeCommit, MergeReady
<1>2. /\ v = card.current /\ v \in Version /\ new \in Version
      /\ card.status = "approved_private" /\ new # v
      /\ Cardinality({u \in Version : body[u] # "absent"}) = card.current
  <2>1. v = card.current /\ card.status = "approved_private"
    BY <1>1 DEF Eligible
  <2>2. /\ card.current \in Version /\ new \in Version
        /\ Cardinality({u \in Version : body[u] # "absent"}) = card.current
    BY <1>1, <2>1, NextVersion DEF IInv
  <2>3. new # card.current
    BY <2>2, Kinds DEF Version
  <2>4. QED
    BY <2>1, <2>2, <2>3
<1>3. /\ card' = [card EXCEPT !.current = new]
      /\ doc' = [doc EXCEPT ![v] = "revoked", ![new] = "captured"]
      /\ body' = [body EXCEPT ![new] = "captured"]
      /\ base' = [base EXCEPT ![new] = v]
      /\ lock' = [r \in Row |-> IF lock[r] = c THEN Free ELSE lock[r]]
      /\ call' = [call EXCEPT ![c].pc = "embedding", ![c].version = new]
      /\ UNCHANGED embedded
  BY <1>2 DEF MergeCommit, Superseded
<1>4. doc[new] = "absent" /\ body[new] = "absent"
  <2>1. new > card.current
    BY <1>2, Kinds DEF Version
  <2>2. QED
    BY <1>2, <2>1 DEF IInv, Versions
<1> HIDE DEF v, new
<1>5. /\ call' \in [Call -> CallState] /\ \A d \in Call \ {c} : call'[d] = call[d]
      /\ call'[c].pc = "embedding" /\ call'[c].version = new
      /\ call'[c].todo = call[c].todo /\ call'[c].late = call[c].late
  <2> DEFINE x == [call[c] EXCEPT !.pc = "embedding", !.version = new]
  <2>1. call \in [Call -> CallState]
    BY DEF IInv, TypeOK
  <2>2. x \in CallState
    BY <1>1, <1>2 DEF CallState
  <2>3. call' = [call EXCEPT ![c] = x]
    BY <1>1, <1>3, <2>1 DEF CallState
  <2> HIDE DEF x
  <2>4. /\ call' \in [Call -> CallState] /\ call'[c] = x
        /\ \A d \in Call \ {c} : call'[d] = call[d]
    BY <1>1, <2>1, <2>2, <2>3
  <2>5. QED
    BY <1>1, <2>4 DEF x, CallState
<1>6. TypeOK'
  BY <1>1, <1>2, <1>3, <1>5 DEF IInv, TypeOK, Lifecycle
<1>7. card'.current = new /\ card'.status = "approved_private"
  BY <1>2, <1>3 DEF IInv, TypeOK
<1>8. /\ doc'[v] = "revoked" /\ doc'[new] = "captured" /\ body'[new] = "captured"
      /\ base'[new] = v
      /\ \A u \in Version \ {v, new} : doc'[u] = doc[u]
      /\ \A u \in Version \ {new} : body'[u] = body[u] /\ base'[u] = base[u]
  BY <1>2, <1>3 DEF IInv, TypeOK
<1>9. ASSUME NEW d \in Call PROVE Sane(d)'
  <2>1. CASE d = c
    BY <1>1, <1>2, <1>5, <2>1 DEF Sane, Place, Memory, Hold, Leave
  <2>2. CASE d # c
    <3>1. Sane(d) /\ call'[d] = call[d] /\ call[d] \in CallState
      BY <1>5, <2>2 DEF IInv, TypeOK
    <3>2. ~ call[d].late
      BY <1>2, <3>1 DEF Sane, Leave
    <3>3. \A r \in Row : lock[r] = d => lock'[r] = d
      BY <1>3, <2>2
    <3>4. lock[Doc(v)] = c
      BY <1>1 DEF Sane, Hold, v
    <3>5. ASSUME call[d].pc \in {"docs", "bodies"}, NEW r \in call[d].wrote
          PROVE  r # Card /\ lock'[r] = d /\ Matches(d, r)'
      <4>1. r \in Row /\ r # Card /\ lock[r] = d /\ Matches(d, r)
        BY <3>1, <3>5 DEF Sane, Hold, CallState
      <4>2. PICK u \in Version : r = Doc(u) \/ r = Body(u)
        BY <4>1, Rows
      <4>3. CASE r = Doc(u)
        <5>1. u # v /\ u # new
          BY <1>4, <2>2, <3>4, <4>1, <4>3, MatchesRow DEF DocMatches
        <5>2. DocMatches(d, u)' = DocMatches(d, u)
          BY <1>8, <5>1 DEF DocMatches
        <5>3. QED
          BY <3>3, <4>1, <4>3, <5>2, MatchesRow DEF Matches, Doc
      <4>4. CASE r = Body(u)
        <5>1. u # new
          BY <1>4, <4>1, <4>4, MatchesRow DEF BodyMatches
        <5>2. BodyMatches(d, u)' = BodyMatches(d, u)
          BY <1>8, <5>1 DEF BodyMatches
        <5>3. QED
          BY <3>3, <4>1, <4>4, <5>2, MatchesRow DEF Matches, Body
      <4>5. QED
        BY <4>2, <4>3, <4>4
    <3>6. Hold(d)'
      <4>1. call[d].pc = "locking" =>
              LET w == call[d].version
              IN \A r \in {Card, Body(w), Doc(w)} : r \in call[d].todo \/ lock'[r] = d
        BY <3>1, <3>3, Rows DEF Sane, Hold, Memory
      <4>2. QED
        BY <3>1, <3>5, <4>1 DEF Hold
    <3>7. Place(d)' /\ Memory(d)' /\ Leave(d)'
      BY <3>1, <3>2 DEF Sane, Place, Memory, Leave
    <3>8. QED
      BY <3>6, <3>7 DEF Sane
  <2>3. QED
    BY <2>1, <2>2
<1>10. Versions'
  <2>1. Cardinality(Past') = Cardinality(Past) + 1 /\ Cardinality(Past) \in Nat
    <3>1. Past' = Past \cup {c} /\ c \notin Past
      BY <1>1, <1>5 DEF Past, Call
    <3>2. QED
      BY <3>1, PastCount, FS_AddElement DEF IInv
  <2>2. (\E d \in Publisher : call'[d].pc = "idle") => card.current = 0
    BY <1>5 DEF IInv, Versions, Call
  <2>3. new # 0 /\ card.current # 0 /\ new \in Int /\ card.current \in Int
        /\ new = card.current + 1 /\ v = card.current
    BY <1>2, Kinds DEF new, Version
  <2>4. ASSUME NEW u \in Version
        PROVE  /\ doc'[u] = "absent" <=> u > new
               /\ body'[u] = "absent" <=> u > new
               /\ u > new => base'[u] = 0
    <3>1. /\ doc[u] = "absent" <=> u > card.current
          /\ body[u] = "absent" <=> u > card.current
          /\ u > card.current => base[u] = 0
      BY DEF IInv, Versions
    <3>2. u \in Int
      BY Kinds DEF Version
    <3>3. QED
      BY <1>8, <2>3, <3>1, <3>2
  <2>5. card.current <= 1 + Cardinality(Past)
    BY DEF IInv, Versions
  <2>6. QED
    BY <1>7, <2>1, <2>2, <2>3, <2>4, <2>5 DEF Versions
<1>11. Current'
  <2>1. \A u \in Version : doc[u] = "captured" <=> u = v
    BY <1>2 DEF IInv, Current
  <2>2. QED
    BY <1>2, <1>7, <1>8, <2>1 DEF Current
<1>12. NoLostUpdate'
  <2>1. /\ \A u \in 1 .. card.current : base[u] = u - 1 /\ u \in Version
        /\ new = card.current + 1 /\ v = card.current /\ card.current \in Int
    <3>1. PICK n \in Nat : n = Cardinality(Merger)
      BY Kinds
    <3>2. card.current \in 1 .. (1 + n)
      BY <1>2, <3>1 DEF Version
    <3>3. \A u \in 1 .. card.current : u \in Version
      BY <3>1, <3>2 DEF Version
    <3>4. QED
      BY <1>2, <3>2, <3>3 DEF IInv, NoLostUpdate, new
  <2>2. ASSUME NEW u \in 1 .. new PROVE base'[u] = u - 1
    BY <1>8, <2>1
  <2>3. QED
    BY <1>7, <2>2 DEF NoLostUpdate
<1>13. QED
  BY <1>6, <1>9, <1>10, <1>11, <1>12 DEF IInv

\* A removal commits what it wrote, all of it on rows that it still holds.
LEMMA RemoveCommitKeeps ==
  ASSUME IInv, NEW c \in Call, RemoveCommit(c)
  PROVE  IInv'
<1> DEFINE wrote == call[c].wrote
           gone == Removed(c)
<1>1. /\ Sane(c) /\ call[c] \in CallState /\ call[c].pc = "bodies"
      /\ call[c].todo = {} /\ wrote # {} /\ wrote \subseteq Row
      /\ gone \in {"revoked", "purged"}
  BY DEF IInv, TypeOK, CallState, RemoveCommit, NeedsCard, Removed
<1>2. c \in Remover /\ c \notin Merger /\ c \notin Publisher
  BY <1>1, Kinds DEF Sane, Place, Call
<1>3. /\ card' = [card EXCEPT !.status = "revoked"]
      /\ doc' = [v \in Version |-> IF Doc(v) \in wrote THEN gone ELSE doc[v]]
      /\ body' = [v \in Version |-> IF Body(v) \in wrote THEN gone ELSE body[v]]
      /\ End(c, "done")
      /\ UNCHANGED <<embedded, base>>
  BY DEF RemoveCommit
<1>4. \A r \in wrote : r # Card /\ lock[r] = c /\ Matches(c, r)
  BY <1>1 DEF Sane, Hold
<1>5. \A v \in Version : /\ Doc(v) \in wrote => doc[v] \notin Gone
                         /\ Body(v) \in wrote => body[v] \notin Gone
  BY <1>4, MatchesRow DEF DocMatches, BodyMatches, Gone
<1> HIDE DEF wrote, gone
<1>6. /\ call' \in [Call -> CallState] /\ \A d \in Call \ {c} : call'[d] = call[d]
      /\ call'[c].pc = "done" /\ call'[c].late = call[c].late
      /\ call'[c].todo = {}
  <2> DEFINE x == [call[c] EXCEPT !.pc = "done", !.todo = {}]
  <2>1. call \in [Call -> CallState]
    BY DEF IInv, TypeOK
  <2>2. x \in CallState
    BY <1>1 DEF CallState
  <2>3. call' = [call EXCEPT ![c] = x]
    BY <1>1, <1>3, <2>1 DEF CallState, End
  <2> HIDE DEF x
  <2>4. /\ call' \in [Call -> CallState] /\ call'[c] = x
        /\ \A d \in Call \ {c} : call'[d] = call[d]
    BY <1>1, <2>1, <2>2, <2>3
  <2>5. QED
    BY <1>1, <2>4 DEF x, CallState
<1>7. lock' \in [Row -> Call \cup {Free}]
      /\ \A d \in Call \ {c}, r \in Row : lock[r] = d => lock'[r] = d
  BY <1>3 DEF End, IInv, TypeOK
<1>8. card'.status = "revoked" /\ card'.current = card.current
  BY <1>3 DEF IInv, TypeOK
<1>9. TypeOK'
  BY <1>1, <1>3, <1>6, <1>7 DEF IInv, TypeOK, Lifecycle
<1>10. ASSUME NEW d \in Call PROVE Sane(d)'
  <2>1. CASE d = c
    <3>1. call[c].late /\ c \in Purger => \A v \in Version :
            doc'[v] \in Gone /\ body'[v] \in Gone
      <4>1. ASSUME call[c].late, c \in Purger, NEW v \in Version
            PROVE  doc'[v] \in Gone /\ body'[v] \in Gone
        <5>1. /\ doc[v] \in Gone \/ Doc(v) \in wrote
              /\ body[v] \in Gone \/ Body(v) \in wrote
          BY <1>1, <4>1 DEF Sane, Leave, wrote
        <5>2. gone = "purged"
          BY <4>1 DEF gone, Removed
        <5>3. QED
          BY <1>3, <5>1, <5>2 DEF Gone
      <4>2. QED
        BY <4>1
    <3>2. QED
      BY <1>1, <1>2, <1>6, <1>8, <2>1, <3>1 DEF Sane, Place, Memory, Hold, Leave, Gone
  <2>2. CASE d # c
    <3>1. Sane(d) /\ call'[d] = call[d] /\ call[d] \in CallState
      BY <1>6, <2>2 DEF IInv, TypeOK
    <3>2. \A r \in Row : lock[r] = d => lock'[r] = d
      BY <1>7, <2>2
    <3>3. ASSUME call[d].pc \in {"docs", "bodies"}, NEW r \in call[d].wrote
          PROVE  r # Card /\ lock'[r] = d /\ Matches(d, r)'
      <4>1. r \in Row /\ r # Card /\ lock[r] = d /\ Matches(d, r)
        BY <3>1, <3>3 DEF Sane, Hold, CallState
      <4>2. r \notin wrote
        BY <1>4, <2>2, <4>1
      <4>3. PICK u \in Version : r = Doc(u) \/ r = Body(u)
        BY <4>1, Rows
      <4>4. CASE r = Doc(u)
        <5>1. DocMatches(d, u)' = DocMatches(d, u)
          BY <1>3, <4>2, <4>4 DEF DocMatches
        <5>2. QED
          BY <3>2, <4>1, <4>4, <5>1, MatchesRow DEF Matches, Doc
      <4>5. CASE r = Body(u)
        <5>1. BodyMatches(d, u)' = BodyMatches(d, u)
          BY <1>3, <4>2, <4>5 DEF BodyMatches
        <5>2. QED
          BY <3>2, <4>1, <4>5, <5>1, MatchesRow DEF Matches, Body
      <4>6. QED
        BY <4>3, <4>4, <4>5
    <3>4. Hold(d)'
      <4>1. call[d].pc = "locking" =>
              LET w == call[d].version
              IN \A r \in {Card, Body(w), Doc(w)} : r \in call[d].todo \/ lock'[r] = d
        BY <3>1, <3>2, Rows DEF Sane, Hold, Memory
      <4>2. QED
        BY <3>1, <3>3, <4>1 DEF Hold
    <3>5. \A v \in Version : /\ doc[v] \in Gone => doc'[v] = doc[v]
                             /\ body[v] \in Gone => body'[v] = body[v]
      BY <1>3, <1>5
    <3>6. Leave(d)'
      BY <1>8, <3>1, <3>5 DEF Sane, Leave, Gone
    <3>7. Place(d)' /\ Memory(d)'
      BY <3>1 DEF Sane, Place, Memory
    <3>8. QED
      BY <3>4, <3>6, <3>7 DEF Sane
  <2>3. QED
    BY <2>1, <2>2
<1>11. Versions'
  <2>1. card.current # 0
    <3>1. PICK r \in wrote : r \in Row /\ r # Card
      BY <1>1, <1>4 DEF wrote
    <3>2. PICK v \in Version : doc[v] # "absent" \/ body[v] # "absent"
      BY <1>5, <3>1, Rows DEF Gone
    <3>3. QED
      BY <3>2, Kinds DEF IInv, Versions, Version
  <2>2. Past' = Past
    BY <1>2, <1>6 DEF Past, Call
  <2>3. (\E d \in Publisher : call'[d].pc = "idle") => card.current = 0
    BY <1>6 DEF IInv, Versions, Call
  <2>4. \A v \in Version : /\ doc'[v] = "absent" <=> doc[v] = "absent"
                           /\ body'[v] = "absent" <=> body[v] = "absent"
    BY <1>1, <1>3, <1>5 DEF Gone
  <2>5. QED
    BY <1>3, <1>8, <2>1, <2>2, <2>3, <2>4 DEF IInv, Versions
<1>12. Current' /\ NoLostUpdate'
  BY <1>3, <1>8 DEF IInv, Current, NoLostUpdate
<1>13. QED
  BY <1>9, <1>10, <1>11, <1>12 DEF IInv

-----------------------------------------------------------------------------
(* The inductive invariant, and the theorems. *)

\* No card and idle calls satisfy the invariant.
LEMMA InitIInv == Init => IInv
<1> SUFFICES ASSUME Init PROVE IInv
  OBVIOUS
<1>1. TypeOK
  BY DEF Init, TypeOK, Lifecycle, CallState
<1>2. \A c \in Call : Sane(c)
  BY DEF Init, Sane, Place, Memory, Hold, Leave
<1>3. Versions
  <2>1. Cardinality(Past) \in Nat
    BY <1>1, PastCount
  <2>2. \A v \in Version : v > 0
    BY Kinds DEF Version
  <2>3. QED
    BY <2>1, <2>2 DEF Init, Versions
<1>4. Current /\ NoLostUpdate
  BY DEF Init, Current, NoLostUpdate
<1>5. QED
  BY <1>1, <1>2, <1>3, <1>4 DEF IInv

\* The invariant is inductive.
LEMMA NextIInv == IInv /\ [Next]_vars => IInv'
<1> SUFFICES ASSUME IInv, [Next]_vars PROVE IInv'
  OBVIOUS
<1>1. CASE UNCHANGED vars
  BY <1>1 DEF vars, IInv, TypeOK, Sane, Place, Memory, Hold, Leave, Gone, Versions,
              Past, Current, NoLostUpdate, Matches, DocMatches, BodyMatches
<1>2. ASSUME NEW c \in Call, Proceed(c) \/ Disconnect(c) PROVE IInv'
  BY <1>2, PublishKeeps, MergeBeginKeeps, MergeLockKeeps, MergeCommitKeeps,
     EmbeddingKeeps, RemoveBeginKeeps, RemoveRowKeeps, RemoveBodiesKeeps,
     EndingKeeps, RemoveCommitKeeps DEF Proceed
<1>3. QED
  BY <1>1, <1>2 DEF Next

\* In every reachable state the invariant holds.
LEMMA Invariance == Spec => []IInv
BY InitIInv, NextIInv, PTL DEF Spec

\* The variables have their types, and no call meets a row, a version or a
\* step that is not its own.
THEOREM TypeCorrect == Spec => []TypeOK
<1>1. IInv => TypeOK
  BY DEF IInv
<1>2. QED
  BY <1>1, Invariance, PTL

\* Whatever merges and removals run side by side, a card that has not been
\* removed is served by the text search, in its current version alone
\* (merge_update locks and checks the row again, migration 0018).
THEOREM Found == Spec => []AlwaysFound
<1>1. IInv => AlwaysFound
  <2> SUFFICES ASSUME IInv, card.status = "approved_private"
               PROVE  TextServed = {card.current}
    BY DEF AlwaysFound
  <2>1. card.current \in Version
    BY DEF IInv, TypeOK, Versions
  <2>2. QED
    BY <2>1 DEF IInv, Current, TextServed
<1>2. QED
  BY <1>1, Invariance, PTL

\* The vector search, which does not look at the card's current version, serves
\* nothing the text search would not: superseded documents are revoked in the
\* transaction that moves the current version.
THEOREM Searches == Spec => []SearchesAgree
<1>1. IInv => SearchesAgree
  BY DEF IInv, Current, SearchesAgree, VectorServed, TextServed
<1>2. QED
  BY <1>1, Invariance, PTL

\* However many merges run, each committed version supersedes the one that was
\* current just before it.
THEOREM Merges == Spec => []NoLostUpdate
<1>1. IInv => NoLostUpdate
  BY DEF IInv
<1>2. QED
  BY <1>1, Invariance, PTL

\* A purge that began after a removal had taken effect leaves no document and
\* no body, though the first one may have raced with a merge
\* (knudg_closed_private_purge, migration 0016).
THEOREM SecondPurge == Spec => []SecondPurgeCompletes
<1>1. IInv => SecondPurgeCompletes
  <2> SUFFICES ASSUME IInv, NEW c \in Purger, call[c].pc = "done", call[c].late,
                      NEW v \in Version
               PROVE  {doc[v], body[v]} \subseteq {"absent", "purged"}
    BY DEF SecondPurgeCompletes
  <2>1. c \in Call
    BY DEF Call, Remover
  <2>2. QED
    BY <2>1 DEF IInv, Sane, Leave, Gone
<1>2. QED
  BY <1>1, Invariance, PTL

-----------------------------------------------------------------------------
(* What EveryCallEnds rests on: the calls advance, and while one has not     *)
(* ended one of them can go on.  Weak fairness of the calls does the rest.   *)

\* Call c may go on: the guards of Proceed(c), action by action.  Each of these
\* actions sets every variable outright, so that its guard is all it takes.
CanProceed(c) ==
  \/ call[c].pc = "idle"
  \/ call[c].pc = "embedding"
  \/ MergeReady(c)
  \/ call[c].pc = "locking" /\ \E r \in Wanted(c) : lock[r] = Free
  \/ call[c].pc \in {"docs", "bodies"} /\ \E r \in call[c].todo : lock[r] = Free
  \/ call[c].pc = "docs" /\ call[c].todo = {}
  \/ call[c].pc = "bodies" /\ call[c].todo = {} /\ call[c].wrote = {}
  \/ NeedsCard(c) /\ lock[Card] = Free
  \/ Deadlocked(c)

\* How far a call is.
Stage == [pc \in {"idle", "locking", "docs", "bodies", "embedding", "done", "aborted"} |->
  CASE pc = "idle" -> 0
    [] pc \in {"locking", "docs"} -> 1
    [] pc = "bodies" -> 2
    [] pc = "embedding" -> 3
    [] OTHER -> 4]

\* Call c comes to a later stage, or has fewer rows left to lock in this one.
Advances(c) ==
  \/ Stage[call[c].pc] < Stage[call'[c].pc]
  \/ /\ call'[c].pc = call[c].pc
     /\ call'[c].todo \subseteq call[c].todo /\ call'[c].todo # call[c].todo

\* Every step is one call's, brings that call on, and sets no other back.
EveryStepAdvances ==
  \E c \in Call : Advances(c) /\ \A d \in Call \ {c} : call'[d] = call[d]

\* What a call that begins becomes.
LEMMA Begun ==
  ASSUME IInv, NEW c \in Call
  PROVE  /\ MergeBegin(c) =>
              /\ call[c].pc = "idle" /\ call'[c].pc \in {"locking", "done"}
              /\ lock' = lock
         /\ RemoveBegin(c) =>
              /\ call[c].pc = "idle" /\ lock' = lock
              /\ \/ call'[c].pc = "done" /\ card.status = "absent"
                 \/ /\ call'[c].pc = "docs" /\ call'[c].wrote = {}
                    /\ call'[c].todo = {Doc(v) : v \in {u \in Version : DocMatches(c, u)}}
<1>1. call \in [Call -> CallState] /\ call[c] \in CallState /\ Memory(c)
  BY DEF IInv, TypeOK, Sane
<1>2. ASSUME MergeBegin(c)
      PROVE  /\ call[c].pc = "idle" /\ call'[c].pc \in {"locking", "done"}
             /\ lock' = lock
  <2> DEFINE over == [call[c] EXCEPT !.pc = "done"]
             begun == [call[c] EXCEPT !.pc = "locking", !.version = card.current,
                         !.todo = {Card, Body(card.current), Doc(card.current)}]
  <2>1. call' = [call EXCEPT ![c] = over] \/ call' = [call EXCEPT ![c] = begun]
    BY <1>1, <1>2 DEF MergeBegin
  <2>2. over.pc = "done" /\ begun.pc = "locking"
    BY <1>1 DEF CallState
  <2> HIDE DEF over, begun
  <2>3. QED
    BY <1>1, <1>2, <2>1, <2>2 DEF MergeBegin
<1>3. ASSUME RemoveBegin(c)
      PROVE  /\ call[c].pc = "idle" /\ lock' = lock
             /\ \/ call'[c].pc = "done" /\ card.status = "absent"
                \/ /\ call'[c].pc = "docs" /\ call'[c].wrote = {}
                   /\ call'[c].todo = {Doc(v) : v \in {u \in Version : DocMatches(c, u)}}
  <2> DEFINE found == {Doc(v) : v \in {u \in Version : DocMatches(c, u)}}
             over == [call[c] EXCEPT !.pc = "done"]
             begun == [call[c] EXCEPT !.pc = "docs", !.todo = found,
                                      !.late = card.status = "revoked"]
  <2>1. \/ card.status = "absent" /\ call' = [call EXCEPT ![c] = over]
        \/ call' = [call EXCEPT ![c] = begun]
    BY <1>1, <1>3 DEF RemoveBegin
  <2> HIDE DEF found
  <2>2. /\ over.pc = "done" /\ begun.pc = "docs" /\ begun.todo = found
        /\ begun.wrote = call[c].wrote
    BY <1>1 DEF CallState
  <2> HIDE DEF over, begun
  <2>3. call[c].pc = "idle" /\ lock' = lock
    BY <1>3 DEF RemoveBegin
  <2>4. QED
    BY <1>1, <2>1, <2>2, <2>3 DEF Memory, found
<1>4. QED
  BY <1>2, <1>3

\* What a step makes of the calls.
LEMMA StepOfOneCall ==
  ASSUME IInv, NEW c \in Call, Proceed(c) \/ Disconnect(c)
  PROVE  Advances(c) /\ \A d \in Call \ {c} : call'[d] = call[d]
<1>1. call \in [Call -> CallState]
  BY DEF IInv, TypeOK
<1>2. \A d \in Call \ {c} : call'[d] = call[d]
  BY <1>1 DEF Proceed, Disconnect, Publish, MergeBegin, MergeLock, MergeNothing,
     MergeCommit, Embed, SkipEmbedding, RemoveBegin, RemoveRow, RemoveBodies,
     RemoveNothing, RemoveCommit, AbortDeadlock, End
<1>3. call[c] \in CallState /\ Place(c) /\ Memory(c)
  BY <1>1 DEF IInv, Sane
<1>4. \A x, y \in CallState :
        \/ x.pc = "idle" /\ y.pc # "idle"
        \/ x.pc = "docs" /\ y.pc = "bodies"
        \/ x.pc = "locking" /\ y.pc = "embedding"
        \/ x.pc \notin {"done", "aborted"} /\ y.pc \in {"done", "aborted"}
        => Stage[x.pc] < Stage[y.pc]
  BY DEF Stage, CallState
<1>5. call'[c] \in CallState
  <2>1. [Next]_vars
    BY DEF Next
  <2>2. IInv'
    BY <2>1, NextIInv
  <2>3. QED
    BY <2>2 DEF IInv, TypeOK
<1>6. Advances(c)
  <2>1. CASE Publish(c) \/ (c \in Merger /\ MergeBegin(c)) \/ RemoveBegin(c)
    <3>1. call[c].pc = "idle" /\ call'[c].pc # "idle"
      <4>1. CASE Publish(c)
        BY <1>1, <1>3, <4>1 DEF Publish, CallState
      <4>2. CASE MergeBegin(c) \/ RemoveBegin(c)
        BY <4>2, Begun
      <4>3. QED
        BY <2>1, <4>1, <4>2
    <3>2. QED
      BY <1>3, <1>4, <1>5, <3>1 DEF Advances
  <2>2. CASE MergeLock(c) \/ RemoveRow(c)
    <3>1. PICK r : /\ r \in call[c].todo /\ call'[c].pc = call[c].pc
                   /\ call'[c].todo = call[c].todo \ {r}
      <4>1. CASE MergeLock(c)
        <5>1. Wanted(c) \subseteq call[c].todo
          BY <4>1 DEF MergeLock, Wanted, NeedsCard
        <5>2. QED
          BY <1>1, <1>3, <4>1, <5>1 DEF MergeLock, CallState
      <4>2. CASE RemoveRow(c)
        BY <1>1, <1>3, <4>2 DEF RemoveRow, CallState
      <4>3. QED
        BY <2>2, <4>1, <4>2
    <3>2. QED
      BY <3>1 DEF Advances
  <2>3. CASE MergeCommit(c)
    <3>1. call[c].pc = "locking" /\ call'[c].pc = "embedding"
      BY <1>1, <1>3, <2>3 DEF MergeCommit, MergeReady, CallState
    <3>2. QED
      BY <1>3, <1>4, <1>5, <3>1 DEF Advances
  <2>4. CASE RemoveBodies(c)
    <3>1. call[c].pc = "docs" /\ call'[c].pc = "bodies"
      BY <1>1, <1>3, <2>4 DEF RemoveBodies, CallState
    <3>2. QED
      BY <1>3, <1>4, <1>5, <3>1 DEF Advances
  <2>5. CASE \/ MergeNothing(c) \/ Embed(c) \/ SkipEmbedding(c) \/ RemoveNothing(c)
             \/ RemoveCommit(c) \/ AbortDeadlock(c) \/ Disconnect(c)
    <3>1. call[c].pc \notin {"done", "aborted"}
      <4>1. CASE AbortDeadlock(c)
        <5>1. call[c].todo # {} \/ call[c].pc = "bodies"
          BY <4>1 DEF AbortDeadlock, Deadlocked, Waiting, Wanted, NeedsCard
        <5>2. QED
          BY <1>3, <5>1 DEF Memory
      <4>2. CASE ~ AbortDeadlock(c)
        BY <2>5, <4>2 DEF MergeNothing, MergeReady, Embed, SkipEmbedding,
           RemoveNothing, RemoveCommit, NeedsCard, Disconnect
      <4>3. QED
        BY <4>1, <4>2
    <3>2. call'[c].pc \in {"done", "aborted"}
      BY <1>1, <1>3, <2>5 DEF MergeNothing, Embed, SkipEmbedding, RemoveNothing,
         RemoveCommit, AbortDeadlock, Disconnect, End, CallState
    <3>3. QED
      BY <1>3, <1>4, <1>5, <3>1, <3>2 DEF Advances
  <2>6. QED
    BY <2>1, <2>2, <2>3, <2>4, <2>5 DEF Proceed
<1>7. QED
  BY <1>2, <1>6

\* A call makes finitely many steps: each brings it to a later stage of its
\* transaction or leaves it fewer rows to lock, and no step of another call,
\* a deadlock's abort included, sets it back.
THEOREM CallsAdvance == Spec => [][EveryStepAdvances]_vars
<1>1. IInv /\ [Next]_vars => [EveryStepAdvances]_vars
  BY StepOfOneCall DEF Next, EveryStepAdvances
<1>2. QED
  BY <1>1, Invariance, PTL DEF Spec

\* Whom a call waits for.
Holders(c) == {lock[r] : r \in Wanted(c)}

\* A row is held by a call in the middle of its transaction that does not want
\* it any more, a removal having written it.
Keys(c) ==
  \A r \in Row : lock[r] = c =>
    /\ call[c].pc \in {"locking", "docs", "bodies"}
    /\ r \notin call[c].todo
    /\ c \in Remover => r \in call[c].wrote

\* A removal does not touch the bodies before its second statement.
Order(c) ==
  call[c].pc = "docs" => \A v \in Version : Body(v) \notin call[c].todo \cup call[c].wrote

Locks == \A c \in Call : Keys(c) /\ Order(c)

\* The locks of the calls that do not step.
LEMMA OthersLocks ==
  ASSUME IInv, Locks, NEW c \in Call, NEW d \in Call \ {c}, call'[d] = call[d],
         \A r \in Row : lock'[r] = d => lock[r] = d
  PROVE  Keys(d)' /\ Order(d)'
BY DEF Locks, Keys, Order

\* Whoever ends holds nothing.
LEMMA EndUnlocks ==
  ASSUME IInv, NEW c \in Call, NEW outcome, End(c, outcome), outcome # "docs"
  PROVE  /\ \A r \in Row : lock'[r] # c
         /\ call'[c].pc = outcome
         /\ \A d \in Call \ {c}, r \in Row : lock'[r] = d => lock[r] = d
BY Kinds, CallAssumption DEF End, IInv, TypeOK, CallState

\* A step keeps the locks in order.
LEMMA LocksStep ==
  ASSUME IInv, Locks, NEW c \in Call, Proceed(c) \/ Disconnect(c)
  PROVE  Locks'
<1>1. /\ call \in [Call -> CallState] /\ lock \in [Row -> Call \cup {Free}]
      /\ call[c] \in CallState /\ Place(c) /\ Memory(c) /\ Keys(c) /\ Order(c)
  BY DEF IInv, TypeOK, Sane, Locks
<1>2. \A d \in Call \ {c} : call'[d] = call[d]
  BY StepOfOneCall
<1>3. /\ Keys(c)' /\ Order(c)'
      /\ \A d \in Call \ {c}, r \in Row : lock'[r] = d => lock[r] = d
  <2>1. CASE Publish(c) \/ (c \in Merger /\ MergeBegin(c))
    <3>1. call[c].pc = "idle" /\ call'[c].pc # "docs" /\ lock' = lock
      <4>1. CASE Publish(c)
        BY <1>1, <4>1 DEF Publish, CallState
      <4>2. CASE MergeBegin(c)
        BY <4>2, Begun
      <4>3. QED
        BY <2>1, <4>1, <4>2
    <3>2. QED
      BY <1>1, <3>1 DEF Keys, Order
  <2>2. CASE c \in Remover /\ RemoveBegin(c)
    <3>1. call[c].pc = "idle" /\ lock' = lock /\ Order(c)'
      BY <2>2, Begun, Rows DEF Order
    <3>2. QED
      BY <1>1, <3>1 DEF Keys
  <2>3. CASE MergeLock(c)
    <3>1. PICK r \in Wanted(c) : Lock(c, r) /\ call' = [call EXCEPT ![c].todo = @ \ {r}]
      BY <2>3 DEF MergeLock
    <3>2. /\ call'[c].pc = "locking" /\ call'[c].todo = call[c].todo \ {r}
          /\ lock' = [lock EXCEPT ![r] = c]
      BY <1>1, <2>3, <3>1 DEF MergeLock, Lock, CallState
    <3>3. c \notin Remover
      BY <1>1, <2>3 DEF MergeLock, Place
    <3>4. QED
      BY <1>1, <3>2, <3>3, <2>3 DEF Keys, Order, MergeLock
  <2>4. CASE RemoveRow(c)
    <3>1. PICK r \in call[c].todo :
            /\ lock' = IF Matches(c, r) THEN [lock EXCEPT ![r] = c] ELSE lock
            /\ call' = [call EXCEPT ![c].todo = @ \ {r},
                 ![c].wrote = IF Matches(c, r) THEN @ \cup {r} ELSE @]
            /\ lock[r] = Free
      BY <2>4 DEF RemoveRow
    <3>2. /\ r \in Row /\ call'[c].pc = call[c].pc /\ call[c].pc \in {"docs", "bodies"}
          /\ call'[c].todo = call[c].todo \ {r}
          /\ call'[c].wrote = IF Matches(c, r) THEN call[c].wrote \cup {r}
                                               ELSE call[c].wrote
      BY <1>1, <2>4, <3>1 DEF RemoveRow, CallState
    <3>3. QED
      BY <1>1, <3>1, <3>2, CallAssumption DEF Keys, Order
  <2>5. CASE RemoveBodies(c)
    <3>1. /\ call[c].pc = "docs" /\ call'[c].pc = "bodies" /\ lock' = lock
          /\ call'[c].wrote = call[c].wrote
          /\ \A r \in call'[c].todo : \E v \in Version : r = Body(v)
      BY <1>1, <2>5 DEF RemoveBodies, CallState
    <3>2. c \in Remover
      BY <1>1, <3>1 DEF Place, Call
    <3>3. QED
      BY <1>1, <3>1, <3>2 DEF Keys, Order
  <2>6. CASE MergeCommit(c)
    <3>1. call'[c].pc = "embedding"
      BY <1>1, <2>6 DEF MergeCommit, CallState
    <3>2. \A d \in Call, r \in Row : lock'[r] = d => lock[r] = d /\ d # c
      BY <1>1, <2>6, CallAssumption DEF MergeCommit
    <3>3. QED
      BY <3>1, <3>2 DEF Keys, Order
  <2>7. CASE Embed(c) \/ SkipEmbedding(c)
    <3>1. call[c].pc = "embedding" /\ call'[c].pc = "done" /\ lock' = lock
      BY <1>1, <2>7 DEF Embed, SkipEmbedding, CallState
    <3>2. QED
      BY <1>1, <3>1 DEF Keys, Order
  <2>8. CASE \/ MergeNothing(c) \/ RemoveNothing(c) \/ RemoveCommit(c)
             \/ AbortDeadlock(c) \/ Disconnect(c)
    <3>1. End(c, "done") \/ End(c, "aborted")
      BY <2>8 DEF MergeNothing, RemoveNothing, RemoveCommit, AbortDeadlock, Disconnect
    <3>2. /\ \A r \in Row : lock'[r] # c
          /\ call'[c].pc \in {"done", "aborted"}
          /\ \A d \in Call \ {c}, r \in Row : lock'[r] = d => lock[r] = d
      BY <3>1, EndUnlocks
    <3>3. QED
      BY <3>2 DEF Keys, Order
  <2>9. QED
    BY <2>1, <2>2, <2>3, <2>4, <2>5, <2>6, <2>7, <2>8 DEF Proceed
<1>4. QED
  BY <1>2, <1>3, OthersLocks DEF Locks

\* In every reachable state the locks are in order.
LEMMA LocksInvariance == Spec => []Locks
<1>1. Init => Locks
  BY CallAssumption DEF Init, Locks, Keys, Order
<1>2. IInv /\ Locks /\ [Next]_vars => Locks'
  <2> SUFFICES ASSUME IInv, Locks, [Next]_vars PROVE Locks'
    OBVIOUS
  <2>1. CASE UNCHANGED vars
    BY <2>1 DEF vars, Locks, Keys, Order
  <2>2. CASE Next
    BY <2>2, LocksStep DEF Next
  <2>3. QED
    BY <2>1, <2>2
<1>3. QED
  BY <1>1, <1>2, Invariance, PTL DEF Spec

\* A call that cannot go on waits, for calls that have not ended.
LEMMA StuckWaits ==
  ASSUME IInv, Locks, NEW c \in Call, call[c].pc \notin {"done", "aborted"},
         ~ CanProceed(c)
  PROVE  /\ c \in Waiting /\ Holders(c) # {}
         /\ \A d \in Holders(c) : d \in Call /\ call[d].pc \notin {"done", "aborted"}
<1>1. /\ call[c] \in CallState /\ lock \in [Row -> Call \cup {Free}]
      /\ Place(c) /\ Memory(c) /\ Hold(c) /\ Keys(c)
  BY DEF IInv, TypeOK, Sane, Locks
<1>2. call[c].pc \in {"locking", "docs", "bodies"}
  BY <1>1 DEF CanProceed, CallState
<1>3. /\ Wanted(c) # {} /\ Wanted(c) \subseteq Row
      /\ \A r \in Wanted(c) : lock[r] # Free /\ lock[r] # c
  <2>1. CASE call[c].pc = "locking"
    <3>1. Wanted(c) # {} /\ Wanted(c) \subseteq call[c].todo
      BY <2>1 DEF CanProceed, MergeReady, Wanted, NeedsCard
    <3>2. QED
      BY <1>1, <2>1, <3>1 DEF CanProceed, Keys, CallState
  <2>2. CASE call[c].pc \in {"docs", "bodies"} /\ call[c].todo # {}
    <3>1. Wanted(c) = call[c].todo
      <4>1. c \notin Merger
        BY <1>1, <2>2 DEF Place
      <4>2. QED
        BY <2>2, <4>1 DEF Wanted, NeedsCard
    <3>2. QED
      BY <1>1, <2>2, <3>1 DEF CanProceed, Keys, CallState
  <2>3. CASE call[c].pc \in {"docs", "bodies"} /\ call[c].todo = {}
    <3>1. NeedsCard(c)
      BY <2>3 DEF CanProceed, NeedsCard
    <3>2. lock[Card] # Free
      BY <3>1 DEF CanProceed
    <3>3. lock[Card] # c
      <4>1. c \in Remover /\ Card \notin call[c].wrote
        BY <1>1, <2>3 DEF Place, Hold, Call
      <4>2. QED
        BY <1>1, <4>1, Rows DEF Keys
    <3>4. QED
      BY <3>1, <3>2, <3>3, Rows DEF Wanted
  <2>4. QED
    BY <1>2, <2>1, <2>2, <2>3
<1>4. \A d \in Call, r \in Row : lock[r] = d => call[d].pc \notin {"done", "aborted"}
  BY DEF Locks, Keys
<1>5. \A r \in Wanted(c) : lock[r] \in Call
  BY <1>1, <1>3
<1>6. QED
  BY <1>3, <1>4, <1>5 DEF Waiting, Holders

\* Calls that wait for one another have a cycle among them.
LEMMA Cycle ==
  ASSUME NEW W, IsFiniteSet(W), W # {}, \A d \in W : Holders(d) \cap W # {}
  PROVE  \E cycle \in SUBSET W :
           /\ cycle # {}
           /\ \A d \in cycle : /\ Holders(d) \cap cycle # {}
                               /\ \E e \in cycle : d \in Holders(e)
<1> DEFINE Closed == {s \in SUBSET W : s # {} /\ \A d \in s : Holders(d) \cap s # {}}
<1>1. PICK s \in Closed : \A t \in Closed : ~ (t \subseteq s /\ t # s)
  <2>1. IsWellFoundedOn(StrictSubsetOrdering(W), SUBSET W)
    BY FS_StrictSubsetOrderingWellFounded, FS_FiniteSubsetsOfFinite
  <2>2. Closed \subseteq SUBSET W /\ W \in Closed
    OBVIOUS
  <2>3. \E s \in Closed : \A t \in Closed : ~ (<<t, s>> \in StrictSubsetOrdering(W))
    <3> HIDE DEF Closed
    <3>1. Closed # {}
      BY <2>2
    <3>2. QED
      BY <2>1, <2>2, <3>1, WFMin
  <2>4. \A s, t \in SUBSET W :
          t \subseteq s /\ t # s => <<t, s>> \in StrictSubsetOrdering(W)
    BY DEF StrictSubsetOrdering
  <2> HIDE DEF Closed
  <2>5. QED
    BY <2>2, <2>3, <2>4
<1>2. ASSUME NEW e \in s, \A d \in s : e \notin Holders(d)
      PROVE  FALSE
  <2>1. s \in SUBSET W /\ \A d \in s : Holders(d) \cap s # {}
    OBVIOUS
  <2>2. \A d \in s : Holders(d) \cap (s \ {e}) # {}
    BY <1>2, <2>1
  <2>3. s \ {e} # {}
    BY <1>2, <2>2
  <2>4. s \ {e} \in Closed
    BY <2>1, <2>2, <2>3
  <2>5. QED
    BY <1>1, <1>2, <2>4
<1>3. QED
  BY <1>1, <1>2

\* Some call can go on while one has not ended, deadlock's victims included.
LEMMA SomeCallProceeds ==
  ASSUME IInv, Locks, NEW c \in Call, call[c].pc \notin {"done", "aborted"}
  PROVE  \E d \in Call : CanProceed(d)
<1> SUFFICES ASSUME \A d \in Call : ~ CanProceed(d) PROVE FALSE
  OBVIOUS
<1> DEFINE W == {d \in Call : call[d].pc \notin {"done", "aborted"}}
<1>1. \A d \in W : d \in Waiting /\ Holders(d) # {} /\ Holders(d) \subseteq W
  BY StuckWaits
<1>2. IsFiniteSet(W) /\ W # {} /\ W \subseteq Call
  BY CallAssumption, FS_Subset
<1> HIDE DEF W
<1>3. PICK cycle \in SUBSET W :
        /\ cycle # {}
        /\ \A d \in cycle : /\ Holders(d) \cap cycle # {}
                            /\ \E e \in cycle : d \in Holders(e)
  <2>1. \A d \in W : Holders(d) \cap W # {}
    BY <1>1
  <2>2. QED
    BY <1>2, <2>1, Cycle
<1>4. PICK d \in cycle : d \in Waiting
  BY <1>1, <1>3
<1>5. Deadlocked(d)
  <2>1. cycle \in SUBSET Waiting
    BY <1>1
  <2>2. QED
    BY <1>3, <1>4, <2>1 DEF Deadlocked, Holders
<1>6. QED
  BY <1>2, <1>5 DEF CanProceed

\* The server never comes to a standstill with a call that has not ended:
\* either a call finds a row free, or those that wait are in a cycle that the
\* deadlock detection (Deadlocked) sees, and one of them is its victim.  Merges
\* and removals take their locks in opposite orders, so such cycles do occur.
THEOREM NoStandstill ==
  Spec => []((\E c \in Call : call[c].pc \notin {"done", "aborted"})
               => \E c \in Call : CanProceed(c))
<1>1. IInv /\ Locks => ((\E c \in Call : call[c].pc \notin {"done", "aborted"})
                         => \E c \in Call : CanProceed(c))
  BY SomeCallProceeds
<1>2. QED
  BY <1>1, Invariance, LocksInvariance, PTL

-----------------------------------------------------------------------------
(* What a purge does see to: whatever was there when it began.               *)

\* What purge c has still to do about the first n versions of the card: they
\* are gone, or among the rows it has found or written, or will be found by
\* its next statement.
Clearing(c, n) ==
  /\ n <= card.current
  /\ call[c].pc = "docs" => \A v \in Version : v <= n =>
       doc[v] \in Gone \/ Doc(v) \in call[c].todo \cup call[c].wrote
  /\ call[c].pc = "bodies" => \A v \in Version : v <= n =>
       /\ doc[v] \in Gone \/ Doc(v) \in call[c].wrote
       /\ body[v] \in Gone \/ Body(v) \in call[c].todo \cup call[c].wrote
  /\ call[c].pc = "done" => \A v \in Version : v <= n =>
       doc[v] \in Gone /\ body[v] \in Gone

\* Nothing that is gone comes back, and the versions are never fewer.
LEMMA GoneStays ==
  ASSUME IInv, NEW c \in Call, Proceed(c) \/ Disconnect(c)
  PROVE  /\ card.current <= card'.current
         /\ \A v \in Version : v <= card.current =>
              /\ doc[v] \in Gone => doc'[v] \in Gone
              /\ body[v] \in Gone => body'[v] \in Gone
<1>1. /\ card.current \in Nat /\ call[c] \in CallState
      /\ doc \in [Version -> Lifecycle] /\ body \in [Version -> Lifecycle]
      /\ \A v \in Version : v \in Nat /\ v > 0
  BY Kinds DEF IInv, TypeOK, Version
<1>2. CASE UNCHANGED <<card, doc, body>>
  BY <1>1, <1>2
<1>3. CASE c \in Publisher /\ Publish(c)
  <2>1. card.current = 0 /\ card'.current = 1
    BY <1>3 DEF Publish, IInv, Versions
  <2>2. \A v \in Version : ~ (v <= card.current)
    BY <1>1, <2>1
  <2>3. QED
    BY <2>1, <2>2
<1>4. CASE c \in Merger /\ MergeCommit(c)
  <2> DEFINE v == call[c].version
             new == Cardinality({u \in Version : body[u] # "absent"}) + 1
  <2>1. /\ card.current \in Version /\ new = card.current + 1 /\ v = card.current
        /\ doc[v] = "captured" /\ call[c].pc = "locking"
    <3>1. card.status # "absent" /\ call[c].pc = "locking" /\ Eligible(v)
      BY <1>4 DEF MergeCommit, MergeReady, Eligible
    <3>2. QED
      BY <1>4, <3>1, NextVersion DEF IInv, Eligible
  <2>2. /\ card' = [card EXCEPT !.current = new]
        /\ doc' = [doc EXCEPT ![v] = "revoked", ![new] = "captured"]
        /\ body' = [body EXCEPT ![new] = "captured"]
    BY <1>4 DEF MergeCommit, Superseded
  <2> HIDE DEF v, new
  <2>3. card'.current = new
    BY <2>2 DEF IInv, TypeOK
  <2>4. ASSUME NEW u \in Version, u <= card.current
        PROVE  /\ doc[u] \in Gone => doc'[u] \in Gone
               /\ body[u] \in Gone => body'[u] \in Gone
    <3>1. u # new
      BY <1>1, <2>1, <2>4
    <3>2. u = v => doc[u] \notin Gone
      BY <2>1 DEF Gone
    <3>3. QED
      BY <1>1, <2>2, <3>1, <3>2
  <2>5. QED
    BY <1>1, <2>1, <2>3, <2>4
<1>5. CASE RemoveCommit(c)
  <2>1. \A r \in call[c].wrote : Matches(c, r)
    BY <1>5 DEF RemoveCommit, NeedsCard, IInv, Sane, Hold
  <2>2. \A v \in Version : /\ Doc(v) \in call[c].wrote => doc[v] \notin Gone
                           /\ Body(v) \in call[c].wrote => body[v] \notin Gone
    BY <2>1, MatchesRow DEF DocMatches, BodyMatches, Gone
  <2>3. card'.current = card.current
    BY <1>5 DEF RemoveCommit, IInv, TypeOK
  <2>4. QED
    BY <1>1, <1>5, <2>2, <2>3 DEF RemoveCommit
<1>6. QED
  BY <1>2, <1>3, <1>4, <1>5 DEF Proceed, Disconnect, Stored, MergeBegin, MergeLock,
     MergeNothing, Embed, SkipEmbedding, RemoveBegin, RemoveRow, RemoveBodies,
     RemoveNothing, AbortDeadlock

\* A purge that has begun with n versions goes on with them.
LEMMA ClearingStep ==
  ASSUME IInv, NEW c \in Purger, NEW n \in Nat, Clearing(c, n),
         NEW d \in Call, Proceed(d) \/ Disconnect(d)
  PROVE  Clearing(c, n)'
<1>1. /\ c \in Call /\ c \in Remover /\ c \notin Merger /\ c \notin Publisher
      /\ call \in [Call -> CallState] /\ call[c] \in CallState
      /\ Place(c) /\ Memory(c) /\ Hold(c)
  BY Kinds DEF Call, Remover, IInv, TypeOK, Sane
<1>2. n <= card'.current
  <2>1. card.current \in Nat /\ card'.current \in Nat
    <3>1. TypeOK /\ TypeOK'
      BY NextIInv DEF IInv, Next
    <3>2. QED
      BY <3>1, Kinds DEF TypeOK, Version
  <2>2. QED
    BY <2>1, GoneStays DEF Clearing
<1>3. ASSUME NEW v \in Version, v <= n
      PROVE  /\ doc[v] \in Gone => doc'[v] \in Gone
             /\ body[v] \in Gone => body'[v] \in Gone
  <2>1. v <= card.current
    BY <1>3, Kinds DEF Clearing, IInv, TypeOK, Version
  <2>2. QED
    BY <2>1, GoneStays
<1>4. CASE d # c
  <2>1. call'[c] = call[c]
    BY <1>1, <1>4, StepOfOneCall
  <2>2. QED
    BY <1>2, <1>3, <2>1 DEF Clearing
<1>5. CASE d = c /\ RemoveBegin(c)
  <2>1. \/ call'[c].pc = "done" /\ card.status = "absent"
        \/ /\ call'[c].pc = "docs"
           /\ call'[c].todo = {Doc(v) : v \in {u \in Version : DocMatches(c, u)}}
    BY <1>1, <1>5, Begun
  <2>2. UNCHANGED <<card, doc, body>>
    BY <1>5 DEF RemoveBegin, Stored
  <2>3. card.status = "absent" => \A v \in Version : ~ (v <= n)
    BY Kinds DEF Clearing, IInv, Versions, Version
  <2>4. QED
    BY <1>1, <1>2, <2>1, <2>2, <2>3 DEF Clearing, DocMatches, Gone
<1>6. CASE d = c /\ RemoveRow(c)
  <2>1. PICK r \in call[c].todo :
          call' = [call EXCEPT ![c].todo = @ \ {r},
                     ![c].wrote = IF Matches(c, r) THEN @ \cup {r} ELSE @]
    BY <1>6 DEF RemoveRow
  <2>2. /\ call'[c].pc = call[c].pc /\ call[c].pc \in {"docs", "bodies"}
        /\ call'[c].todo = call[c].todo \ {r}
        /\ call'[c].wrote = IF Matches(c, r) THEN call[c].wrote \cup {r}
                                             ELSE call[c].wrote
    BY <1>1, <1>6, <2>1 DEF RemoveRow, CallState
  <2>3. UNCHANGED <<card, doc, body>>
    BY <1>6 DEF RemoveRow, Stored
  <2>4. \A v \in Version : /\ r = Doc(v) => doc[v] \in Gone \/ Matches(c, r)
                           /\ r = Body(v) => body[v] \in Gone \/ Matches(c, r)
    BY MatchesRow DEF DocMatches, BodyMatches, Gone
  <2>5. call[c].pc = "bodies" => \A v \in Version : r # Doc(v)
    BY <1>1, <2>1 DEF Memory
  <2>6. CASE call[c].pc = "docs"
    BY <1>2, <2>2, <2>3, <2>4, <2>6 DEF Clearing
  <2>7. CASE call[c].pc = "bodies"
    BY <1>2, <2>2, <2>3, <2>4, <2>5, <2>7 DEF Clearing
  <2>8. QED
    BY <2>2, <2>6, <2>7
<1>7. CASE d = c /\ RemoveBodies(c)
  <2>1. /\ call[c].pc = "docs" /\ call[c].todo = {} /\ call'[c].pc = "bodies"
        /\ call'[c].wrote = call[c].wrote /\ UNCHANGED <<card, doc, body>>
        /\ call'[c].todo = {Body(v) : v \in {u \in Version : BodyMatches(c, u)}}
    BY <1>1, <1>7 DEF RemoveBodies, CallState, Stored
  <2>2. QED
    BY <1>2, <2>1 DEF Clearing, BodyMatches, Gone
<1>8. CASE d = c /\ RemoveNothing(c)
  <2>1. /\ call[c].pc = "bodies" /\ call[c].todo = {} /\ call[c].wrote = {}
        /\ call'[c].pc = "done" /\ UNCHANGED <<card, doc, body>>
    BY <1>1, <1>8 DEF RemoveNothing, End, CallState, Stored
  <2>2. QED
    BY <1>2, <2>1 DEF Clearing
<1>9. CASE d = c /\ RemoveCommit(c)
  <2>1. /\ call[c].pc = "bodies" /\ call[c].todo = {} /\ call'[c].pc = "done"
        /\ doc' = [v \in Version |-> IF Doc(v) \in call[c].wrote THEN "purged" ELSE doc[v]]
        /\ body' = [v \in Version |-> IF Body(v) \in call[c].wrote THEN "purged" ELSE body[v]]
    BY <1>1, <1>9 DEF RemoveCommit, NeedsCard, End, Removed, CallState
  <2>2. QED
    BY <1>2, <2>1 DEF Clearing, Gone
<1>10. CASE d = c /\ (AbortDeadlock(c) \/ Disconnect(c))
  <2>1. call'[c].pc = "aborted"
    BY <1>1, <1>10 DEF AbortDeadlock, Disconnect, End, CallState
  <2>2. QED
    BY <1>2, <2>1 DEF Clearing
<1>11. CASE d = c /\ (Embed(c) \/ SkipEmbedding(c))
  BY <1>1, <1>11 DEF Embed, SkipEmbedding, Place
<1>12. QED
  BY <1>1, <1>4, <1>5, <1>6, <1>7, <1>8, <1>9, <1>10, <1>11 DEF Proceed

\* Whatever runs beside it, a purge that ends without an error leaves nothing
\* of the versions that were committed before it began: what it can miss is a
\* version that a merge commits while it runs, and no other
\* (knudg_closed_private_purge, migration 0016; compare PurgeIsComplete, which
\* the code does not keep).
THEOREM PurgesWhatWasThere ==
  ASSUME NEW c \in Purger, NEW n \in Nat
  PROVE  Spec => [](call[c].pc = "idle" /\ n <= card.current =>
                     [](call[c].pc = "done" => \A v \in Version : v <= n =>
                          doc[v] \in Gone /\ body[v] \in Gone))
<1>1. call[c].pc = "idle" /\ n <= card.current => Clearing(c, n)
  BY DEF Clearing
<1>2. IInv /\ Clearing(c, n) /\ [Next]_vars => Clearing(c, n)'
  <2> SUFFICES ASSUME IInv, Clearing(c, n), [Next]_vars PROVE Clearing(c, n)'
    OBVIOUS
  <2>1. CASE UNCHANGED vars
    BY <2>1 DEF vars, Clearing
  <2>2. CASE Next
    BY <2>2, ClearingStep DEF Next
  <2>3. QED
    BY <2>1, <2>2
<1>3. Clearing(c, n) => (call[c].pc = "done" => \A v \in Version : v <= n =>
                           doc[v] \in Gone /\ body[v] \in Gone)
  BY DEF Clearing
<1>4. QED
  BY <1>1, <1>2, <1>3, Invariance, PTL DEF Spec
=============================================================================
