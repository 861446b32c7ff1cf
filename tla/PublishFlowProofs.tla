-------------------------- MODULE PublishFlowProofs --------------------------
(***************************************************************************)
(* Theorems about PublishFlow, for any number of clients, cards, versions  *)
(* and texts.                                                              *)
(***************************************************************************)
EXTENDS PublishFlow, SequenceTheorems, TLAPS

-----------------------------------------------------------------------------
(* The inductive invariant. *)

\* A card that the search would put to whoever publishes this text, and that
\* nobody has decided about.
Rival(j, text) ==
  /\ Served(j) /\ cards[j].unasked
  /\ <<text, Current(j).text>> \in Finds

\* What is known of the cards: one that is not withdrawn is served in its
\* current version alone; the cards a request saw were there before its own.
Standing ==
  \A k \in Card :
    /\ cards[k].status = "approved_private" =>
         /\ Current(k).doc = "captured" /\ Current(k).body = "captured"
         /\ \A i \in DOMAIN cards[k].versions :
              i < Len(cards[k].versions) => cards[k].versions[i].doc # "captured"
    /\ cards[k].purged > 0 => cards[k].status = "revoked"
    /\ cards[k].purged <= Len(cards[k].versions)
    /\ cards[k].seen \subseteq Existing

\* What is known of the requests: the browser has no digest to send; a request
\* that is about to write has its user's approval of the text it will store, and
\* if it asked nobody, then none of the cards it saw has become a rival since.
Sane(c) ==
  LET r == client[c]
  IN /\ r.pc = "idle" => r = NoRequest
     /\ r.pc # "idle" => r.via \in Via /\ r.text \in Text
     /\ r.via = "browser" => r.digest = None
     /\ r.decision = "update_existing" => r.target \in Card
     /\ r.decision = None => r.target = None
     /\ r.pc = "looked" => Approved(c)
     /\ r.seen \subseteq Existing
     /\ r.pc = "looked" /\ r.unasked => \A j \in r.seen : ~ Rival(j, Stored(c))

Requests == \A c \in Client : Sane(c)

\* The four properties of the cards need what a request carries over from its
\* search to its insert, and one another's company.
IInv == /\ TypeOK /\ Standing /\ Requests
        /\ StoredAsApproved /\ ApiPurgeIsThorough /\ NoSilentTwin

-----------------------------------------------------------------------------
(* Sequences. *)

\* A function over the indices of a sequence is a sequence of the same length.
LEMMA SameLength ==
  ASSUME NEW S, NEW s \in Seq(S), NEW T, NEW t, t \in [DOMAIN s -> T]
  PROVE  t \in Seq(T) /\ Len(t) = Len(s) /\ DOMAIN t = 1 .. Len(s)
<1>1. Len(s) \in Nat /\ DOMAIN s = 1 .. Len(s)
  BY LenProperties
<1>2. t \in Seq(T)
  BY <1>1, SeqDef
<1>3. Len(t) \in Nat /\ DOMAIN t = 1 .. Len(t)
  BY <1>2, LenProperties
<1>4. 1 .. Len(t) = 1 .. Len(s)
  BY <1>1, <1>3
<1> QED BY <1>1, <1>2, <1>3, <1>4

\* The versions of a row, and the last of them.
LEMMA RowFacts ==
  ASSUME TypeOK, NEW k \in Card
  PROVE  /\ cards[k] \in CardRow /\ cards[k].versions \in Seq(Version)
         /\ Len(cards[k].versions) \in Nat
         /\ DOMAIN cards[k].versions = 1 .. Len(cards[k].versions)
         /\ k \in Existing =>
              /\ Len(cards[k].versions) \in 1 .. Len(cards[k].versions)
              /\ Current(k) = cards[k].versions[Len(cards[k].versions)]
              /\ Current(k) \in Version
         /\ k \notin Existing => cards[k].status = "absent" /\ cards[k].versions = <<>>
<1>1. cards[k] \in CardRow /\ cards[k].versions \in Seq(Version)
  BY DEF TypeOK, CardRow
<1>2. /\ Len(cards[k].versions) \in Nat
      /\ DOMAIN cards[k].versions = 1 .. Len(cards[k].versions)
  BY <1>1, LenProperties
<1>3. (cards[k].versions = <<>>) <=> (cards[k].status = "absent")
  BY DEF TypeOK
<1>4. ASSUME k \in Existing
      PROVE  /\ Len(cards[k].versions) \in 1 .. Len(cards[k].versions)
             /\ Current(k) = cards[k].versions[Len(cards[k].versions)]
             /\ Current(k) \in Version
  <2>1. cards[k].versions # <<>>
    BY <1>3, <1>4 DEF Existing
  <2>2. Len(cards[k].versions) \in Nat \ {0}
    BY <1>1, <2>1, EmptySeq
  <2>3. Len(cards[k].versions) \in 1 .. Len(cards[k].versions)
    BY <2>2
  <2>4. Current(k) = cards[k].versions[Len(cards[k].versions)]
    BY DEF Current, Last
  <2> QED BY <1>1, <2>3, <2>4, ElementOfSeq
<1> QED BY <1>1, <1>2, <1>3, <1>4 DEF Existing

-----------------------------------------------------------------------------
(* The ways in which the cards change. *)

\* A version as a request or a capture writes it.
Fresh(v) == v \in Version /\ v.doc = "captured" /\ v.body = "captured" /\ v.agreed

\* A new card.
Files(k) ==
  /\ k \in Card \ Existing
  /\ \E row \in CardRow, v \in Version :
       /\ cards' = [cards EXCEPT ![k] = row]
       /\ row.status = "approved_private" /\ row.versions = <<v>> /\ Fresh(v)
       /\ row.purged = 0 /\ row.seen \subseteq Existing
       /\ row.unasked => \A j \in row.seen : ~ Rival(j, v.text)

\* A new version of a card that is served.
Merges(k) ==
  /\ k \in Card /\ Served(k)
  /\ \E v \in Version : Fresh(v) /\ cards' = [cards EXCEPT ![k] = Appended(cards[k], v)]

\* A version after a revocation or a purge of its card.
Less(w, v) ==
  /\ w \in Version /\ w.agreed = v.agreed
  /\ w.body = "captured" => v.body = "captured"
  /\ v.doc = "purged" /\ v.body = "purged" => w.doc = "purged" /\ w.body = "purged"

Emptied(v) == v.doc = "purged" /\ v.body = "purged"

\* A revocation or a purge, which empties the versions that it found.
Withdraws(k) ==
  /\ k \in Existing
  /\ \E versions \in Seq(Version), purged \in 0 .. Len(cards[k].versions) :
       /\ cards' = [cards EXCEPT ![k] = [Withdrawn(cards[k], versions) EXCEPT !.purged = purged]]
       /\ Len(versions) = Len(cards[k].versions)
       /\ \A i \in 1 .. Len(versions) : Less(versions[i], cards[k].versions[i])
       /\ \A i \in 1 .. Len(versions) : i <= purged => i <= cards[k].purged \/ Emptied(versions[i])

\* What the three have in common: the rows stay rows, no card goes, and no card
\* becomes one that is served and undecided.
Tame ==
  /\ cards' \in [Card -> CardRow]
  /\ \A k \in Card : (cards'[k].versions = <<>>) <=> (cards'[k].status = "absent")
  /\ Existing \subseteq Existing'
  /\ \A k \in Existing : (Served(k)' /\ cards'[k].unasked) => cards'[k] = cards[k]

\* A card after it is filed.
LEMMA FilesEffect ==
  ASSUME IInv, NEW k \in Card, Files(k)
  PROVE  /\ Tame /\ \A d \in Card \ {k} : cards'[d] = cards[d]
         /\ \E v \in Version :
              /\ cards'[k].status = "approved_private" /\ cards'[k].versions = <<v>>
              /\ Fresh(v) /\ cards'[k].purged = 0 /\ cards'[k].seen \subseteq Existing
              /\ cards'[k].unasked => \A j \in cards'[k].seen : ~ Rival(j, v.text)
<1>1. PICK row \in CardRow, v \in Version :
        /\ cards' = [cards EXCEPT ![k] = row]
        /\ row.status = "approved_private" /\ row.versions = <<v>> /\ Fresh(v)
        /\ row.purged = 0 /\ row.seen \subseteq Existing
        /\ row.unasked => \A j \in row.seen : ~ Rival(j, v.text)
  BY DEF Files
<1>2. cards' \in [Card -> CardRow] /\ cards'[k] = row
      /\ \A d \in Card \ {k} : cards'[d] = cards[d]
  BY <1>1 DEF IInv, TypeOK
<1>3. row.versions # <<>>
  BY <1>1
<1>4. Existing \subseteq Existing' /\ k \notin Existing
  BY <1>1, <1>2 DEF Existing, Files
<1>5. \A d \in Card : (cards'[d].versions = <<>>) <=> (cards'[d].status = "absent")
  BY <1>1, <1>2, <1>3 DEF IInv, TypeOK
<1>6. Tame
  BY <1>2, <1>4, <1>5 DEF Tame, Existing
<1> QED BY <1>1, <1>2, <1>6

\* A card after a merge.
LEMMA MergesEffect ==
  ASSUME IInv, NEW k \in Card, Merges(k)
  PROVE  /\ Tame /\ \A d \in Card \ {k} : cards'[d] = cards[d]
         /\ k \in Existing /\ ~ cards'[k].unasked
         /\ cards'[k].status = "approved_private" /\ cards[k].status = "approved_private"
         /\ cards'[k].purged = 0 /\ cards'[k].seen = {}
         /\ LET n == Len(cards[k].versions)
                vs == cards'[k].versions
            IN /\ n \in Nat \ {0} /\ Len(vs) = n + 1 /\ Fresh(vs[n + 1])
               /\ vs[n].doc = "revoked" /\ vs[n].agreed = cards[k].versions[n].agreed
               /\ \A i \in 1 .. n - 1 : vs[i] = cards[k].versions[i]
<1> DEFINE s == cards[k].versions
           n == Len(s)
<1>1. PICK v \in Version : Fresh(v) /\ cards' = [cards EXCEPT ![k] = Appended(cards[k], v)]
  BY DEF Merges
<1>2. k \in Existing /\ cards[k].status = "approved_private"
  BY DEF Merges, Served, Existing
<1>3. cards[k] \in CardRow /\ s \in Seq(Version) /\ n \in Nat \ {0} /\ n \in 1 .. n
      /\ DOMAIN s = 1 .. n
  BY <1>2, RowFacts DEF IInv
<1> DEFINE old == [s EXCEPT ![n].doc = "revoked"]
           vs == Append(old, v)
<1>4. /\ old \in Seq(Version) /\ Len(old) = n
      /\ old[n].doc = "revoked" /\ old[n].agreed = s[n].agreed
      /\ \A i \in 1 .. n - 1 : old[i] = s[i]
  <2>1. s[n] \in Version
    BY <1>3, ElementOfSeq
  <2>2. [s[n] EXCEPT !.doc = "revoked"] \in Version
    BY <2>1 DEF Version, Kind
  <2>3. /\ [s[n] EXCEPT !.doc = "revoked"].doc = "revoked"
        /\ [s[n] EXCEPT !.doc = "revoked"].agreed = s[n].agreed
    BY <2>1 DEF Version
  <2> DEFINE e == [s[n] EXCEPT !.doc = "revoked"]
  <2>4. old = [s EXCEPT ![n] = e]
    BY <1>3
  <2> HIDE DEF e
  <2>5. /\ old \in Seq(Version) /\ Len(old) = n
        /\ \A i \in 1 .. n : old[i] = IF n = i THEN e ELSE s[i]
    BY <1>3, <2>2, <2>4, ExceptSeq DEF e
  <2> QED BY <1>3, <2>3, <2>5 DEF e
<1> HIDE DEF old
<1>5. /\ vs \in Seq(Version) /\ Len(vs) = n + 1 /\ vs[n + 1] = v
      /\ \A i \in 1 .. n : vs[i] = old[i]
  BY <1>3, <1>4, AppendProperties
<1>6. cards'[k] = Appended(cards[k], v) /\ \A d \in Card \ {k} : cards'[d] = cards[d]
  BY <1>1 DEF IInv, TypeOK
<1> HIDE DEF vs
<1>7. Appended(cards[k], v) = [cards[k] EXCEPT !.versions = vs, !.unasked = FALSE, !.seen = {}]
  BY DEF Appended, vs, old
<1>8. /\ cards'[k] \in CardRow /\ cards'[k].versions = vs /\ ~ cards'[k].unasked
      /\ cards'[k].seen = {} /\ cards'[k].status = cards[k].status
      /\ cards'[k].purged = cards[k].purged
  <2>1. cards'[k] = [status |-> cards[k].status, versions |-> vs, unasked |-> FALSE,
                     seen |-> {}, purged |-> cards[k].purged]
    BY <1>3, <1>6, <1>7 DEF CardRow
  <2>2. FALSE \in BOOLEAN /\ {} \in SUBSET Card
    OBVIOUS
  <2> QED BY <1>3, <1>5, <2>1, <2>2 DEF CardRow
<1>9. cards[k].purged = 0
  <2>1. cards[k].purged \in Nat /\ ~ cards[k].purged > 0
    BY <1>2, <1>3 DEF IInv, Standing, CardRow
  <2> QED BY <2>1
<1>10. vs # <<>>
  BY <1>3, <1>5, EmptySeq
<1>11. Tame
  <2>1. cards' \in [Card -> CardRow]
    BY <1>1, <1>6, <1>8 DEF IInv, TypeOK
  <2>2. \A d \in Card : (cards'[d].versions = <<>>) <=> (cards'[d].status = "absent")
    BY <1>2, <1>6, <1>8, <1>10 DEF IInv, TypeOK
  <2>3. Existing \subseteq Existing'
    BY <1>2, <1>6, <1>8 DEF Existing
  <2> QED BY <1>6, <1>8, <2>1, <2>2, <2>3 DEF Tame, Existing
<1> QED BY <1>1, <1>2, <1>3, <1>4, <1>5, <1>6, <1>8, <1>9, <1>11

\* A card after a revocation or a purge.
LEMMA WithdrawsEffect ==
  ASSUME IInv, NEW k \in Card, Withdraws(k)
  PROVE  /\ Tame /\ \A d \in Card \ {k} : cards'[d] = cards[d]
         /\ k \in Existing /\ cards'[k].status = "revoked"
         /\ cards'[k].seen = {} /\ ~ cards'[k].unasked
         /\ cards'[k].purged <= Len(cards'[k].versions)
         /\ Len(cards'[k].versions) = Len(cards[k].versions)
         /\ DOMAIN cards'[k].versions = DOMAIN cards[k].versions
         /\ \A i \in DOMAIN cards[k].versions :
              Less(cards'[k].versions[i], cards[k].versions[i])
         /\ \A i \in DOMAIN cards[k].versions :
              i <= cards'[k].purged => i <= cards[k].purged \/ Emptied(cards'[k].versions[i])
<1> DEFINE s == cards[k].versions
<1>1. PICK vs \in Seq(Version), purged \in 0 .. Len(s) :
       /\ cards' = [cards EXCEPT ![k] = [Withdrawn(cards[k], vs) EXCEPT !.purged = purged]]
       /\ Len(vs) = Len(s)
       /\ \A i \in 1 .. Len(vs) : Less(vs[i], s[i])
       /\ \A i \in 1 .. Len(vs) : i <= purged => i <= cards[k].purged \/ Emptied(vs[i])
  BY DEF Withdraws
<1>2. k \in Existing
  BY DEF Withdraws
<1>3. /\ cards[k] \in CardRow /\ s \in Seq(Version) /\ Len(s) \in Nat \ {0}
      /\ DOMAIN s = 1 .. Len(s)
  BY <1>2, RowFacts DEF IInv
<1>4. DOMAIN vs = 1 .. Len(vs) /\ vs # <<>>
  BY <1>1, <1>3, LenProperties, EmptySeq
<1>5. /\ cards'[k] = [Withdrawn(cards[k], vs) EXCEPT !.purged = purged]
      /\ \A d \in Card \ {k} : cards'[d] = cards[d]
  BY <1>1 DEF IInv, TypeOK
<1>6. /\ cards'[k] \in CardRow /\ cards'[k].versions = vs /\ cards'[k].status = "revoked"
      /\ cards'[k].purged = purged /\ cards'[k].seen = {} /\ ~ cards'[k].unasked
  <2>1. cards'[k] = [status |-> "revoked", versions |-> vs, unasked |-> FALSE, seen |-> {},
                     purged |-> purged]
    BY <1>3, <1>5 DEF Withdrawn, CardRow
  <2>2. FALSE \in BOOLEAN /\ {} \in SUBSET Card /\ purged \in Nat
    BY <1>1
  <2> QED BY <2>1, <2>2 DEF CardRow
<1>7. Tame
  <2>1. cards' \in [Card -> CardRow]
    BY <1>1, <1>5, <1>6 DEF IInv, TypeOK
  <2>2. \A d \in Card : (cards'[d].versions = <<>>) <=> (cards'[d].status = "absent")
    BY <1>4, <1>5, <1>6 DEF IInv, TypeOK
  <2>3. Existing \subseteq Existing'
    BY <1>5, <1>6 DEF Existing
  <2> QED BY <1>5, <1>6, <2>1, <2>2, <2>3 DEF Tame, Existing, Served
<1> QED BY <1>1, <1>2, <1>3, <1>4, <1>5, <1>6, <1>7

-----------------------------------------------------------------------------
(* The properties of the cards survive each of the three. *)

\* A new card holds the text its user approved and, if nobody was asked, no twin of
\* a rival that its request has seen.
LEMMA FilesKeeps ==
  ASSUME IInv, NEW k \in Card, Files(k)
  PROVE  Standing' /\ StoredAsApproved' /\ ApiPurgeIsThorough' /\ NoSilentTwin'
<1>1. /\ Tame /\ \A d \in Card \ {k} : cards'[d] = cards[d]
  BY FilesEffect
<1>2. PICK v \in Version :
        /\ cards'[k].status = "approved_private" /\ cards'[k].versions = <<v>>
        /\ Fresh(v) /\ cards'[k].purged = 0 /\ cards'[k].seen \subseteq Existing
        /\ cards'[k].unasked => \A j \in cards'[k].seen : ~ Rival(j, v.text)
  BY FilesEffect
<1>3. /\ Len(<<v>>) = 1 /\ DOMAIN <<v>> = {1} /\ <<v>>[1] = v
  OBVIOUS
<1>4. Current(k)' = v
  BY <1>2, <1>3 DEF Current, Last
<1>5. Standing'
  <2>1. \A d \in Card : cards'[d].seen \subseteq Existing'
    BY <1>1, <1>2 DEF IInv, Standing, Tame
  <2>2. \A d \in Card \ {k} : Current(d)' = Current(d)
    BY <1>1 DEF Current
  <2>3. /\ Current(k)'.doc = "captured" /\ Current(k)'.body = "captured"
        /\ \A i \in DOMAIN cards'[k].versions : ~ i < Len(cards'[k].versions)
    BY <1>2, <1>3, <1>4 DEF Fresh
  <2>4. ~ cards'[k].purged > 0 /\ cards'[k].purged <= Len(cards'[k].versions)
    BY <1>2, <1>3
  <2> QED BY <1>1, <1>2, <2>1, <2>2, <2>3, <2>4 DEF IInv, Standing
<1>6. StoredAsApproved' /\ ApiPurgeIsThorough'
  BY <1>1, <1>2, <1>3 DEF IInv, StoredAsApproved, ApiPurgeIsThorough, Fresh
<1>7. NoSilentTwin'
  <2>1. k \notin Existing
    BY DEF Files
  <2>2. \A d \in Card \ {k} : /\ Current(d)' = Current(d) /\ (Served(d)' <=> Served(d))
                             /\ cards'[d] = cards[d]
    BY <1>1 DEF Current, Served
  <2>3. ASSUME NEW j \in Card \ {k}, Served(j)', cards'[j].unasked, cards'[k].unasked,
               <<v.text, Current(j).text>> \in Finds
        PROVE  j \notin cards'[k].seen
    BY <1>2, <2>2, <2>3 DEF Rival
  <2>4. \A j \in Card \ {k} : k \notin cards'[j].seen
    BY <2>1, <2>2 DEF IInv, Standing
  <2> QED BY <1>4, <2>2, <2>3, <2>4 DEF IInv, NoSilentTwin
<1> QED BY <1>5, <1>6, <1>7

\* A merged text is the one its user approved, and the version before it is no
\* longer served.
LEMMA MergesKeeps ==
  ASSUME IInv, NEW k \in Card, Merges(k)
  PROVE  Standing' /\ StoredAsApproved' /\ ApiPurgeIsThorough' /\ NoSilentTwin'
<1> DEFINE n == Len(cards[k].versions)
<1>1. /\ Tame /\ \A d \in Card \ {k} : cards'[d] = cards[d]
      /\ k \in Existing /\ ~ cards'[k].unasked
      /\ cards'[k].status = "approved_private" /\ cards[k].status = "approved_private"
      /\ cards'[k].purged = 0 /\ cards'[k].seen = {}
  BY MergesEffect
<1>2. /\ n \in Nat \ {0} /\ Len(cards'[k].versions) = n + 1 /\ Fresh(cards'[k].versions[n + 1])
      /\ cards'[k].versions[n].doc = "revoked"
      /\ cards'[k].versions[n].agreed = cards[k].versions[n].agreed
      /\ \A i \in 1 .. n - 1 : cards'[k].versions[i] = cards[k].versions[i]
  BY MergesEffect
<1>3. DOMAIN cards[k].versions = 1 .. n /\ DOMAIN cards'[k].versions = 1 .. n + 1
  <2>1. cards'[k].versions \in Seq(Version)
    BY <1>1 DEF Tame, CardRow
  <2> QED BY <1>2, <2>1, RowFacts, LenProperties DEF IInv
<1>4. Current(k)' = cards'[k].versions[n + 1]
  BY <1>2 DEF Current, Last
<1>5. \A d \in Card \ {k} : /\ Current(d)' = Current(d) /\ (Served(d)' <=> Served(d))
                           /\ cards'[d] = cards[d]
  BY <1>1 DEF Current, Served
<1>6. Standing'
  <2>1. \A d \in Card : cards'[d].seen \subseteq Existing'
    BY <1>1 DEF IInv, Standing, Tame
  <2>2. \A i \in 1 .. n : cards'[k].versions[i].doc # "captured"
    <3>1. \A i \in 1 .. n - 1 : cards[k].versions[i].doc # "captured"
      BY <1>1, <1>2, <1>3 DEF IInv, Standing
    <3> HIDE DEF n
    <3>2. \A i \in 1 .. n - 1 : cards'[k].versions[i].doc # "captured"
      BY <1>2, <3>1
    <3>3. \A i \in 1 .. n : i = n \/ i \in 1 .. n - 1
      BY <1>2
    <3> QED BY <1>2, <3>2, <3>3
  <2>3. Current(k)'.doc = "captured" /\ Current(k)'.body = "captured"
    BY <1>2, <1>4 DEF Fresh
  <2> QED BY <1>1, <1>2, <1>3, <1>5, <2>1, <2>2, <2>3 DEF IInv, Standing
<1>7. StoredAsApproved'
  <2>1. \A i \in 1 .. n + 1 : cards'[k].versions[i].agreed
    <3>1. \A i \in 1 .. n : cards[k].versions[i].agreed
      BY <1>3 DEF IInv, StoredAsApproved
    <3> HIDE DEF n
    <3>2. \A i \in 1 .. n + 1 : i = n + 1 \/ i = n \/ i \in 1 .. n - 1
      BY <1>2
    <3>3. n \in 1 .. n /\ \A i \in 1 .. n - 1 : i \in 1 .. n
      BY <1>2
    <3>4. cards'[k].versions[n + 1].agreed /\ cards'[k].versions[n].agreed
      BY <1>2, <3>1, <3>3 DEF Fresh
    <3>5. \A i \in 1 .. n - 1 : cards'[k].versions[i].agreed
      BY <1>2, <3>1, <3>3
    <3> QED BY <3>2, <3>4, <3>5
  <2> QED BY <1>1, <1>3, <2>1 DEF IInv, StoredAsApproved
<1>8. ApiPurgeIsThorough' /\ NoSilentTwin'
  <2>1. \A i \in DOMAIN cards'[k].versions : ~ i <= cards'[k].purged
    <3> HIDE DEF n
    <3> QED BY <1>1, <1>2, <1>3
  <2>2. ApiPurgeIsThorough'
    BY <1>5, <2>1 DEF IInv, ApiPurgeIsThorough
  <2>3. NoSilentTwin'
    BY <1>1, <1>5 DEF IInv, NoSilentTwin
  <2> QED BY <2>2, <2>3
<1> QED BY <1>6, <1>7, <1>8

\* A card that is withdrawn is served nowhere, and nothing of it comes back.
LEMMA WithdrawsKeeps ==
  ASSUME IInv, NEW k \in Card, Withdraws(k)
  PROVE  Standing' /\ StoredAsApproved' /\ ApiPurgeIsThorough' /\ NoSilentTwin'
<1>1. /\ Tame /\ \A d \in Card \ {k} : cards'[d] = cards[d]
      /\ k \in Existing /\ cards'[k].status = "revoked"
      /\ cards'[k].seen = {} /\ ~ cards'[k].unasked
      /\ cards'[k].purged <= Len(cards'[k].versions)
      /\ DOMAIN cards'[k].versions = DOMAIN cards[k].versions
  BY WithdrawsEffect
<1>2. /\ \A i \in DOMAIN cards[k].versions :
           Less(cards'[k].versions[i], cards[k].versions[i])
      /\ \A i \in DOMAIN cards[k].versions :
           i <= cards'[k].purged => i <= cards[k].purged \/ Emptied(cards'[k].versions[i])
  BY WithdrawsEffect
<1>3. \A d \in Card \ {k} : /\ Current(d)' = Current(d) /\ (Served(d)' <=> Served(d))
                           /\ cards'[d] = cards[d]
  BY <1>1 DEF Current, Served
<1>4. Standing'
  BY <1>1, <1>3 DEF IInv, Standing, Tame
<1>5. StoredAsApproved' /\ ApiPurgeIsThorough'
  BY <1>1, <1>2 DEF IInv, StoredAsApproved, ApiPurgeIsThorough, Less, Emptied
<1>6. NoSilentTwin'
  BY <1>1, <1>3 DEF IInv, NoSilentTwin, Served
<1> QED BY <1>4, <1>5, <1>6

-----------------------------------------------------------------------------
(* The requests. *)

\* What a request knows outlives what others do to the cards.
LEMMA SaneKept ==
  ASSUME IInv, Tame, NEW c \in Client, client'[c] = client[c]
  PROVE  Sane(c)'
<1>1. Sane(c)
  BY DEF IInv, Requests
<1>2. \A j \in Existing : \A text : Rival(j, text)' => Rival(j, text)
  BY DEF Tame, Rival, Served, Current
<1>3. Existing \subseteq Existing'
  BY DEF Tame
<1> QED BY <1>1, <1>2, <1>3 DEF Sane, Approved, Stored

\* A step of one request.
LEMMA OneRequest ==
  ASSUME IInv, Tame, NEW c \in Client, NEW r \in Request,
         client' = [client EXCEPT ![c] = r], Sane(c)'
  PROVE  client' \in [Client -> Request] /\ Requests'
<1>1. client' \in [Client -> Request]
  BY DEF IInv, TypeOK
<1>2. \A d \in Client \ {c} : client'[d] = client[d]
  BY DEF IInv, TypeOK
<1> QED BY <1>1, <1>2, SaneKept DEF Requests

\* An answered request is back with its client and has seen no cards.
LEMMA AnswerKeeps ==
  ASSUME IInv, Tame, NEW c \in Client, client[c].pc # "idle",
         NEW answer \in Challenge \cup {"stored", "lost"}, Answer(c, answer)
  PROVE  client' \in [Client -> Request] /\ Requests'
<1> DEFINE r == [client[c] EXCEPT !.pc = "answered", !.answer = answer,
                                  !.unasked = FALSE, !.seen = {}]
<1>1. client[c] \in Request /\ Sane(c)
  BY DEF IInv, TypeOK, Requests
<1>2. r \in Request
  BY <1>1 DEF Request
<1>3. client' = [client EXCEPT ![c] = r]
  BY DEF Answer
<1>4. /\ client'[c] = r /\ r.pc = "answered" /\ r.seen = {} /\ r.via = client[c].via
      /\ r.text = client[c].text /\ r.digest = client[c].digest
      /\ r.decision = client[c].decision /\ r.target = client[c].target
  BY <1>1, <1>3 DEF IInv, TypeOK, Request
<1> HIDE DEF r
<1>5. Sane(c)'
  BY <1>1, <1>4 DEF Sane
<1> QED BY <1>2, <1>3, <1>5, OneRequest

\* A client sends the request again with its user's decision.
LEMMA ResendKeeps ==
  ASSUME IInv, NEW c \in Client, client[c].pc # "idle",
         NEW digest \in Text \cup {None}, NEW decision \in {None, "create_new", "update_existing"},
         NEW target \in Card \cup {None}, Resend(c, digest, decision, target),
         client[c].via = "browser" => digest = None,
         decision = "update_existing" => target \in Card, decision = None => target = None
  PROVE  client' \in [Client -> Request] /\ Requests'
<1> DEFINE r == [NoRequest EXCEPT !.pc = "sent", !.via = client[c].via, !.text = client[c].text,
                                  !.digest = digest, !.decision = decision, !.target = target]
<1>1. client[c] \in Request /\ Sane(c)
  BY DEF IInv, TypeOK, Requests
<1>2. r \in Request
  BY <1>1 DEF Request, NoRequest
<1>3. client' = [client EXCEPT ![c] = r] /\ UNCHANGED cards
  BY DEF Resend
<1>4. /\ client'[c] = r /\ r.pc = "sent" /\ r.seen = {} /\ r.via = client[c].via
      /\ r.text = client[c].text /\ r.digest = digest
      /\ r.decision = decision /\ r.target = target
  BY <1>1, <1>3 DEF IInv, TypeOK, NoRequest
<1> HIDE DEF r
<1>5. Sane(c)'
  BY <1>1, <1>4 DEF Sane
<1>6. Tame
  BY <1>3 DEF Tame, IInv, TypeOK, Existing
<1> QED BY <1>2, <1>3, <1>5, <1>6, OneRequest

\* A new request carries its via and its text, and no decision.
LEMMA PostKeeps ==
  ASSUME IInv, NEW c \in Client, NEW via \in Via, NEW x \in Input, Post(c, via, x)
  PROVE  client' \in [Client -> Request] /\ Requests'
<1> DEFINE text == IF via = "tool" THEN normal[x] ELSE x
           digest == IF via = "tool" THEN normal[x] ELSE None
           r == [NoRequest EXCEPT !.pc = "sent", !.via = via, !.text = text, !.digest = digest]
<1>1. text \in Text /\ digest \in Text \cup {None} /\ (via = "browser" => digest = None)
  BY TextAssumption
<1>2. client' = [client EXCEPT ![c] = r] /\ UNCHANGED cards
  BY DEF Post
<1> HIDE DEF text, digest
<1>3. r \in Request
  BY <1>1 DEF Request, NoRequest
<1>4. /\ client'[c] = r /\ r.pc = "sent" /\ r.seen = {} /\ r.via = via /\ r.text = text
      /\ r.digest = digest /\ r.decision = None /\ r.target = None
  BY <1>2 DEF IInv, TypeOK, NoRequest
<1> HIDE DEF r
<1>5. Sane(c)'
  BY <1>1, <1>4, NoneAssumption DEF Sane
<1>6. Tame
  BY <1>2 DEF Tame, IInv, TypeOK, Existing
<1> QED BY <1>2, <1>3, <1>5, <1>6, OneRequest

\* A client that leaves forgets its request.
LEMMA LeaveKeeps ==
  ASSUME IInv, NEW c \in Client, Leave(c)
  PROVE  client' \in [Client -> Request] /\ Requests'
<1>1. client' = [client EXCEPT ![c] = NoRequest] /\ UNCHANGED cards
  BY DEF Leave
<1>2. NoRequest \in Request
  BY DEF Request, NoRequest
<1>3. client'[c] = NoRequest
  BY <1>1 DEF IInv, TypeOK
<1>4. Sane(c)'
  BY <1>3, NoneAssumption DEF Sane, NoRequest
<1>5. Tame
  BY <1>1 DEF Tame, IInv, TypeOK, Existing
<1> QED BY <1>1, <1>2, <1>4, <1>5, OneRequest

-----------------------------------------------------------------------------
(* The search. *)

\* A request goes on to write only with its text approved, and unasked only when
\* the search found no rival.
LEMMA AfterSearchKeeps ==
  ASSUME IInv, NEW c \in Client, client[c].pc = "sent", NEW found, NEW blind \in BOOLEAN,
         AfterSearch(c, found, blind),
         (~ blind /\ client[c].decision = None /\ found = {}) =>
           \A j \in Existing : ~ Rival(j, Stored(c))
  PROVE  UNCHANGED cards /\ client' \in [Client -> Request] /\ Requests'
<1>1. UNCHANGED cards
  BY DEF AfterSearch
<1>2. Tame
  BY <1>1 DEF Tame, IInv, TypeOK, Existing
<1>3. CASE Answer(c, "approval_required") \/ Answer(c, "merge_required")
  BY <1>1, <1>2, <1>3, AnswerKeeps DEF Challenge
<1> DEFINE asksNobody == ~ blind /\ client[c].decision = None
           seen == IF asksNobody THEN Existing ELSE {}
           r == [client[c] EXCEPT !.pc = "looked", !.unasked = asksNobody, !.seen = seen]
<1>4. CASE Approved(c) /\ ~ Undecided(c, found) /\ client' = [client EXCEPT ![c] = r]
  <2>1. client[c] \in Request /\ Sane(c)
    BY DEF IInv, TypeOK, Requests
  <2>2. asksNobody \in BOOLEAN /\ seen \subseteq Existing /\ Existing \subseteq Card
    BY DEF Existing
  <2>3. asksNobody => found = {} /\ client[c].decision = None /\ ~ blind
    BY <1>4 DEF Undecided
  <2> HIDE DEF asksNobody, seen
  <2>4. r \in Request
    BY <2>1, <2>2 DEF Request
  <2>5. /\ client'[c] = r /\ r.pc = "looked" /\ r.seen = seen /\ r.via = client[c].via
        /\ r.text = client[c].text /\ r.digest = client[c].digest /\ r.unasked = asksNobody
        /\ r.decision = client[c].decision /\ r.target = client[c].target
    BY <1>4, <2>1 DEF IInv, TypeOK, Request
  <2> HIDE DEF r
  <2>6. Existing' = Existing /\ \A j, text : Rival(j, text)' <=> Rival(j, text)
    BY <1>1 DEF Existing, Rival, Served, Current
  <2>7. Stored(c)' = Stored(c) /\ (Approved(c)' <=> Approved(c))
    BY <2>5 DEF Stored, Approved
  <2>8. asksNobody => \A j \in seen : ~ Rival(j, Stored(c))
    BY <2>2, <2>3
  <2>9. Sane(c)'
    BY <1>4, <2>1, <2>2, <2>5, <2>6, <2>7, <2>8 DEF Sane
  <2> QED BY <1>1, <1>2, <1>4, <2>4, <2>9, OneRequest
<1> QED BY <1>3, <1>4 DEF AfterSearch

\* The search finds some card when there is a rival; when it fails, the request
\* counts for no one that asked nobody.
LEMMA LookKeeps ==
  ASSUME IInv, NEW c \in Client, Look(c) \/ LookFails(c)
  PROVE  UNCHANGED cards /\ client' \in [Client -> Request] /\ Requests'
<1>1. CASE Look(c)
  <2>1. PICK found \in Candidates(c) : AfterSearch(c, found, FALSE)
    BY <1>1 DEF Look
  <2>2. ASSUME found = {}, NEW j \in Existing
        PROVE  ~ Rival(j, Stored(c))
    BY <2>1, <2>2 DEF Candidates, Hits, Rival, Existing
  <2> QED BY <1>1, <2>1, <2>2, AfterSearchKeeps DEF Look
<1>2. CASE LookFails(c)
  BY <1>2, AfterSearchKeeps DEF LookFails
<1> QED BY <1>1, <1>2

-----------------------------------------------------------------------------
(* The writers. *)

\* A request that is about to write has the approval of the text it stores.
LEMMA WrittenIsFresh ==
  ASSUME IInv, NEW c \in Client, client[c].pc = "looked"
  PROVE  Stored(c) \in Text /\ Fresh(Written(c)) /\ Written(c).text = Stored(c)
<1>1. Sane(c)
  BY DEF IInv, Requests
<1>2. Stored(c) \in Text
  BY <1>1, TextAssumption DEF Sane, Stored
<1>3. client[c].digest = Stored(c) /\ client[c].via # "browser"
  BY <1>1, <1>2, NoneAssumption DEF Sane, Approved
<1> QED BY <1>2, <1>3 DEF Written, NewVersion, Fresh, Version, Kind

\* There is an id for a new card while not every card exists.
LEMMA NextCardIsNew ==
  ASSUME Existing # Card
  PROVE  NextCard \in Card \ Existing
<1>1. \E k \in Card : k \notin Existing
  BY DEF Existing
<1> QED BY <1>1 DEF NextCard

\* The API's insert files a new card in the next free place.
LEMMA InsertFiles ==
  ASSUME IInv, NEW c \in Client, Insert(c)
  PROVE  NextCard \in Card /\ Files(NextCard)
<1> DEFINE k == NextCard
           v == Written(c)
           seen == client[c].seen
           unasked == client[c].unasked
           row == NewCard(v, unasked, seen)
<1>1. k \in Card \ Existing /\ client[c].pc = "looked"
  BY NextCardIsNew DEF Insert
<1>2. Fresh(v) /\ v.text = Stored(c)
  BY <1>1, WrittenIsFresh
<1>3. cards' = [cards EXCEPT ![k] = row]
  BY DEF Insert
<1>4. seen \subseteq Existing /\ Existing \subseteq Card
  BY DEF IInv, Requests, Sane, Existing
<1>5. unasked => \A j \in seen : ~ Rival(j, v.text)
  BY <1>1, <1>2 DEF IInv, Requests, Sane
<1>6. unasked \in BOOLEAN /\ <<v>> \in Seq(Version)
  <2>1. unasked \in BOOLEAN
    BY DEF IInv, TypeOK, Request
  <2>2. v \in Version
    BY <1>2 DEF Fresh
  <2> QED BY <2>1, <2>2
<1> HIDE DEF v, seen, k, unasked
<1>7. row \in CardRow /\ row.status = "approved_private" /\ row.versions = <<v>>
      /\ row.unasked = unasked /\ row.seen = seen /\ row.purged = 0
  BY <1>4, <1>6 DEF CardRow, NewCard
<1> HIDE DEF row
<1>8. Fresh(v) /\ v \in Version
  BY <1>2 DEF Fresh
<1>9. row.unasked => \A j \in row.seen : ~ Rival(j, v.text)
  BY <1>5, <1>7
<1>10. Files(k)
  BY <1>1, <1>3, <1>4, <1>7, <1>8, <1>9 DEF Files
<1> QED BY <1>1, <1>10 DEF k

\* The local store's capture does too.
LEMMA CaptureFiles ==
  ASSUME IInv, NEW x \in Input, LocalCapture(x)
  PROVE  NextCard \in Card /\ Files(NextCard)
<1> DEFINE k == NextCard
           v == NewVersion(normal[x], TRUE)
           row == NewCard(v, FALSE, {})
<1>1. k \in Card \ Existing /\ cards' = [cards EXCEPT ![k] = row]
  BY NextCardIsNew DEF LocalCapture
<1>2. Fresh(v) /\ v \in Version
  <2>1. normal[x] \in Text
    BY TextAssumption
  <2> QED BY <2>1 DEF NewVersion, Fresh, Version, Kind
<1> HIDE DEF v, k
<1>3. row \in CardRow /\ row.status = "approved_private" /\ row.versions = <<v>>
      /\ row.unasked = FALSE /\ row.seen = {} /\ row.purged = 0
  BY <1>2 DEF CardRow, NewCard
<1> HIDE DEF row
<1>4. Files(k)
  BY <1>1, <1>2, <1>3 DEF Files
<1> QED BY <1>1, <1>4 DEF k

\* An update merges into its target, or leaves the cards alone.
LEMMA UpdateMerges ==
  ASSUME IInv, NEW c \in Client, Update(c)
  PROVE  UNCHANGED cards \/ (client[c].target \in Card /\ Merges(client[c].target))
<1>1. client[c].target \in Card /\ client[c].pc = "looked"
  BY DEF Update, IInv, Requests, Sane
<1>2. Fresh(Written(c)) /\ Written(c) \in Version
  BY <1>1, WrittenIsFresh DEF Fresh
<1> QED BY <1>1, <1>2 DEF Update, Merges, Eligible

\* The rows that the revocations and the local purge write.
LEMMA WithdrawnWithdraws ==
  ASSUME IInv, NEW k \in Existing, NEW vs \in Seq(Version),
         Len(vs) = Len(cards[k].versions),
         \A i \in 1 .. Len(vs) : Less(vs[i], cards[k].versions[i]),
         cards' = [cards EXCEPT ![k] = Withdrawn(cards[k], vs)]
  PROVE  k \in Card /\ Withdraws(k)
<1>1. k \in Card /\ cards[k] \in CardRow
  BY RowFacts DEF IInv, Existing
<1>2. Withdrawn(cards[k], vs) = [Withdrawn(cards[k], vs) EXCEPT !.purged = cards[k].purged]
  BY <1>1 DEF Withdrawn, CardRow
<1>3. cards' = [cards EXCEPT ![k] = [Withdrawn(cards[k], vs) EXCEPT !.purged = cards[k].purged]]
  BY <1>2
<1>4. cards[k].purged \in 0 .. Len(cards[k].versions)
  BY <1>1, RowFacts DEF CardRow, IInv, Standing
<1> QED BY <1>1, <1>3, <1>4 DEF Withdraws

\* Lesser versions in place of the versions of a sequence are a sequence of the
\* same length.
LEMMA EachSeq ==
  ASSUME NEW s \in Seq(Version), NEW t, t = [i \in DOMAIN s |-> t[i]],
         \A i \in DOMAIN s : Less(t[i], s[i])
  PROVE  /\ t \in Seq(Version) /\ Len(t) = Len(s)
         /\ \A i \in 1 .. Len(t) : Less(t[i], s[i])
<1>1. t \in [DOMAIN s -> Version]
  BY DEF Less
<1>2. t \in Seq(Version) /\ Len(t) = Len(s)
  BY <1>1, SameLength
<1>3. DOMAIN s = 1 .. Len(t)
  BY <1>2, LenProperties
<1> QED BY <1>2, <1>3

\* What the two statements of a removal find are versions that there are.
LEMMA FoundFacts ==
  ASSUME IInv, NEW k \in Card, NEW f \in Found(cards[k].versions)
  PROVE  /\ k \in Existing /\ cards[k].versions \in Seq(Version)
         /\ f[1] \in 1 .. Len(cards[k].versions) /\ f[2] \in 1 .. Len(cards[k].versions)
         /\ f[1] <= f[2]
<1>1. f[1] \in 1 .. Len(cards[k].versions) /\ f[2] \in 1 .. Len(cards[k].versions)
      /\ f[1] <= f[2]
  BY RowFacts DEF Found, IInv
<1>2. cards[k].versions # <<>>
  BY <1>1, EmptySeq
<1> QED BY <1>1, <1>2, RowFacts DEF IInv

\* The API's revocation withdraws the card.
LEMMA ApiRevokeWithdraws ==
  ASSUME IInv, NEW k \in Card, ApiRevoke(k)
  PROVE  Withdraws(k)
<1> DEFINE s == cards[k].versions
<1>1. PICK f \in Found(s) :
        cards' = [cards EXCEPT ![k] = Withdrawn(cards[k], RevokeAll(s, f[1], f[2]))]
  BY DEF ApiRevoke
<1> DEFINE t == RevokeAll(s, f[1], f[2])
<1>2. k \in Existing /\ s \in Seq(Version)
  BY FoundFacts
<1>3. \A i \in DOMAIN s : s[i] \in Version
  BY <1>2
<1>4. t = [i \in DOMAIN s |-> t[i]] /\ \A i \in DOMAIN s : Less(t[i], s[i])
  BY <1>3 DEF RevokeAll, Less, Version, Kind
<1> HIDE DEF t
<1>5. t \in Seq(Version) /\ Len(t) = Len(s) /\ \A i \in 1 .. Len(t) : Less(t[i], s[i])
  BY <1>2, <1>4, EachSeq
<1>6. cards' = [cards EXCEPT ![k] = Withdrawn(cards[k], t)]
  BY <1>1 DEF t
<1> QED BY <1>2, <1>5, <1>6, WithdrawnWithdraws

\* So does its purge, which empties every version that its first statement finds.
LEMMA ApiPurgeWithdraws ==
  ASSUME IInv, NEW k \in Card, ApiPurge(k)
  PROVE  Withdraws(k)
<1> DEFINE s == cards[k].versions
           old == cards[k].purged
<1>1. PICK f \in Found(s) : cards' = [cards EXCEPT ![k] =
        [Withdrawn(cards[k], PurgeAll(s, f[1], f[2])) EXCEPT !.purged = IF @ < f[1] THEN f[1] ELSE @]]
  BY DEF ApiPurge
<1> DEFINE t == PurgeAll(s, f[1], f[2])
           purged == IF old < f[1] THEN f[1] ELSE old
<1>2. /\ k \in Existing /\ s \in Seq(Version) /\ Len(s) \in Nat /\ DOMAIN s = 1 .. Len(s)
      /\ f[1] \in 1 .. Len(s) /\ f[2] \in 1 .. Len(s) /\ f[1] <= f[2]
  BY FoundFacts, LenProperties
<1>3. cards[k] \in CardRow /\ old \in 0 .. Len(s)
  BY <1>2, RowFacts DEF CardRow, IInv, Standing
<1>4. \A i \in DOMAIN s : s[i] \in Version
  BY <1>2
<1>5. t = [i \in DOMAIN s |-> t[i]] /\ \A i \in DOMAIN s : Less(t[i], s[i])
  BY <1>4 DEF PurgeAll, Less, Version, Kind
<1>6. \A i \in 1 .. Len(s) : i <= f[1] => Emptied(t[i])
  <2> SUFFICES ASSUME NEW i \in 1 .. Len(s), i <= f[1] PROVE Emptied(t[i])
    OBVIOUS
  <2>1. i <= f[2] /\ i \in DOMAIN s
    BY <1>2
  <2> QED BY <1>4, <2>1 DEF PurgeAll, Emptied, Version
<1> HIDE DEF t
<1>7. t \in Seq(Version) /\ Len(t) = Len(s) /\ \A i \in 1 .. Len(t) : Less(t[i], s[i])
  BY <1>2, <1>5, EachSeq
<1>8. purged \in 0 .. Len(s) /\ \A i \in 1 .. Len(t) : i <= purged => i <= old \/ Emptied(t[i])
  BY <1>2, <1>3, <1>6, <1>7
<1>9. [Withdrawn(cards[k], t) EXCEPT !.purged = IF @ < f[1] THEN f[1] ELSE @] =
      [Withdrawn(cards[k], t) EXCEPT !.purged = purged]
  BY <1>3 DEF Withdrawn, CardRow
<1>10. cards' = [cards EXCEPT ![k] = [Withdrawn(cards[k], t) EXCEPT !.purged = purged]]
  BY <1>1, <1>9 DEF t
<1> HIDE DEF purged
<1> QED BY <1>2, <1>7, <1>8, <1>10 DEF Withdraws

\* So does the local store's revocation.
LEMMA LocalRevokeWithdraws ==
  ASSUME IInv, NEW k \in Card, LocalRevoke(k)
  PROVE  Withdraws(k)
<1> DEFINE s == cards[k].versions
<1>0. PICK n \in DOMAIN s : \E one \in 1 .. n :
        cards' = [cards EXCEPT ![k] = Withdrawn(cards[k], Hidden(s, n, one))]
  BY DEF LocalRevoke
<1>1. PICK one \in 1 .. n :
        cards' = [cards EXCEPT ![k] = Withdrawn(cards[k], Hidden(s, n, one))]
  BY <1>0
<1> DEFINE t == Hidden(s, n, one)
<1>2. s \in Seq(Version) /\ k \in Existing
  <2>1. s # <<>>
    BY <1>1, RowFacts, EmptySeq DEF IInv
  <2> QED BY <2>1, RowFacts DEF IInv
<1>3. \A j \in DOMAIN s : s[j] \in Version
  BY <1>2
<1>4. t = [j \in DOMAIN s |-> t[j]] /\ \A j \in DOMAIN s : Less(t[j], s[j])
  BY <1>3 DEF Hidden, Less, Version, Kind
<1> HIDE DEF t
<1>5. t \in Seq(Version) /\ Len(t) = Len(s) /\ \A j \in 1 .. Len(t) : Less(t[j], s[j])
  BY <1>2, <1>4, EachSeq
<1>6. cards' = [cards EXCEPT ![k] = Withdrawn(cards[k], t)]
  BY <1>1 DEF t
<1> QED BY <1>2, <1>5, <1>6, WithdrawnWithdraws

\* So does its purge.
LEMMA LocalPurgeWithdraws ==
  ASSUME IInv, NEW k \in Card, LocalPurge(k)
  PROVE  Withdraws(k)
<1> DEFINE s == cards[k].versions
<1>1. PICK n \in DOMAIN s : cards' = [cards EXCEPT ![k] =
         Withdrawn(cards[k], [s EXCEPT ![n].doc = "purged", ![n].body = "purged"])]
  BY DEF LocalPurge
<1> DEFINE t == [s EXCEPT ![n].doc = "purged", ![n].body = "purged"]
<1>2. s \in Seq(Version) /\ k \in Existing
  <2>1. s # <<>>
    BY <1>1, RowFacts, EmptySeq DEF IInv
  <2> QED BY <2>1, RowFacts DEF IInv
<1>3. \A j \in DOMAIN s : s[j] \in Version
  BY <1>2
<1>4. t = [j \in DOMAIN s |-> t[j]] /\ \A j \in DOMAIN s : j # n => t[j] = s[j]
  BY <1>2, RowFacts DEF IInv
<1>5. t[n] = [s[n] EXCEPT !.doc = "purged", !.body = "purged"]
  BY <1>1, <1>2, <1>3, RowFacts DEF IInv, Version
<1> HIDE DEF t
<1>6. \A j \in DOMAIN s : Less(t[j], s[j])
  <2>1. Less(t[n], s[n])
    <3> DEFINE v == s[n]
    <3>1. v \in Version /\ t[n] = [v EXCEPT !.doc = "purged", !.body = "purged"]
      BY <1>1, <1>3, <1>5
    <3> HIDE DEF v
    <3>2. Less(t[n], v)
      BY <3>1 DEF Less, Version, Kind
    <3> QED BY <3>2 DEF v
  <2>2. \A j \in DOMAIN s : j # n => Less(t[j], s[j])
    BY <1>3, <1>4 DEF Less
  <2> QED BY <2>1, <2>2
<1>7. t \in Seq(Version) /\ Len(t) = Len(s) /\ \A j \in 1 .. Len(t) : Less(t[j], s[j])
  BY <1>2, <1>4, <1>6, EachSeq
<1>8. cards' = [cards EXCEPT ![k] = Withdrawn(cards[k], t)]
  BY <1>1 DEF t
<1> QED BY <1>2, <1>7, <1>8, WithdrawnWithdraws

-----------------------------------------------------------------------------
(* The steps. *)

CardStep == \E k \in Card : Files(k) \/ Merges(k) \/ Withdraws(k)

\* However a card changes, what is known of the cards stays, and no request that
\* asked nobody is overtaken.
LEMMA CardStepKeeps ==
  ASSUME IInv, CardStep \/ UNCHANGED cards
  PROVE  /\ Tame /\ Standing' /\ StoredAsApproved' /\ ApiPurgeIsThorough' /\ NoSilentTwin'
<1>1. CASE CardStep
  BY <1>1, FilesEffect, MergesEffect, WithdrawsEffect, FilesKeeps, MergesKeeps,
     WithdrawsKeeps DEF CardStep
<1>2. CASE UNCHANGED cards
  <2>1. Tame
    BY <1>2 DEF Tame, IInv, TypeOK, Existing
  <2>2. Standing' /\ StoredAsApproved' /\ ApiPurgeIsThorough' /\ NoSilentTwin'
    BY <1>2 DEF IInv, Standing, Current, Existing, StoredAsApproved, ApiPurgeIsThorough,
                NoSilentTwin, Served
  <2> QED BY <2>1, <2>2
<1> QED BY <1>1, <1>2

\* What each action does to the cards.
LEMMA StepCards ==
  ASSUME IInv, [Next]_vars
  PROVE  CardStep \/ UNCHANGED cards
<1>1. ASSUME NEW c \in Client, Insert(c) PROVE CardStep
  BY <1>1, InsertFiles DEF CardStep
<1>2. ASSUME NEW c \in Client, Update(c) PROVE CardStep \/ UNCHANGED cards
  BY <1>2, UpdateMerges DEF CardStep
<1>3. ASSUME NEW c \in Client, Look(c) \/ LookFails(c) PROVE UNCHANGED cards
  BY <1>3, LookKeeps
<1>4. ASSUME NEW c \in Client, UpdateRefused(c) \/ Lose(c) \/ Resubmit(c) \/ Retry(c) \/ Leave(c)
      PROVE  UNCHANGED cards
  BY <1>4 DEF UpdateRefused, Lose, Resubmit, Retry, Leave, Resend
<1>5. ASSUME NEW c \in Client, NEW x \in Input, NEW via \in Via, Post(c, via, x)
      PROVE  UNCHANGED cards
  BY <1>5 DEF Post
<1>6. ASSUME NEW x \in Input, LocalCapture(x) PROVE CardStep
  BY <1>6, CaptureFiles DEF CardStep
<1>7. ASSUME NEW k \in Card, ApiRevoke(k) \/ ApiPurge(k) \/ LocalRevoke(k) \/ LocalPurge(k)
      PROVE  CardStep
  BY <1>7, ApiRevokeWithdraws, ApiPurgeWithdraws, LocalRevokeWithdraws, LocalPurgeWithdraws
     DEF CardStep
<1>8. CASE UNCHANGED vars
  BY <1>8 DEF vars
<1> QED BY <1>1, <1>2, <1>3, <1>4, <1>5, <1>6, <1>7, <1>8 DEF Next, Handle

\* What each action does to the requests.
LEMMA StepRequests ==
  ASSUME IInv, [Next]_vars
  PROVE  client' \in [Client -> Request] /\ Requests'
<1> DEFINE Goal == client' \in [Client -> Request] /\ Requests'
<1>1. Tame
  BY StepCards, CardStepKeeps
<1>2. ASSUME NEW c \in Client, Insert(c) \/ Update(c) \/ UpdateRefused(c) \/ Lose(c) PROVE Goal
  <2>1. client[c].pc # "idle" /\ \E answer \in {"stored", "lost"} : Answer(c, answer)
    BY <1>2 DEF Insert, Update, UpdateRefused, Lose
  <2> QED BY <1>1, <2>1, AnswerKeeps
<1>3. ASSUME NEW c \in Client, Resubmit(c) PROVE Goal
  <2>1. /\ client[c].answer \in Challenge /\ client[c].via = "http" /\ Sane(c)
        /\ client[c] \in Request
    BY <1>3 DEF Resubmit, IInv, Requests, TypeOK
  <2>2. client[c].pc # "idle"
    BY <2>1, NoneAssumption DEF Sane, NoRequest
  <2>3. normal[client[c].text] \in Text \cup {None} /\ "create_new" # None
    <3>1. normal[client[c].text] \in Text
      BY <2>1, <2>2, TextAssumption DEF Sane
    <3> QED BY <3>1, NoneAssumption
  <2>4. /\ client[c].decision \in {None, "create_new", "update_existing"}
        /\ client[c].target \in Card \cup {None}
        /\ client[c].decision = "update_existing" => client[c].target \in Card
        /\ client[c].decision = None => client[c].target = None
    BY <2>1 DEF Sane, Request
  <2>5. CASE Resend(c, normal[client[c].text], client[c].decision, client[c].target)
    BY <2>1, <2>2, <2>3, <2>4, <2>5, ResendKeeps
  <2>6. CASE Resend(c, normal[client[c].text], "create_new", None)
    BY <2>1, <2>2, <2>3, <2>6, ResendKeeps
  <2>7. CASE \E k \in Existing : Resend(c, normal[client[c].text], "update_existing", k)
    BY <2>1, <2>2, <2>3, <2>7, ResendKeeps, NoneAssumption DEF Existing
  <2> QED BY <1>3, <2>5, <2>6, <2>7 DEF Resubmit
<1>4. ASSUME NEW c \in Client, Retry(c) PROVE Goal
  <2>1. /\ client[c].answer = "lost" /\ Sane(c) /\ client[c] \in Request
        /\ Resend(c, client[c].digest, client[c].decision, client[c].target)
    BY <1>4 DEF Retry, IInv, Requests, TypeOK
  <2>2. client[c].pc # "idle"
    BY <2>1, NoneAssumption DEF Sane, NoRequest
  <2>3. /\ client[c].digest \in Text \cup {None}
        /\ client[c].decision \in {None, "create_new", "update_existing"}
        /\ client[c].target \in Card \cup {None}
    BY <2>1 DEF Request
  <2>4. /\ client[c].via = "browser" => client[c].digest = None
        /\ client[c].decision = "update_existing" => client[c].target \in Card
        /\ client[c].decision = None => client[c].target = None
    BY <2>1 DEF Sane
  <2> QED BY <2>1, <2>2, <2>3, <2>4, ResendKeeps
<1>5. ASSUME UNCHANGED client PROVE Goal
  <2>1. \A c \in Client : client'[c] = client[c]
    BY <1>5
  <2> QED BY <1>1, <1>5, <2>1, SaneKept DEF Requests, IInv, TypeOK
<1>6. ASSUME \/ UNCHANGED vars \/ \E x \in Input : LocalCapture(x)
             \/ \E k \in Card : ApiRevoke(k) \/ ApiPurge(k) \/ LocalRevoke(k) \/ LocalPurge(k)
      PROVE  Goal
  <2>1. UNCHANGED client
    BY <1>6 DEF vars, LocalCapture, ApiRevoke, ApiPurge, LocalRevoke, LocalPurge
  <2> QED BY <1>5, <2>1
<1> HIDE DEF Goal
<1>7. ASSUME NEW c \in Client, Look(c) \/ LookFails(c) \/ Leave(c) PROVE Goal
  BY <1>7, LookKeeps, LeaveKeeps DEF Goal
<1>8. ASSUME NEW c \in Client, NEW x \in Input, NEW via \in Via, Post(c, via, x) PROVE Goal
  BY <1>8, PostKeeps DEF Goal
<1>9. Goal
  BY <1>2, <1>3, <1>4, <1>6, <1>7, <1>8 DEF Next, Handle
<1> QED BY <1>9 DEF Goal

\* No cards and idle clients satisfy the invariant.
LEMMA InitIInv == Init => IInv
<1> SUFFICES ASSUME Init PROVE IInv
  OBVIOUS
<1>1. \A k \in Card : /\ cards[k].status = "absent" /\ cards[k].versions = <<>>
                      /\ ~ cards[k].unasked /\ cards[k].seen = {} /\ cards[k].purged = 0
  BY DEF Init, NoCard
<1>2. NoCard \in CardRow /\ NoRequest \in Request
  <2>1. <<>> \in Seq(Version)
    BY EmptySeq
  <2>2. NoCard \in CardRow
    BY <2>1 DEF NoCard, CardRow
  <2> QED BY <2>2 DEF NoRequest, Request
<1>3. TypeOK
  BY <1>1, <1>2 DEF Init, TypeOK
<1>4. Standing /\ NoSilentTwin
  BY <1>1 DEF Standing, NoSilentTwin, Served
<1>5. StoredAsApproved /\ ApiPurgeIsThorough
  <2>1. \A k \in Card : DOMAIN cards[k].versions = {}
    <3> TAKE k \in Card
    <3>1. cards[k].versions \in Seq(Version) /\ Len(cards[k].versions) = 0
      BY <1>1, <1>3, EmptySeq DEF TypeOK, CardRow
    <3> QED BY <3>1, LenProperties
  <2> QED BY <1>1, <2>1 DEF StoredAsApproved, ApiPurgeIsThorough
<1>6. Requests
  <2>1. \A c \in Client : client[c] = NoRequest
    BY DEF Init
  <2>2. /\ NoRequest.pc = "idle" /\ NoRequest.digest = None /\ NoRequest.decision = None
        /\ NoRequest.target = None /\ NoRequest.seen = {}
    BY DEF NoRequest
  <2>3. None # "update_existing"
    BY NoneAssumption
  <2> QED BY <2>1, <2>2, <2>3 DEF Requests, Sane
<1> QED BY <1>3, <1>4, <1>5, <1>6 DEF IInv

\* The invariant is inductive.
LEMMA NextIInv == IInv /\ [Next]_vars => IInv'
<1> SUFFICES ASSUME IInv, [Next]_vars PROVE IInv'
  OBVIOUS
<1>1. Tame /\ Standing' /\ StoredAsApproved' /\ ApiPurgeIsThorough' /\ NoSilentTwin'
  BY StepCards, CardStepKeeps
<1>2. client' \in [Client -> Request] /\ Requests'
  BY StepRequests
<1>3. TypeOK'
  BY <1>1, <1>2 DEF Tame, TypeOK
<1> QED BY <1>1, <1>2, <1>3 DEF IInv

\* In every reachable state the invariant holds.
LEMMA Invariance == Spec => []IInv
  BY InitIInv, NextIInv, PTL DEF Spec

-----------------------------------------------------------------------------
(* The theorems. *)

\* Every card and request has its type, and a card exists when it has a version.
THEOREM TypeCorrect == Spec => []TypeOK
<1>1. IInv => TypeOK
  BY DEF IInv
<1> QED BY <1>1, Invariance, PTL

\* What is stored is what its user approved.
THEOREM AsApproved == Spec => []StoredAsApproved
<1>1. IInv => StoredAsApproved
  BY DEF IInv
<1> QED BY <1>1, Invariance, PTL

\* The API and the local commands find the same version of the same cards.
THEOREM OneView == Spec => []SurfacesAgree
<1>1. IInv => SurfacesAgree
  <2> SUFFICES ASSUME IInv, NEW k \in Card
               PROVE  LocalHits(k) = IF Served(k) THEN {Len(cards[k].versions)} ELSE {}
    BY DEF SurfacesAgree
  <2> DEFINE n == Len(cards[k].versions)
  <2>1. CASE cards[k].status = "approved_private"
    <3>1. k \in Existing
      BY <2>1 DEF Existing
    <3>2. /\ n \in 1 .. n /\ DOMAIN cards[k].versions = 1 .. n
          /\ Current(k) = cards[k].versions[n]
      BY <3>1, RowFacts DEF IInv
    <3>3. Served(k)
      BY <2>1 DEF Served, IInv, Standing
    <3>4. \A i \in 1 .. n : i # n => cards[k].versions[i].doc # "captured"
      BY <2>1, <3>2 DEF IInv, Standing
    <3>5. LocalHits(k) = {n}
      BY <2>1, <3>2, <3>3, <3>4 DEF LocalHits, Served
    <3> QED BY <3>3, <3>5
  <2>2. CASE cards[k].status # "approved_private"
    BY <2>2 DEF LocalHits, Served
  <2> QED BY <2>1, <2>2
<1> QED BY <1>1, Invariance, PTL

\* No version that the API's purge had to find has its text, ever after.
THEOREM PurgeIsThorough == Spec => []ApiPurgeIsThorough
<1>1. IInv => ApiPurgeIsThorough
  BY DEF IInv
<1> QED BY <1>1, Invariance, PTL

\* Retries, lost answers and merges in between do not make a second card that
\* nobody decided for, of a text that is sure to find the first, unless two requests
\* overlapped or a search failed.
THEOREM NoTwin == Spec => []NoSilentTwin
<1>1. IInv => NoSilentTwin
  BY DEF IInv
<1> QED BY <1>1, Invariance, PTL

\* No merge that was under way brings back a card that was withdrawn, or adds to it.
THEOREM Finality == Spec => WithdrawnIsFinal
<1> DEFINE Final(k) == cards[k].status = "revoked" =>
             /\ cards'[k].status = "revoked" /\ LocalHits(k)' = {}
             /\ ActiveBodies(k)' \subseteq ActiveBodies(k)
             /\ Len(cards'[k].versions) = Len(cards[k].versions)
<1>1. ASSUME IInv, CardStep \/ UNCHANGED cards, NEW k \in Card PROVE Final(k)
  <2>1. ASSUME cards'[k] = cards[k] PROVE Final(k)
    BY <2>1 DEF LocalHits, ActiveBodies
  <2>2. ASSUME NEW j \in Card, Files(j), cards[k].status = "revoked" PROVE cards'[k] = cards[k]
    BY <1>1, <2>2, FilesEffect DEF Files, Existing
  <2>3. ASSUME NEW j \in Card, Merges(j), cards[k].status = "revoked" PROVE cards'[k] = cards[k]
    BY <1>1, <2>3, MergesEffect
  <2>4. ASSUME NEW j \in Card, Withdraws(j), j # k PROVE cards'[k] = cards[k]
    BY <1>1, <2>4, WithdrawsEffect
  <2>5. ASSUME Withdraws(k) PROVE Final(k)
    <3>1. /\ cards'[k].status = "revoked"
          /\ DOMAIN cards'[k].versions = DOMAIN cards[k].versions
          /\ Len(cards'[k].versions) = Len(cards[k].versions)
          /\ \A i \in DOMAIN cards[k].versions :
               Less(cards'[k].versions[i], cards[k].versions[i])
      BY <1>1, <2>5, WithdrawsEffect
    <3> QED BY <3>1 DEF LocalHits, ActiveBodies, Less
  <2>6. CASE cards[k].status # "revoked"
    BY <2>6
  <2>7. CASE cards[k].status = "revoked" /\ CardStep
    <3>1. PICK j \in Card : Files(j) \/ Merges(j) \/ Withdraws(j)
      BY <2>7 DEF CardStep
    <3> HIDE DEF Final
    <3> QED BY <2>1, <2>2, <2>3, <2>4, <2>5, <2>7, <3>1
  <2>8. CASE UNCHANGED cards
    BY <2>1, <2>8
  <2> QED BY <1>1, <2>6, <2>7, <2>8
<1>2. IInv /\ [Next]_vars => [\A k \in Card : Final(k)]_vars
  <2> HIDE DEF Final
  <2> QED BY <1>1, StepCards
<1> QED BY <1>2, Invariance, PTL DEF Spec, WithdrawnIsFinal
=============================================================================
