-------------------------- MODULE GnnPublish_proofs --------------------------
(* Theorems about FeatureCache and GnnPublish: how old a document may be that the scoring *)
(* is given, and what publishing does to the documents.                                   *)
EXTENDS GnnPublish, SequenceTheorems, TLAPS

\* An element is removed, and those behind it move up.
LEMMA RemovedElement ==
  ASSUME NEW S, NEW s \in Seq(S), NEW i \in 1 .. Len(s)
  PROVE  /\ RemoveAt(s, i) \in Seq(S)
         /\ Len(RemoveAt(s, i)) = Len(s) - 1
         /\ \A k \in 1 .. Len(s) - 1 : RemoveAt(s, i)[k] = IF k < i THEN s[k] ELSE s[k + 1]
<1> DEFINE front == SubSeq(s, 1, i - 1)
           rest == SubSeq(s, i + 1, Len(s))
<1>1. Len(s) \in Nat /\ \A k \in 1 .. Len(s) : s[k] \in S
  BY ElementOfSeq
<1>2. /\ front \in Seq(S) /\ Len(front) = i - 1
      /\ \A k \in 1 .. i - 1 : front[k] = s[k]
  <2>1. \A k \in 1 .. i - 1 : s[k] \in S
    BY <1>1
  <2>2. /\ front \in Seq(S)
        /\ Len(front) = IF 1 <= i - 1 THEN (i - 1) - 1 + 1 ELSE 0
        /\ \A k \in 1 .. (i - 1) - 1 + 1 : front[k] = s[1 + k - 1]
    BY <1>1, <2>1, SubSeqProperties
  <2> HIDE DEF front
  <2> QED
    BY <1>1, <2>2
<1>3. /\ rest \in Seq(S) /\ Len(rest) = Len(s) - i
      /\ \A k \in 1 .. Len(s) - i : rest[k] = s[i + k]
  <2>1. \A k \in i + 1 .. Len(s) : s[k] \in S
    BY <1>1
  <2>2. /\ rest \in Seq(S)
        /\ Len(rest) = IF i + 1 <= Len(s) THEN Len(s) - (i + 1) + 1 ELSE 0
        /\ \A k \in 1 .. Len(s) - (i + 1) + 1 : rest[k] = s[(i + 1) + k - 1]
    BY <1>1, <2>1, SubSeqProperties
  <2> HIDE DEF rest
  <2> QED
    BY <1>1, <2>2
<1>4. /\ front \o rest \in Seq(S)
      /\ Len(front \o rest) = Len(front) + Len(rest)
      /\ \A k \in 1 .. Len(front) + Len(rest) :
           (front \o rest)[k] = IF k <= Len(front) THEN front[k] ELSE rest[k - Len(front)]
  BY <1>2, <1>3, ConcatProperties
<1> HIDE DEF front, rest
<1>5. \A k \in 1 .. Len(s) - 1 : (front \o rest)[k] = IF k < i THEN s[k] ELSE s[k + 1]
  <2> TAKE k \in 1 .. Len(s) - 1
  <2>1. CASE k < i
    BY <1>1, <1>2, <1>3, <1>4, <2>1
  <2>2. CASE ~(k < i)
    <3>1. k - (i - 1) \in 1 .. Len(s) - i /\ i + (k - (i - 1)) = k + 1
      BY <1>1, <2>2
    <3>2. k \in 1 .. Len(front) + Len(rest) /\ ~(k <= Len(front)) /\ k - Len(front) = k - (i - 1)
      BY <1>1, <1>2, <1>3, <2>2
    <3>3. (front \o rest)[k] = rest[k - (i - 1)]
      BY <1>4, <3>2
    <3>4. rest[k - (i - 1)] = s[k + 1]
      BY <1>3, <3>1
    <3> QED
      BY <2>2, <3>3, <3>4
  <2> QED
    BY <2>1, <2>2
<1>6. RemoveAt(s, i) = front \o rest
  BY DEF RemoveAt, front, rest
<1>7. Len(front \o rest) = Len(s) - 1
  BY <1>1, <1>2, <1>3, <1>4
<1> QED
  BY <1>4, <1>5, <1>6, <1>7

\* One entry per card.
Unique(entries) ==
  \A i, j \in 1 .. Len(entries) : entries[i].card = entries[j].card => i = j

\* Every entry of one sequence is in another.
From(entries, others) ==
  \A i \in 1 .. Len(entries) : \E j \in 1 .. Len(others) : entries[i] = others[j]

\* Without a card's entry, the others are left, and none is of that card.
LEMMA WithoutCard ==
  ASSUME NEW s \in Seq(Entries), Unique(s), NEW c
  PROVE  /\ Without(s, c) \in Seq(Entries) /\ Unique(Without(s, c)) /\ From(Without(s, c), s)
         /\ \A i \in 1 .. Len(Without(s, c)) : Without(s, c)[i].card # c
         /\ Len(Without(s, c)) =
              IF \E i \in 1 .. Len(s) : s[i].card = c THEN Len(s) - 1 ELSE Len(s)
<1> DEFINE at == {i \in 1 .. Len(s) : s[i].card = c}
           left == Without(s, c)
<1>1. Len(s) \in Nat /\ DOMAIN s = 1 .. Len(s)
  BY LenProperties
<1>2. CASE at = {}
  <2>1. left = s
    BY <1>1, <1>2 DEF Without, WithoutOne
  <2> QED
    BY <1>1, <1>2, <2>1 DEF From
<1>3. CASE at # {}
  <2> DEFINE k == CHOOSE i \in at : TRUE
  <2>1. k \in 1 .. Len(s) /\ s[k].card = c
    BY <1>3
  <2>2. left = RemoveAt(s, k)
    BY <1>1, <1>3 DEF Without, WithoutOne
  <2> HIDE DEF k, left
  <2>3. /\ left \in Seq(Entries) /\ Len(left) = Len(s) - 1
        /\ \A i \in 1 .. Len(s) - 1 : left[i] = IF i < k THEN s[i] ELSE s[i + 1]
    BY <2>1, <2>2, RemovedElement
  <2>4. From(left, s)
    BY <1>1, <2>1, <2>3 DEF From
  <2>5. ASSUME NEW i \in 1 .. Len(left) PROVE left[i].card # c
    BY <1>1, <2>1, <2>3, <2>5 DEF Unique
  <2>6. ASSUME NEW i \in 1 .. Len(left), NEW j \in 1 .. Len(left), left[i].card = left[j].card
        PROVE  i = j
    <3>1. /\ (IF i < k THEN i ELSE i + 1) \in 1 .. Len(s)
          /\ (IF j < k THEN j ELSE j + 1) \in 1 .. Len(s)
      BY <1>1, <2>1, <2>3
    <3>2. /\ left[i] = s[IF i < k THEN i ELSE i + 1]
          /\ left[j] = s[IF j < k THEN j ELSE j + 1]
      BY <1>1, <2>1, <2>3
    <3>3. (IF i < k THEN i ELSE i + 1) = (IF j < k THEN j ELSE j + 1)
      BY <2>6, <3>1, <3>2 DEF Unique
    <3> QED
      BY <1>1, <2>1, <2>3, <3>3
  <2> QED
    BY <1>1, <2>1, <2>3, <2>4, <2>5, <2>6 DEF Unique, left
<1> QED
  BY <1>2, <1>3

\* An entry of another card than those in the cache is added.
LEMMA AddedEntry ==
  ASSUME NEW s \in Seq(Entries), Unique(s), NEW e \in Entries,
         \A i \in 1 .. Len(s) : s[i].card # e.card
  PROVE  /\ Append(s, e) \in Seq(Entries) /\ Unique(Append(s, e))
         /\ Len(Append(s, e)) = Len(s) + 1
         /\ \A i \in 1 .. Len(Append(s, e)) :
              Append(s, e)[i] = e \/ \E j \in 1 .. Len(s) : Append(s, e)[i] = s[j]
<1> DEFINE more == Append(s, e)
<1>1. Len(s) \in Nat /\ more \in Seq(Entries) /\ Len(more) = Len(s) + 1
      /\ (\A i \in 1 .. Len(s) : more[i] = s[i]) /\ more[Len(s) + 1] = e
  BY LenProperties, AppendProperties
<1> HIDE DEF more
<1>2. ASSUME NEW i \in 1 .. Len(more) PROVE more[i] = e \/ \E j \in 1 .. Len(s) : more[i] = s[j]
  <2>1. i \in 1 .. Len(s) \/ i = Len(s) + 1
    BY <1>1
  <2> QED
    BY <1>1, <2>1
<1>3. Unique(more)
  <2> SUFFICES ASSUME NEW i \in 1 .. Len(more), NEW j \in 1 .. Len(more), more[i].card = more[j].card
               PROVE  i = j
    BY DEF Unique
  <2>1. /\ i \in 1 .. Len(s) \/ i = Len(s) + 1
        /\ j \in 1 .. Len(s) \/ j = Len(s) + 1
    BY <1>1
  <2> QED
    BY <1>1, <2>1 DEF Unique
<1> QED
  BY <1>1, <1>2, <1>3 DEF more

\* Eviction keeps the newest entries, and no more than there is room for.
LEMMA EvictedEntries ==
  ASSUME NEW s \in Seq(Entries), Unique(s)
  PROVE  /\ Evicted(s) \in Seq(Entries) /\ Unique(Evicted(s)) /\ From(Evicted(s), s)
         /\ Len(Evicted(s)) <= MaxSize
<1>1. Len(s) \in Nat /\ MaxSize \in Nat /\ \A i \in 1 .. Len(s) : s[i] \in Entries
  BY LenProperties, ElementOfSeq, CacheConstantsOK
<1>2. CASE Len(s) > MaxSize
  <2> DEFINE m == Len(s) - MaxSize + 1
             t == SubSeq(s, m, Len(s))
  <2>1. m \in Int /\ \A i \in m .. Len(s) : s[i] \in Entries
    BY <1>1, <1>2
  <2>2. /\ t \in Seq(Entries)
        /\ Len(t) = IF m <= Len(s) THEN Len(s) - m + 1 ELSE 0
        /\ \A i \in 1 .. Len(s) - m + 1 : t[i] = s[m + i - 1]
    <3> HIDE DEF m
    <3> QED
      BY <1>1, <2>1, SubSeqProperties
  <2> HIDE DEF t
  <2>3. Len(t) = MaxSize /\ \A i \in 1 .. MaxSize : m + i - 1 \in 1 .. Len(s) /\ t[i] = s[m + i - 1]
    BY <1>1, <1>2, <2>2
  <2>4. From(t, s)
    BY <2>3 DEF From
  <2>5. Unique(t)
    <3> SUFFICES ASSUME NEW i \in 1 .. Len(t), NEW j \in 1 .. Len(t), t[i].card = t[j].card
                 PROVE  i = j
      BY DEF Unique
    <3>1. /\ m + i - 1 \in 1 .. Len(s) /\ t[i] = s[m + i - 1]
          /\ m + j - 1 \in 1 .. Len(s) /\ t[j] = s[m + j - 1]
      BY <2>3
    <3>2. m + i - 1 = m + j - 1
      BY <3>1 DEF Unique
    <3> HIDE DEF m
    <3> QED
      BY <1>1, <2>1, <2>3, <3>2
  <2> QED
    BY <1>1, <1>2, <2>2, <2>3, <2>4, <2>5 DEF Evicted, t
<1>3. CASE ~(Len(s) > MaxSize)
  BY <1>1, <1>3 DEF Evicted, From
<1> QED
  BY <1>2, <1>3
-----------------------------------------------------------------------------
\* A document was that of a card at some time not before t.
Current(c, d, t) ==
  \/ d = doc[c]
  \/ \E p \in past : p.card = c /\ p.doc = d /\ p.until >= t

\* An entry was current when the read began that put it into the cache.
Aged(e) == e.at <= now /\ Current(e.card, e.doc, e.at - ReadTime)

CacheAged == \A i \in 1 .. Len(cache) : Aged(cache[i])

LookupsInTime ==
  \A l \in Lookups : Waiting(l) =>
    lookup[l].card \in Cards /\ lookup[l].at <= now /\ now - lookup[l].at <= ReadTime

\* What Cosmos has answered was current when the lookup began.
AnswersAged ==
  \A l \in Lookups : lookup[l].stage = "answered" /\ lookup[l].doc.found =>
    Current(lookup[l].card, lookup[l].doc, lookup[l].at)

\* The inductive invariant of the cache.
CacheInv == CacheTypeOK /\ CacheAged /\ LookupsInTime /\ AnswersAged /\ BoundedStaleness

LEMMA CacheFacts ==
  ASSUME CacheTypeOK
  PROVE  /\ now \in Nat /\ cache \in Seq(Entries) /\ Unique(cache) /\ Len(cache) \in Nat
         /\ DOMAIN cache = 1 .. Len(cache) /\ ReadTime \in Nat /\ Ttl \in Nat
         /\ \A i \in 1 .. Len(cache) : cache[i] \in Entries
<1>1. now \in Nat /\ cache \in Seq(Entries) /\ ReadTime \in Nat /\ Ttl \in Nat
  BY CacheConstantsOK DEF CacheTypeOK
<1>2. DOMAIN cache = 1 .. Len(cache) /\ Len(cache) \in Nat
  BY <1>1, LenProperties
<1>3. \A i \in 1 .. Len(cache) : cache[i] \in Entries
  BY <1>1, ElementOfSeq
<1> QED
  BY <1>1, <1>2, <1>3 DEF CacheTypeOK, Unique

\* A card that is held has an entry, and it is the only one.
LEMMA EntryFacts ==
  ASSUME CacheTypeOK, NEW c, Held(c) # {}
  PROVE  EntryOf(c).card = c /\ \E i \in 1 .. Len(cache) : EntryOf(c) = cache[i]
<1>1. (CHOOSE i \in Held(c) : TRUE) \in Held(c)
  OBVIOUS
<1> QED
  BY <1>1, CacheFacts DEF Held, EntryOf

\* What was current stays so when a document is replaced.
LEMMA StoreKeepsCurrent ==
  ASSUME CacheTypeOK, NEW c \in Cards, NEW d, Store(c, d),
         NEW k \in Cards, NEW e, NEW t \in Int, t <= now, Current(k, e, t)
  PROVE  Current(k, e, t)'
<1>1. /\ doc' = [doc EXCEPT ![c] = d] /\ DOMAIN doc = Cards
      /\ [card |-> c, doc |-> doc[c], until |-> now] \in past'
      /\ \A p \in past : p.card # c \/ p.doc # doc[c] => p \in past'
  BY DEF Store, CacheTypeOK
<1>2. CASE k = c /\ e = doc[c]
  BY <1>1, <1>2 DEF Current
<1>3. CASE ~(k = c /\ e = doc[c])
  <2>1. CASE e = doc[k]
    BY <1>1, <1>3, <2>1 DEF Current
  <2>2. CASE \E p \in past : p.card = k /\ p.doc = e /\ p.until >= t
    BY <1>1, <1>3, <2>2 DEF Current
  <2> QED
    BY <2>1, <2>2 DEF Current
<1> QED
  BY <1>2, <1>3

\* The cache and its lookups outlast a change of a document.
LEMMA StoreKeeps ==
  ASSUME CacheInv, NEW c \in Cards, NEW d \in Docs, Store(c, d), UNCHANGED <<now, cache, lookup>>,
         changes' \in 0 .. MaxChanges
  PROVE  CacheInv'
<1> USE DEF CacheInv
<1>1. now \in 0 .. MaxTime /\ now \in Nat /\ ReadTime \in Nat
  BY CacheFacts DEF CacheTypeOK
<1>2. CacheTypeOK'
  <2>1. doc' \in [Cards -> Docs \cup {NoDoc}]
    BY DEF Store, CacheTypeOK
  <2>2. doc[c] \in Docs \cup {NoDoc}
    BY DEF CacheTypeOK
  <2>3. past' \subseteq [card : Cards, doc : Docs \cup {NoDoc}, until : 0 .. MaxTime]
    BY <1>1, <2>2 DEF Store, CacheTypeOK
  <2>4. given' \in [card : Cards \cup {NoCardYet}, doc : Docs \cup {NoDoc}]
    BY DEF Store, NothingGiven
  <2> QED
    BY <2>1, <2>3, <2>4 DEF CacheTypeOK
<1>3. CacheAged'
  <2> SUFFICES ASSUME NEW i \in 1 .. Len(cache) PROVE Aged(cache[i])'
    BY DEF CacheAged
  <2>1. cache[i].card \in Cards /\ cache[i].at \in Int /\ cache[i].doc \in Docs /\ Aged(cache[i])
    BY CacheFacts DEF CacheAged, Entries
  <2>2. cache[i].at - ReadTime \in Int /\ cache[i].at - ReadTime <= now
    BY <1>1, <2>1 DEF Aged
  <2>3. Current(cache[i].card, cache[i].doc, cache[i].at - ReadTime)
    BY <2>1 DEF Aged
  <2>4. PICK k \in Cards, e \in Docs \cup {NoDoc}, t \in Int :
          k = cache[i].card /\ e = cache[i].doc /\ t = cache[i].at - ReadTime
    BY <2>1, <2>2
  <2>5. Current(k, e, t)'
    BY <2>2, <2>3, <2>4, StoreKeepsCurrent
  <2> QED
    BY <2>1, <2>4, <2>5 DEF Aged, Current
<1>4. LookupsInTime'
  BY DEF LookupsInTime, Waiting
<1>5. AnswersAged'
  <2> SUFFICES ASSUME NEW l \in Lookups, lookup[l].stage = "answered", lookup[l].doc.found
               PROVE  Current(lookup[l].card, lookup[l].doc, lookup[l].at)'
    BY DEF AnswersAged
  <2>1. /\ lookup[l].card \in Cards /\ lookup[l].at \in Int /\ lookup[l].at <= now
        /\ lookup[l].doc \in Docs \cup {NoDoc}
    BY DEF LookupsInTime, Waiting, CacheTypeOK
  <2>2. Current(lookup[l].card, lookup[l].doc, lookup[l].at)
    BY DEF AnswersAged
  <2>3. PICK k \in Cards, e \in Docs \cup {NoDoc}, t \in Int :
          k = lookup[l].card /\ e = lookup[l].doc /\ t = lookup[l].at
    BY <2>1
  <2>4. Current(k, e, t)'
    BY <2>1, <2>2, <2>3, StoreKeepsCurrent
  <2> QED
    BY <2>3, <2>4 DEF Current
<1>6. BoundedStaleness'
  BY DEF Store, NothingGiven, NoDoc, BoundedStaleness
<1> QED
  BY <1>2, <1>3, <1>4, <1>5, <1>6

\* As long as clock and documents stay, so does what was current.
LEMMA NothingAges ==
  ASSUME UNCHANGED <<now, doc, past>>
  PROVE  /\ \A c, d, t : Current(c, d, t)' <=> Current(c, d, t)
         /\ \A e : Aged(e)' <=> Aged(e)
BY DEF Current, Aged

\* A step that gives an entry of the cache, or an answer of Cosmos, gives what was current.
LEMMA HitKeeps ==
  ASSUME CacheInv, NEW l \in Lookups, NEW c \in Cards, Hit(l, c)
  PROVE  CacheInv'
<1> USE DEF CacheInv
<1> DEFINE e == EntryOf(c)
<1>1. /\ e.card = c /\ e \in Entries /\ Aged(e) /\ Held(c) # {} /\ now - e.at <= Ttl
      /\ now \in Nat /\ ReadTime \in Nat /\ Ttl \in Nat /\ e.at \in Int
  <2>1. PICK i \in 1 .. Len(cache) : e = cache[i] /\ e.card = c
    BY EntryFacts DEF Hit
  <2> QED
    BY <2>1, CacheFacts DEF CacheAged, Hit, Fresh, Entries
<1> HIDE DEF e
<1>2. /\ cache' \in Seq(Entries) /\ Unique(cache') /\ Len(cache') <= MaxSize
      /\ \A i \in 1 .. Len(cache') : cache'[i] = e \/ \E j \in 1 .. Len(cache) : cache'[i] = cache[j]
  <2> DEFINE left == Without(cache, c)
  <2>1. /\ left \in Seq(Entries) /\ Unique(left) /\ From(left, cache)
        /\ \A i \in 1 .. Len(left) : left[i].card # c
        /\ Len(left) = Len(cache) - 1
    <3>1. \E i \in 1 .. Len(cache) : cache[i].card = c
      BY <1>1, CacheFacts DEF Held
    <3> QED
      BY <3>1, CacheFacts, WithoutCard
  <2>2. cache' = Append(left, e)
    BY DEF Hit, Touched, e
  <2> HIDE DEF left
  <2>3. /\ cache' \in Seq(Entries) /\ Unique(cache') /\ Len(cache') = Len(left) + 1
        /\ \A i \in 1 .. Len(cache') : cache'[i] = e \/ \E j \in 1 .. Len(left) : cache'[i] = left[j]
    BY <1>1, <2>1, <2>2, AddedEntry
  <2>4. Len(cache') <= MaxSize
    BY <2>1, <2>3, CacheFacts DEF CacheTypeOK
  <2> QED
    BY <2>1, <2>3, <2>4 DEF From
<1>3. /\ lookup' = [lookup EXCEPT ![l] = Idle] /\ given' = [card |-> c, doc |-> e.doc]
      /\ UNCHANGED <<now, doc, past, changes>>
  BY DEF Hit, Answer, e
<1>4. CacheTypeOK'
  <2>1. lookup' \in [Lookups -> [stage : LookupStages, card : Cards \cup {NoCardYet},
                                 at : 0 .. MaxTime, doc : Docs \cup {NoDoc}]]
    BY <1>3, CacheConstantsOK DEF CacheTypeOK, Idle, LookupStages
  <2>2. given' \in [card : Cards \cup {NoCardYet}, doc : Docs \cup {NoDoc}]
    BY <1>1, <1>3 DEF Entries
  <2>3. DOMAIN cache' = 1 .. Len(cache')
    BY <1>2, LenProperties
  <2> QED
    BY <1>2, <1>3, <2>1, <2>2, <2>3 DEF CacheTypeOK, Unique
<1>5. CacheAged'
  BY <1>1, <1>2, <1>3, NothingAges DEF CacheAged
<1>6. LookupsInTime'
  BY <1>3 DEF LookupsInTime, Waiting, CacheTypeOK, Idle
<1>7. AnswersAged'
  BY <1>3, NothingAges DEF AnswersAged, CacheTypeOK, Idle
<1>8. BoundedStaleness'
  <2>1. CASE e.doc = doc[c]
    BY <1>1, <1>3, <2>1 DEF BoundedStaleness
  <2>2. CASE \E p \in past : p.card = c /\ p.doc = e.doc /\ p.until >= e.at - ReadTime
    <3>1. PICK p \in past : p.card = c /\ p.doc = e.doc /\ p.until >= e.at - ReadTime
      BY <2>2
    <3>2. p.until \in Int
      BY DEF CacheTypeOK
    <3>3. p.until >= now - Ttl - ReadTime
      BY <1>1, <3>1, <3>2
    <3> QED
      BY <1>3, <3>1, <3>3 DEF BoundedStaleness
  <2> QED
    BY <1>1, <2>1, <2>2 DEF Aged, Current
<1> QED
  BY <1>4, <1>5, <1>6, <1>7, <1>8

LEMMA MissKeeps ==
  ASSUME CacheInv, NEW l \in Lookups, NEW c \in Cards, Miss(l, c)
  PROVE  CacheInv'
<1> USE DEF CacheInv
<1>1. /\ cache' \in Seq(Entries) /\ Unique(cache') /\ From(cache', cache) /\ Len(cache') <= Len(cache)
      /\ Len(cache) \in Nat /\ Len(cache) <= MaxSize /\ now \in Nat /\ ReadTime \in Nat
  <2>1. /\ cache' = Without(cache, c) /\ cache \in Seq(Entries) /\ Unique(cache)
        /\ Len(cache) \in Nat /\ Len(cache) <= MaxSize /\ now \in Nat /\ ReadTime \in Nat
    BY CacheFacts DEF Miss, CacheTypeOK
  <2> QED
    BY <2>1, WithoutCard
<1>2. /\ lookup' = [lookup EXCEPT ![l] = [stage |-> "sent", card |-> c, at |-> now, doc |-> NoDoc]]
      /\ given' = NothingGiven /\ UNCHANGED <<now, doc, past, changes>>
  BY DEF Miss
<1>3. CacheTypeOK'
  <2>1. lookup' \in [Lookups -> [stage : LookupStages, card : Cards \cup {NoCardYet},
                                 at : 0 .. MaxTime, doc : Docs \cup {NoDoc}]]
    BY <1>2 DEF CacheTypeOK, LookupStages
  <2>2. given' \in [card : Cards \cup {NoCardYet}, doc : Docs \cup {NoDoc}]
    BY <1>2 DEF NothingGiven
  <2>3. DOMAIN cache' = 1 .. Len(cache') /\ Len(cache') \in Nat /\ MaxSize \in Nat
    BY <1>1, LenProperties, CacheConstantsOK
  <2> QED
    BY <1>1, <1>2, <2>1, <2>2, <2>3 DEF CacheTypeOK, Unique
<1>4. CacheAged'
  BY <1>1, <1>2, NothingAges DEF CacheAged, From
<1>5. LookupsInTime'
  BY <1>1, <1>2 DEF LookupsInTime, Waiting, CacheTypeOK
<1>6. AnswersAged'
  BY <1>2, NothingAges DEF AnswersAged, CacheTypeOK
<1>7. BoundedStaleness'
  BY <1>2 DEF BoundedStaleness, NothingGiven, NoDoc
<1> QED
  BY <1>3, <1>4, <1>5, <1>6, <1>7

LEMMA RepliesKeeps ==
  ASSUME CacheInv, NEW l \in Lookups, CosmosReplies(l)
  PROVE  CacheInv'
<1> USE DEF CacheInv
<1>1. PICK d \in {doc[lookup[l].card], NoDoc} :
        lookup' = [lookup EXCEPT ![l].stage = "answered", ![l].doc = d]
  BY DEF CosmosReplies
<1>2. lookup[l].stage = "sent" /\ given' = NothingGiven /\ UNCHANGED <<now, doc, cache, past, changes>>
  BY DEF CosmosReplies
<1>3. lookup[l].card \in Cards
  BY <1>2 DEF LookupsInTime, Waiting
<1>4. CacheTypeOK'
  <2>1. d \in Docs \cup {NoDoc}
    BY <1>3 DEF CacheTypeOK
  <2>2. lookup' \in [Lookups -> [stage : LookupStages, card : Cards \cup {NoCardYet},
                                 at : 0 .. MaxTime, doc : Docs \cup {NoDoc}]]
    <3> DEFINE Rec == [stage : LookupStages, card : Cards \cup {NoCardYet}, at : 0 .. MaxTime,
                       doc : Docs \cup {NoDoc}]
    <3>1. lookup \in [Lookups -> Rec] /\ "answered" \in LookupStages
      BY DEF CacheTypeOK, LookupStages
    <3>2. [lookup EXCEPT ![l].stage = "answered"] \in [Lookups -> Rec]
      BY <3>1
    <3>3. lookup' = [[lookup EXCEPT ![l].stage = "answered"] EXCEPT ![l].doc = d]
      BY <1>1, Zenon
    <3> QED
      BY <2>1, <3>2, <3>3
  <2>3. given' \in [card : Cards \cup {NoCardYet}, doc : Docs \cup {NoDoc}]
    BY <1>2 DEF NothingGiven
  <2> QED
    BY <1>2, <2>2, <2>3 DEF CacheTypeOK
<1>5. CacheAged'
  BY <1>2, NothingAges DEF CacheAged
<1>6. LookupsInTime'
  BY <1>1, <1>2 DEF LookupsInTime, Waiting, CacheTypeOK
<1>7. AnswersAged'
  <2>1. d.found => Current(lookup[l].card, d, lookup[l].at)
    BY DEF Current, NoDoc
  <2>2. ASSUME NEW k \in Lookups, lookup'[k].stage = "answered", lookup'[k].doc.found
        PROVE  Current(lookup'[k].card, lookup'[k].doc, lookup'[k].at)
    <3>1. CASE k = l
      BY <1>1, <2>1, <2>2, <3>1 DEF CacheTypeOK
    <3>2. CASE k # l
      BY <1>1, <2>2, <3>2 DEF CacheTypeOK, AnswersAged
    <3> QED
      BY <3>1, <3>2
  <2> QED
    BY <1>2, <2>2, NothingAges DEF AnswersAged
<1>8. BoundedStaleness'
  BY <1>2 DEF BoundedStaleness, NothingGiven, NoDoc
<1> QED
  BY <1>4, <1>5, <1>6, <1>7, <1>8

\* A lookup that goes on stores what was current when it began, which is not long ago.
LEMMA ResumeKeeps ==
  ASSUME CacheInv, NEW l \in Lookups, Resume(l)
  PROVE  CacheInv'
<1> USE DEF CacheInv
<1> DEFINE c == lookup[l].card
           d == lookup[l].doc
           e == [card |-> c, at |-> now, doc |-> d]
<1>1. /\ c \in Cards /\ d \in Docs \cup {NoDoc} /\ now \in Nat /\ ReadTime \in Nat /\ Ttl \in Nat
      /\ lookup[l].at \in Int /\ lookup[l].at <= now /\ now - lookup[l].at <= ReadTime
      /\ d.found => Current(c, d, lookup[l].at)
  BY CacheFacts DEF Resume, LookupsInTime, Waiting, AnswersAged, CacheTypeOK
<1>2. /\ lookup' = [lookup EXCEPT ![l] = Idle] /\ given' = [card |-> c, doc |-> d]
      /\ cache' = IF d.found THEN Evicted(Append(Without(cache, c), e)) ELSE cache
      /\ UNCHANGED <<now, doc, past, changes>>
  BY DEF Resume, Answer
<1> HIDE DEF c, d
<1>3. d.found => d \in Docs
  BY <1>1 DEF NoDoc
<1>4. /\ cache' \in Seq(Entries) /\ Unique(cache') /\ Len(cache') <= MaxSize
      /\ \A i \in 1 .. Len(cache') :
           (d.found /\ cache'[i] = e) \/ \E j \in 1 .. Len(cache) : cache'[i] = cache[j]
  <2>1. CASE d.found
    <3> DEFINE left == Without(cache, c)
               more == Append(left, e)
    <3>1. /\ left \in Seq(Entries) /\ Unique(left) /\ From(left, cache)
          /\ \A i \in 1 .. Len(left) : left[i].card # c
      BY CacheFacts, WithoutCard
    <3>2. e \in Entries /\ e.card = c
      BY <1>1, <1>3, <2>1 DEF Entries
    <3> HIDE DEF left, e
    <3>3. /\ more \in Seq(Entries) /\ Unique(more)
          /\ \A i \in 1 .. Len(more) : more[i] = e \/ \E j \in 1 .. Len(left) : more[i] = left[j]
      BY <3>1, <3>2, AddedEntry
    <3> HIDE DEF more
    <3>4. cache' = Evicted(more)
      BY <1>2, <2>1 DEF more, left
    <3>5. cache' \in Seq(Entries) /\ Unique(cache') /\ From(cache', more) /\ Len(cache') <= MaxSize
      BY <3>3, <3>4, EvictedEntries
    <3> QED
      BY <2>1, <3>1, <3>3, <3>5 DEF From
  <2>2. CASE ~d.found
    BY <1>2, <2>2, CacheFacts DEF CacheTypeOK
  <2> QED
    BY <2>1, <2>2
<1>5. d.found => Aged(e)
  <2>1. \A t \in Int : t >= now - ReadTime => t >= e.at - ReadTime
    OBVIOUS
  <2>2. ASSUME NEW p \in past, p.until >= lookup[l].at PROVE p.until >= e.at - ReadTime
    BY <1>1, <2>2 DEF CacheTypeOK
  <2> QED
    BY <1>1, <2>2 DEF Aged, Current
<1>6. CacheTypeOK'
  <2>1. lookup' \in [Lookups -> [stage : LookupStages, card : Cards \cup {NoCardYet},
                                 at : 0 .. MaxTime, doc : Docs \cup {NoDoc}]]
    BY <1>2, CacheConstantsOK DEF CacheTypeOK, Idle, LookupStages
  <2>2. given' \in [card : Cards \cup {NoCardYet}, doc : Docs \cup {NoDoc}]
    BY <1>1, <1>2
  <2>3. DOMAIN cache' = 1 .. Len(cache')
    BY <1>4, LenProperties
  <2> QED
    BY <1>2, <1>4, <2>1, <2>2, <2>3 DEF CacheTypeOK, Unique
<1>7. CacheAged'
  <2> HIDE DEF e
  <2> QED
    BY <1>2, <1>4, <1>5, NothingAges DEF CacheAged
<1>8. LookupsInTime'
  BY <1>2 DEF LookupsInTime, Waiting, CacheTypeOK, Idle
<1>9. AnswersAged'
  BY <1>2, NothingAges DEF AnswersAged, CacheTypeOK, Idle
<1>10. BoundedStaleness'
  <2> SUFFICES ASSUME d.found
               PROVE  \/ d = doc[c]
                      \/ \E p \in past : p.card = c /\ p.doc = d /\ p.until >= now - Ttl - ReadTime
    BY <1>2 DEF BoundedStaleness
  <2>1. ASSUME NEW p \in past, p.until >= lookup[l].at PROVE p.until >= now - Ttl - ReadTime
    BY <1>1, <2>1 DEF CacheTypeOK
  <2> QED
    BY <1>1, <2>1 DEF Current
<1> QED
  BY <1>6, <1>7, <1>8, <1>9, <1>10

LEMMA TickKeeps ==
  ASSUME CacheInv, Tick
  PROVE  CacheInv'
<1> USE DEF CacheInv
<1>1. /\ now \in Nat /\ now' = now + 1 /\ now < MaxTime /\ MaxTime \in Nat /\ ReadTime \in Nat
      /\ given' = NothingGiven /\ UNCHANGED <<doc, cache, lookup, past, changes>>
  BY CacheFacts, CacheConstantsOK DEF Tick
<1>2. CacheTypeOK'
  <2>1. given' \in [card : Cards \cup {NoCardYet}, doc : Docs \cup {NoDoc}] /\ now' \in 0 .. MaxTime
    BY <1>1 DEF NothingGiven
  <2> QED
    BY <1>1, <2>1 DEF CacheTypeOK
<1>3. CacheAged'
  <2> SUFFICES ASSUME NEW i \in 1 .. Len(cache) PROVE Aged(cache[i])'
    BY <1>1 DEF CacheAged
  <2>1. cache[i].at \in Int /\ Aged(cache[i])
    BY CacheFacts DEF CacheAged, Entries
  <2> QED
    BY <1>1, <2>1 DEF Aged, Current
<1>4. LookupsInTime'
  <2> SUFFICES ASSUME NEW l \in Lookups, Waiting(l)
               PROVE  lookup[l].card \in Cards /\ lookup[l].at <= now' /\ now' - lookup[l].at <= ReadTime
    BY <1>1 DEF LookupsInTime, Waiting
  <2>1. lookup[l].at \in Int /\ lookup[l].card \in Cards /\ lookup[l].at <= now
    BY DEF LookupsInTime, CacheTypeOK
  <2>2. now - lookup[l].at < ReadTime
    BY DEF Tick
  <2> QED
    BY <1>1, <2>1, <2>2
<1>5. AnswersAged'
  BY <1>1 DEF AnswersAged, Current
<1>6. BoundedStaleness'
  BY <1>1 DEF BoundedStaleness, NothingGiven, NoDoc
<1> QED
  BY <1>2, <1>3, <1>4, <1>5, <1>6

LEMMA ManageKeeps ==
  ASSUME CacheInv, NEW c \in Cards, NEW d \in Docs, Manage(c, d)
  PROVE  CacheInv'
<1>1. changes' \in 0 .. MaxChanges
  BY CacheConstantsOK DEF CacheInv, CacheTypeOK, Manage
<1> QED
  BY <1>1, StoreKeeps DEF Manage

LEMMA CacheKeeps ==
  ASSUME CacheInv, CacheNext
  PROVE  CacheInv'
BY HitKeeps, MissKeeps, RepliesKeeps, ResumeKeeps, TickKeeps, ManageKeeps DEF CacheNext
-----------------------------------------------------------------------------
\* What the job holds of a card is what Cosmos has, as long as nobody has touched it.
HeldIsCurrent == held # NoneHeld /\ ~touched => held.doc = doc[held.card]

\* The inductive invariant of cache and job.
PublishInv == CacheInv /\ CardTypeOK /\ HeldIsCurrent

LEMMA PublishInit == CardInit => PublishInv
<1> SUFFICES ASSUME CardInit PROVE PublishInv
  OBVIOUS
<1>1. CacheTypeOK
  <2>1. NoDoc \in Docs \cup {NoDoc} /\ [found |-> TRUE, blocked |-> FALSE, ring |-> FALSE] \in Docs
    BY DEF Docs
  <2>2. doc \in [Cards -> Docs \cup {NoDoc}]
    BY <2>1 DEF CardInit, CacheInit
  <2>3. cache \in Seq(Entries) /\ Len(cache) = 0 /\ DOMAIN cache = {}
    BY EmptySeq DEF CardInit, CacheInit
  <2>4. lookup \in [Lookups -> [stage : LookupStages, card : Cards \cup {NoCardYet},
                                at : 0 .. MaxTime, doc : Docs \cup {NoDoc}]]
    BY CacheConstantsOK DEF CardInit, CacheInit, Idle, LookupStages
  <2> QED
    BY <2>2, <2>3, <2>4, CacheConstantsOK DEF CardInit, CacheInit, CacheTypeOK, NothingGiven
<1>2. CacheAged /\ LookupsInTime /\ AnswersAged /\ BoundedStaleness
  BY EmptySeq DEF CardInit, CacheInit, CacheAged, LookupsInTime, AnswersAged, BoundedStaleness,
                  Waiting, Idle, NothingGiven, NoDoc
<1> QED
  BY <1>1, <1>2 DEF PublishInv, CacheInv, CardTypeOK, HeldIsCurrent, CardInit

\* A document whose ring is patched is a document, and as blocked as it was.
LEMMA RingPatched ==
  ASSUME NEW d \in Docs, NEW b \in BOOLEAN
  PROVE  [d EXCEPT !.ring = b] \in Docs /\ [d EXCEPT !.ring = b].blocked = d.blocked
<1> DEFINE e == [d EXCEPT !.ring = b]
<1>1. DOMAIN d = {"found", "blocked", "ring"} /\ d.found \in {TRUE} /\ d.blocked \in BOOLEAN
  BY DEF Docs
<1>2. DOMAIN e = {"found", "blocked", "ring"} /\ e.found = d.found /\ e.blocked = d.blocked
  BY <1>1
<1>3. e.ring = b
  BY <1>1
<1>4. e = [k \in {"found", "blocked", "ring"} |-> e[k]]
  BY <1>2
<1> HIDE DEF e
<1>5. e \in Docs
  BY <1>1, <1>2, <1>3, <1>4 DEF Docs
<1> QED
  BY <1>2, <1>5 DEF e

\* The cards of the job are cards, and what it writes is a document, as blocked as the one it read.
LEMMA PatchedIsDoc ==
  ASSUME NEW c \in Rows, NEW d \in Docs \cup {NoDoc}
  PROVE  c \in Cards /\ Patched(c, d) \in Docs /\ Patched(c, d).blocked = d.blocked
<1>1. c \in Cards /\ Rings[c] \in BOOLEAN
  BY RingsOK DEF Rows
<1>2. CASE d.found
  <2>1. d \in Docs
    BY <1>2 DEF NoDoc
  <2>2. Patched(c, d) = [d EXCEPT !.ring = Rings[c]]
    BY <1>2 DEF Patched
  <2> QED
    BY <1>1, <2>1, <2>2, RingPatched
<1>3. CASE ~d.found
  <2>1. d = NoDoc
    BY <1>3 DEF Docs
  <2>2. PICK b \in BOOLEAN : Rings[c] = b
    BY <1>1
  <2> QED
    BY <1>1, <1>3, <2>1, <2>2 DEF Patched, Docs, NoDoc
<1> QED
  BY <1>2, <1>3

LEMMA PublishReadKeeps ==
  ASSUME PublishInv, NEW c \in Rows, PublishRead(c)
  PROVE  PublishInv'
<1>1. CacheInv'
  BY DEF PublishInv, PublishRead, cacheVars, CacheInv, CacheTypeOK, CacheAged, LookupsInTime,
         AnswersAged, BoundedStaleness, Aged, Current, Waiting
<1>2. c \in Cards /\ doc[c] \in Docs \cup {NoDoc} /\ UNCHANGED doc
  BY RingsOK DEF PublishInv, CacheInv, CacheTypeOK, PublishRead, cacheVars, Rows
<1>3. CASE held' = [card |-> c, doc |-> doc[c]] /\ UNCHANGED todo
  <2>1. held'.card = c /\ held'.doc = doc'[c] /\ c \in todo' /\ touched' = FALSE
    BY <1>2, <1>3 DEF PublishRead
  <2>2. CardTypeOK'
    BY <1>1, <1>2, <1>3, <2>1 DEF PublishInv, CacheInv, CardTypeOK
  <2> QED
    BY <1>1, <2>1, <2>2 DEF PublishInv, HeldIsCurrent
<1>4. CASE todo' = todo \ {c} /\ UNCHANGED held
  BY <1>1, <1>4 DEF PublishInv, PublishRead, CacheInv, CardTypeOK, HeldIsCurrent
<1> QED
  BY <1>3, <1>4 DEF PublishRead

LEMMA PublishUpsertKeeps ==
  ASSUME PublishInv, PublishUpsert
  PROVE  PublishInv'
<1>1. held.card \in todo /\ held.card \in Rows /\ held.doc \in Docs \cup {NoDoc}
  BY DEF PublishInv, CardTypeOK, PublishUpsert
<1>2. CacheInv'
  <2>1. changes' \in 0 .. MaxChanges
    BY DEF PublishInv, CacheInv, CacheTypeOK, PublishUpsert
  <2>2. held.card \in Cards /\ Patched(held.card, held.doc) \in Docs
    BY <1>1, PatchedIsDoc
  <2> QED
    BY <2>1, <2>2, StoreKeeps DEF PublishInv, PublishUpsert
<1> QED
  BY <1>2 DEF PublishInv, CacheInv, CardTypeOK, HeldIsCurrent, PublishUpsert

LEMMA PublishNext == PublishInv /\ [CardNext]_cardVars => PublishInv'
<1> SUFFICES ASSUME PublishInv, [CardNext]_cardVars PROVE PublishInv'
  OBVIOUS
<1>1. CASE PublishFails
  <2>1. CacheInv'
    BY <1>1 DEF PublishInv, PublishFails, cacheVars, CacheInv, CacheTypeOK, CacheAged,
                LookupsInTime, AnswersAged, BoundedStaleness, Aged, Current, Waiting
  <2> QED
    BY <1>1, <2>1 DEF PublishInv, PublishFails, CacheInv, CardTypeOK, HeldIsCurrent
<1>2. CASE ElseNext
  <2>1. CacheInv'
    BY <1>2, CacheKeeps DEF PublishInv, ElseNext
  <2>2. touched' \in BOOLEAN /\ UNCHANGED <<todo, held>>
    BY <1>2 DEF ElseNext
  <2>3. HeldIsCurrent'
    BY <1>2 DEF PublishInv, ElseNext, HeldIsCurrent
  <2> QED
    BY <2>1, <2>2, <2>3 DEF PublishInv, CacheInv, CardTypeOK
<1>3. CASE UNCHANGED cardVars
  BY <1>3 DEF PublishInv, cardVars, cacheVars, publishVars, CacheInv, CacheTypeOK, CacheAged,
              LookupsInTime, AnswersAged, BoundedStaleness, Aged, Current, Waiting, CardTypeOK,
              HeldIsCurrent
<1> QED
  BY <1>1, <1>2, <1>3, PublishReadKeeps, PublishUpsertKeeps DEF CardNext

\* Cache and job keep their invariant, whatever order the lookups, the changes and the upserts come in.
THEOREM PublishInductive == CardSpec => []PublishInv
BY PublishInit, PublishNext, PTL DEF CardSpec

\* The types of cache, lookups and job, for every number of them and every size of the cache.
THEOREM CardTypesCorrect == CardSpec => []CardTypeOK
<1>1. PublishInv => CardTypeOK
  BY DEF PublishInv
<1> QED
  BY <1>1, PublishInductive, PTL

\* The scoring is given no document older than an entry's lifetime and a read, however many
\* lookups of a card overlap (FeatureLookup.get_card, AsyncTTLCache).
THEOREM StalenessIsBounded == CardSpec => []BoundedStaleness
<1>1. PublishInv => BoundedStaleness
  BY DEF PublishInv, CacheInv
<1> QED
  BY <1>1, PublishInductive, PTL

\* Publishing changes of a document what it publishes, unless the document was changed between
\* the read and the upsert of the job (publish).
THEOREM PublishingKeepsTheRest == CardSpec => PublishKeepsTheRest
<1>1. ASSUME PublishInv, CardNext, NEW c \in Cards, todo' # todo, doc'[c].blocked # doc[c].blocked
      PROVE  touched /\ held.card = c
  <2>1. CASE PublishUpsert
    <3>1. doc' = [doc EXCEPT ![held.card] = Patched(held.card, held.doc)] /\ DOMAIN doc = Cards
      BY <1>1, <2>1 DEF PublishUpsert, Store, PublishInv, CacheInv, CacheTypeOK
    <3>2. held.card = c
      BY <1>1, <3>1
    <3>3. ASSUME ~touched PROVE FALSE
      <4>1. held.doc = doc[c] /\ doc[c] \in Docs \cup {NoDoc} /\ doc'[c] = Patched(c, doc[c])
        BY <1>1, <2>1, <3>1, <3>2, <3>3 DEF PublishInv, HeldIsCurrent, PublishUpsert, CacheInv,
                                            CacheTypeOK
      <4>2. c \in Rows
        BY <2>1, <3>2, <1>1 DEF PublishInv, CardTypeOK, PublishUpsert
      <4> QED
        BY <1>1, <4>1, <4>2, PatchedIsDoc
    <3> QED
      BY <3>2, <3>3
  <2>2. CASE \E k \in Rows : PublishRead(k)
    BY <1>1, <2>2 DEF PublishRead, cacheVars
  <2>3. CASE PublishFails \/ ElseNext
    BY <1>1, <2>3 DEF PublishFails, ElseNext, cacheVars
  <2> QED
    BY <1>1, <2>1, <2>2, <2>3 DEF CardNext
<1>2. PublishInv /\ [CardNext]_cardVars =>
        [\A c \in Cards : todo' # todo /\ doc'[c].blocked # doc[c].blocked =>
                            touched /\ held.card = c]_cardVars
  BY <1>1
<1> QED
  BY <1>2, PublishInductive, PTL DEF CardSpec, PublishKeepsTheRest
-----------------------------------------------------------------------------
\* The cards used last are those of the entries, in the same order.
SameOrder(cards, entries) ==
  /\ cards \in Seq(Cards) /\ Len(cards) = Len(entries)
  /\ \A i \in 1 .. Len(entries) : cards[i] = entries[i].card

UsedInOrder == SameOrder(used, cache)

\* A card and its entry are removed at the same position.
LEMMA RemovedInOrder ==
  ASSUME NEW s \in Seq(Entries), NEW u, SameOrder(u, s), NEW c
  PROVE  SameOrder(WithoutOne(u, {i \in DOMAIN u : u[i] = c}), Without(s, c))
<1> DEFINE at == {i \in 1 .. Len(s) : s[i].card = c}
<1>1. /\ Len(s) \in Nat /\ DOMAIN s = 1 .. Len(s) /\ DOMAIN u = 1 .. Len(s)
      /\ u \in Seq(Cards) /\ Len(u) = Len(s)
      /\ \A i \in 1 .. Len(s) : u[i] = s[i].card
  BY LenProperties DEF SameOrder
<1>2. {i \in DOMAIN u : u[i] = c} = at /\ {i \in DOMAIN s : s[i].card = c} = at
  BY <1>1
<1> HIDE DEF at
<1>3. CASE at = {}
  BY <1>2, <1>3 DEF Without, WithoutOne
<1>4. CASE at # {}
  <2> DEFINE k == CHOOSE i \in at : TRUE
  <2>1. k \in 1 .. Len(s)
    BY <1>4 DEF at
  <2>2. /\ WithoutOne(u, {i \in DOMAIN u : u[i] = c}) = RemoveAt(u, k)
        /\ Without(s, c) = RemoveAt(s, k)
    BY <1>2, <1>4 DEF Without, WithoutOne
  <2> HIDE DEF k
  <2>3. /\ Len(RemoveAt(s, k)) = Len(s) - 1
        /\ \A i \in 1 .. Len(s) - 1 : RemoveAt(s, k)[i] = IF i < k THEN s[i] ELSE s[i + 1]
    BY <2>1, RemovedElement
  <2>4. /\ RemoveAt(u, k) \in Seq(Cards) /\ Len(RemoveAt(u, k)) = Len(s) - 1
        /\ \A i \in 1 .. Len(s) - 1 : RemoveAt(u, k)[i] = IF i < k THEN u[i] ELSE u[i + 1]
    BY <1>1, <2>1, RemovedElement
  <2>5. \A i \in 1 .. Len(s) - 1 : RemoveAt(u, k)[i] = RemoveAt(s, k)[i].card
    BY <1>1, <2>1, <2>3, <2>4
  <2> QED
    BY <1>1, <2>2, <2>3, <2>4, <2>5 DEF SameOrder
<1> QED
  BY <1>3, <1>4

\* A card and its entry are added at the end.
LEMMA AddedInOrder ==
  ASSUME NEW s \in Seq(Entries), NEW u, SameOrder(u, s), NEW e \in Entries
  PROVE  SameOrder(Append(u, e.card), Append(s, e))
<1>1. /\ Len(s) \in Nat /\ Len(Append(s, e)) = Len(s) + 1
      /\ (\A i \in 1 .. Len(s) : Append(s, e)[i] = s[i]) /\ Append(s, e)[Len(s) + 1] = e
  BY LenProperties, AppendProperties
<1>2. u \in Seq(Cards) /\ Len(u) = Len(s) /\ e.card \in Cards
  BY DEF SameOrder, Entries
<1>3. /\ Append(u, e.card) \in Seq(Cards) /\ Len(Append(u, e.card)) = Len(s) + 1
      /\ (\A i \in 1 .. Len(s) : Append(u, e.card)[i] = u[i])
      /\ Append(u, e.card)[Len(s) + 1] = e.card
  BY <1>2, AppendProperties
<1> QED
  BY <1>1, <1>3 DEF SameOrder

\* The card used longest ago goes when its entry does.
LEMMA OldestGoes ==
  ASSUME NEW s \in Seq(Entries), NEW u, SameOrder(u, s), Len(s) = MaxSize, NEW e \in Entries
  PROVE  SameOrder(Append(Tail(u), e.card), Evicted(Append(s, e)))
<1> DEFINE more == Append(s, e)
           left == Evicted(more)
<1>1. /\ MaxSize \in Nat \ {0} /\ more \in Seq(Entries) /\ Len(more) = MaxSize + 1
      /\ (\A i \in 1 .. MaxSize : more[i] = s[i]) /\ more[MaxSize + 1] = e
  BY AppendProperties, CacheConstantsOK
<1> HIDE DEF more
<1>2. /\ Len(left) = MaxSize
      /\ \A i \in 1 .. MaxSize : left[i] = more[i + 1]
  <2>1. left = SubSeq(more, 2, MaxSize + 1)
    BY <1>1 DEF Evicted
  <2>2. \A i \in 2 .. MaxSize + 1 : more[i] \in Entries
    BY <1>1, ElementOfSeq
  <2>3. /\ Len(left) = IF 2 <= MaxSize + 1 THEN MaxSize + 1 - 2 + 1 ELSE 0
        /\ \A i \in 1 .. MaxSize + 1 - 2 + 1 : left[i] = more[2 + i - 1]
    BY <1>1, <2>1, <2>2, SubSeqProperties
  <2> HIDE DEF left
  <2> QED
    BY <1>1, <2>3
<1>3. /\ u \in Seq(Cards) /\ Len(u) = MaxSize /\ e.card \in Cards /\ u # << >>
      /\ \A i \in 1 .. MaxSize : u[i] = s[i].card
  BY <1>1, EmptySeq DEF SameOrder, Entries
<1>4. /\ Tail(u) \in Seq(Cards) /\ Len(Tail(u)) = MaxSize - 1
      /\ \A i \in 1 .. MaxSize - 1 : Tail(u)[i] = u[i + 1]
  BY <1>3, HeadTailProperties
<1>5. /\ Append(Tail(u), e.card) \in Seq(Cards) /\ Len(Append(Tail(u), e.card)) = MaxSize
      /\ (\A i \in 1 .. MaxSize - 1 : Append(Tail(u), e.card)[i] = u[i + 1])
      /\ Append(Tail(u), e.card)[MaxSize] = e.card
  BY <1>1, <1>3, <1>4, AppendProperties
<1> HIDE DEF left
<1>6. ASSUME NEW i \in 1 .. MaxSize PROVE Append(Tail(u), e.card)[i] = left[i].card
  <2>1. CASE i = MaxSize
    BY <1>1, <1>2, <1>5, <2>1
  <2>2. CASE i \in 1 .. MaxSize - 1
    <3>1. i + 1 \in 1 .. MaxSize
      BY <1>1, <2>2
    <3> QED
      BY <1>1, <1>2, <1>3, <1>5, <2>2, <3>1
  <2>3. MaxSize \in Nat
    BY <1>1
  <2>4. i = MaxSize \/ i \in 1 .. MaxSize - 1
    BY <2>3
  <2> QED
    BY <2>1, <2>2, <2>4
<1> QED
  BY <1>2, <1>5, <1>6 DEF SameOrder, left, more

LEMMA UsedInOrderInit == CardInit => UsedInOrder
BY EmptySeq DEF CardInit, CacheInit, UsedInOrder, SameOrder

LEMMA HitInOrder ==
  ASSUME PublishInv, UsedInOrder, NEW l \in Lookups, NEW c \in Cards, Hit(l, c)
  PROVE  UsedInOrder'
<1> DEFINE e == EntryOf(c)
           left == Without(cache, c)
           others == OthersUsed(c)
<1>1. /\ CacheTypeOK /\ Held(c) # {} /\ cache' = Append(left, e)
      /\ used' = Append(IF Len(others) < MaxSize THEN others ELSE Tail(others), c)
  BY DEF PublishInv, CacheInv, Hit, Touched, Used
<1>2. /\ cache \in Seq(Entries) /\ Unique(cache) /\ Len(cache) \in Nat /\ Len(cache) <= MaxSize
      /\ e.card = c /\ e \in Entries /\ (\E i \in 1 .. Len(cache) : cache[i].card = c)
  <2>1. PICK i \in 1 .. Len(cache) : e = cache[i] /\ e.card = c
    BY <1>1, EntryFacts
  <2> HIDE DEF e
  <2> QED
    BY <1>1, <2>1, CacheFacts DEF CacheTypeOK
<1> HIDE DEF e
<1>3. left \in Seq(Entries) /\ Len(left) = Len(cache) - 1
  BY <1>2, WithoutCard
<1>4. SameOrder(others, left)
  BY <1>2, RemovedInOrder DEF UsedInOrder, OthersUsed
<1> HIDE DEF left, others
<1>5. Len(others) < MaxSize
  BY <1>2, <1>3, <1>4, CacheConstantsOK DEF SameOrder
<1>6. used' = Append(others, e.card)
  BY <1>1, <1>2, <1>5
<1>7. SameOrder(Append(others, e.card), Append(left, e))
  BY <1>2, <1>3, <1>4, AddedInOrder
<1> QED
  BY <1>1, <1>6, <1>7 DEF UsedInOrder, SameOrder

LEMMA MissInOrder ==
  ASSUME PublishInv, UsedInOrder, NEW l \in Lookups, NEW c \in Cards, Miss(l, c)
  PROVE  UsedInOrder'
<1>1. cache \in Seq(Entries) /\ cache' = Without(cache, c) /\ used' = OthersUsed(c)
  BY CacheFacts DEF PublishInv, CacheInv, Miss
<1>2. SameOrder(OthersUsed(c), Without(cache, c))
  BY <1>1, RemovedInOrder DEF UsedInOrder, OthersUsed
<1> QED
  BY <1>1, <1>2 DEF UsedInOrder, SameOrder

LEMMA ResumeInOrder ==
  ASSUME PublishInv, UsedInOrder, NEW l \in Lookups, Resume(l)
  PROVE  UsedInOrder'
<1> DEFINE c == lookup[l].card
           d == lookup[l].doc
           e == [card |-> c, at |-> now, doc |-> d]
           left == Without(cache, c)
           more == Append(left, e)
           others == OthersUsed(c)
<1>1. /\ cache' = IF d.found THEN Evicted(more) ELSE cache
      /\ used' = IF d.found THEN Append(IF Len(others) < MaxSize THEN others ELSE Tail(others), c)
                            ELSE used
  BY DEF Resume, Used
<1>2. CASE ~d.found
  BY <1>1, <1>2 DEF UsedInOrder, SameOrder
<1>3. CASE d.found
  <2>1. /\ cache \in Seq(Entries) /\ Unique(cache) /\ Len(cache) \in Nat /\ Len(cache) <= MaxSize
        /\ c \in Cards /\ d \in Docs \cup {NoDoc} /\ now \in Nat /\ MaxSize \in Nat
    BY CacheFacts, CacheConstantsOK
       DEF PublishInv, CacheInv, CacheTypeOK, Resume, LookupsInTime, Waiting
  <2>2. d \in Docs
    BY <1>3, <2>1 DEF NoDoc
  <2> HIDE DEF c, d
  <2>3. e \in Entries /\ e.card = c
    BY <2>1, <2>2 DEF Entries
  <2> HIDE DEF e
  <2>4. left \in Seq(Entries) /\ Len(left) \in Nat /\ Len(left) <= Len(cache)
    <3>1. left \in Seq(Entries) /\ Len(left) \in {Len(cache) - 1, Len(cache)}
      BY <2>1, WithoutCard
    <3> QED
      BY <2>1, <3>1, LenProperties
  <2>5. SameOrder(others, left)
    BY <2>1, RemovedInOrder DEF UsedInOrder, OthersUsed
  <2> HIDE DEF left, others
  <2>6. more \in Seq(Entries) /\ Len(more) = Len(left) + 1 /\ Len(others) = Len(left)
    BY <2>3, <2>4, <2>5, AppendProperties DEF SameOrder
  <2>7. CASE Len(left) < MaxSize
    <3>1. cache' = more /\ used' = Append(others, e.card)
      <4> HIDE DEF more
      <4> QED
        BY <1>1, <1>3, <2>1, <2>3, <2>4, <2>6, <2>7 DEF Evicted
    <3>2. SameOrder(Append(others, e.card), more)
      BY <2>3, <2>4, <2>5, AddedInOrder
    <3> QED
      BY <3>1, <3>2 DEF UsedInOrder, SameOrder
  <2>8. CASE ~(Len(left) < MaxSize)
    <3>1. Len(left) = MaxSize
      BY <2>1, <2>4, <2>8
    <3>2. cache' = Evicted(more) /\ used' = Append(Tail(others), e.card)
      BY <1>1, <1>3, <2>3, <2>6, <2>8
    <3>3. SameOrder(Append(Tail(others), e.card), Evicted(more))
      BY <2>3, <2>4, <2>5, <3>1, OldestGoes
    <3> QED
      BY <3>2, <3>3 DEF UsedInOrder, SameOrder
  <2> QED
    BY <2>7, <2>8
<1> QED
  BY <1>2, <1>3

LEMMA UsedInOrderNext == PublishInv /\ UsedInOrder /\ [CardNext]_cardVars => UsedInOrder'
<1> SUFFICES ASSUME PublishInv, UsedInOrder, [CardNext]_cardVars PROVE UsedInOrder'
  OBVIOUS
<1>1. CASE UNCHANGED <<cache, used>>
  BY <1>1 DEF UsedInOrder, SameOrder
<1>2. CASE CacheNext
  <2>1. ASSUME NEW l \in Lookups, CosmosReplies(l) PROVE UNCHANGED <<cache, used>>
    BY <2>1 DEF CosmosReplies
  <2>2. ASSUME NEW c \in Cards, NEW d \in Docs, Manage(c, d) PROVE UNCHANGED <<cache, used>>
    BY <2>2 DEF Manage
  <2>3. Tick => UNCHANGED <<cache, used>>
    BY DEF Tick
  <2> QED
    BY <1>1, <1>2, <2>1, <2>2, <2>3, HitInOrder, MissInOrder, ResumeInOrder DEF CacheNext
<1>3. CASE (\E c \in Rows : PublishRead(c)) \/ PublishUpsert \/ PublishFails \/ UNCHANGED cardVars
  BY <1>1, <1>3 DEF PublishRead, PublishUpsert, PublishFails, cardVars, cacheVars
<1> QED
  BY <1>2, <1>3 DEF CardNext, ElseNext

\* The cards used last are in the cache, whatever lookups of other cards overlap with theirs and
\* whichever entries expire (AsyncTTLCache.get and set).
THEOREM UsedLastAreHeld == CardSpec => []RecentlyUsedIsHeld
<1>1. PublishInv /\ UsedInOrder => RecentlyUsedIsHeld
  <2> SUFFICES ASSUME PublishInv, UsedInOrder, NEW i \in DOMAIN used PROVE Held(used[i]) # {}
    BY DEF RecentlyUsedIsHeld
  <2>1. DOMAIN used = 1 .. Len(cache) /\ DOMAIN cache = 1 .. Len(cache)
    BY CacheFacts, LenProperties DEF UsedInOrder, SameOrder, PublishInv, CacheInv
  <2> QED
    BY <2>1 DEF UsedInOrder, SameOrder, Held
<1> QED
  BY <1>1, PublishInductive, UsedInOrderInit, UsedInOrderNext, PTL DEF CardSpec
=============================================================================
