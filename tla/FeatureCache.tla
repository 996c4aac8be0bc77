----------------------------- MODULE FeatureCache -----------------------------
(***************************************************************************)
(* The cache of card documents in the scoring API (features.py), in front  *)
(* of the container cards, for one process.  Lookups run concurrently: one *)
(* that misses waits for Cosmos while others come and go and documents     *)
(* change, and stores what it was given when it goes on.  The lock of the  *)
(* cache is never held across an await, so that get and set are one step.  *)
(***************************************************************************)
EXTENDS SequencesExt, Integers

CONSTANTS
  Cards,      \* ids of cards
  NoCardYet,  \* none of them
  Lookups,    \* requests looking up a card
  MaxSize,    \* entries of the cache
  Ttl,        \* lifetime of an entry
  ReadTime,   \* a read of Cosmos ends within this time
  MaxTime,    \* bound on the clock
  MaxChanges  \* bound on changes of documents

ASSUME CacheConstantsOK ==
  /\ NoCardYet \notin Cards
  /\ MaxSize \in Nat \ {0}
  /\ Ttl \in Nat \ {0}
  /\ ReadTime \in Nat
  /\ MaxTime \in Nat
  /\ MaxChanges \in Nat

VARIABLES
  now,      \* the clock
  doc,      \* doc[c]: the document in Cosmos
  cache,    \* entries, the least recently used first
  lookup,   \* lookup[l]: a request that waits for Cosmos
  given,    \* history: what the last step gave to a request
  past,     \* history: documents that were replaced, and when they last were
  used,     \* history: the MaxSize cards used last, without those whose time was over
  changes   \* how many changes there were

cacheVars == <<now, doc, cache, lookup, given, past, used, changes>>

\* Of a document: whether the card is blocked, and its ring score, high or low.
Docs == [found : {TRUE}, blocked : BOOLEAN, ring : BOOLEAN]
NoDoc == [found |-> FALSE, blocked |-> FALSE, ring |-> FALSE]

Entries == [card : Cards, at : Int, doc : Docs]

\* "sent": Cosmos has the query; "answered": it has replied.
LookupStages == {"idle", "sent", "answered"}
Idle == [stage |-> "idle", card |-> NoCardYet, at |-> 0, doc |-> NoDoc]
NothingGiven == [card |-> NoCardYet, doc |-> NoDoc]

CacheInit ==
  /\ now = 0
  /\ doc \in [Cards -> {NoDoc, [found |-> TRUE, blocked |-> FALSE, ring |-> FALSE]}]
  /\ cache = <<>>
  /\ lookup = [l \in Lookups |-> Idle]
  /\ given = NothingGiven
  /\ past = {}
  /\ used = <<>>
  /\ changes = 0

\* Without the element at the one position in at, if there is one.
WithoutOne(s, at) == IF at = {} THEN s ELSE RemoveAt(s, CHOOSE i \in at : TRUE)

\* A card has one entry at most.
Without(entries, c) == WithoutOne(entries, {i \in DOMAIN entries : entries[i].card = c})

OthersUsed(c) == WithoutOne(used, {i \in DOMAIN used : used[i] = c})

Used(c) ==
  LET others == OthersUsed(c)
  IN Append(IF Len(others) < MaxSize THEN others ELSE Tail(others), c)

Held(c) == {i \in DOMAIN cache : cache[i].card = c}
EntryOf(c) == cache[CHOOSE i \in Held(c) : TRUE]

\* An entry is served to the end of its lifetime.
Fresh(e) == now - e.at <= Ttl

\* Mutant of Touched: a hit does not count as a use.
TouchedNot(c) == cache

\* Mutant of Touched: a hit renews the entry.
TouchedRenews(c) == Append(Without(cache, c), [EntryOf(c) EXCEPT !.at = now])

Touched(c) == Append(Without(cache, c), EntryOf(c))

\* Mutant of Evicted: room is made for one entry only after there were too many.
EvictedLate(entries) ==
  IF Len(entries) > MaxSize + 1 THEN SubSeq(entries, Len(entries) - MaxSize, Len(entries)) ELSE entries

\* The oldest entries go while there are too many.
Evicted(entries) ==
  IF Len(entries) > MaxSize THEN SubSeq(entries, Len(entries) - MaxSize + 1, Len(entries)) ELSE entries

Answer(l, c, d) == lookup' = [lookup EXCEPT ![l] = Idle] /\ given' = [card |-> c, doc |-> d]

\* AsyncTTLCache.get finds an entry.
Hit(l, c) ==
  /\ lookup[l].stage = "idle"
  /\ Held(c) # {} /\ Fresh(EntryOf(c))
  /\ cache' = Touched(c)
  /\ used' = Used(c)
  /\ Answer(l, c, EntryOf(c).doc)
  /\ UNCHANGED <<now, doc, past, changes>>

\* It finds none, or one that has expired and is removed; the lookup asks Cosmos.
Miss(l, c) ==
  /\ lookup[l].stage = "idle"
  /\ Held(c) # {} => ~Fresh(EntryOf(c))
  /\ cache' = Without(cache, c)
  /\ lookup' = [lookup EXCEPT ![l] = [stage |-> "sent", card |-> c, at |-> now, doc |-> NoDoc]]
  /\ used' = OthersUsed(c)
  /\ given' = NothingGiven
  /\ UNCHANGED <<now, doc, past, changes>>

\* Cosmos reads the document, or fails, which the client takes for "not found".
CosmosReplies(l) ==
  /\ lookup[l].stage = "sent"
  /\ \E d \in {doc[lookup[l].card], NoDoc} :
       lookup' = [lookup EXCEPT ![l].stage = "answered", ![l].doc = d]
  /\ given' = NothingGiven
  /\ UNCHANGED <<now, doc, cache, past, used, changes>>

\* The lookup goes on: a document is put into the cache, "not found" is not.
Resume(l) ==
  /\ lookup[l].stage = "answered"
  /\ LET c == lookup[l].card
         d == lookup[l].doc
         e == [card |-> c, at |-> now, doc |-> d]
     IN /\ Answer(l, c, d)
        /\ cache' = IF d.found THEN Evicted(Append(Without(cache, c), e)) ELSE cache
        /\ used' = IF d.found THEN Used(c) ELSE used
  /\ UNCHANGED <<now, doc, past, changes>>

\* A document is replaced.
Store(c, d) ==
  /\ doc' = [doc EXCEPT ![c] = d]
  /\ past' = {p \in past : p.card # c \/ p.doc # doc[c]} \cup {[card |-> c, doc |-> doc[c], until |-> now]}
  /\ given' = NothingGiven

\* Whoever manages cards adds, blocks or releases one.
Manage(c, d) ==
  /\ changes < MaxChanges
  /\ d.ring = doc[c].ring /\ d # doc[c]
  /\ Store(c, d)
  /\ changes' = changes + 1
  /\ UNCHANGED <<now, cache, lookup, used>>

Waiting(l) == lookup[l].stage # "idle"

\* Time passes, but no read lasts longer than ReadTime.
Tick ==
  /\ now < MaxTime
  /\ \A l \in Lookups : Waiting(l) => now - lookup[l].at < ReadTime
  /\ now' = now + 1
  /\ given' = NothingGiven
  /\ UNCHANGED <<doc, cache, lookup, past, used, changes>>

CacheNext ==
  \/ \E l \in Lookups, c \in Cards : Hit(l, c) \/ Miss(l, c)
  \/ \E l \in Lookups : CosmosReplies(l) \/ Resume(l)
  \/ \E c \in Cards, d \in Docs : Manage(c, d)
  \/ Tick
-----------------------------------------------------------------------------
\* The types of the variables; the cache holds one entry per card, and not too many.
CacheTypeOK ==
  /\ now \in 0..MaxTime
  /\ doc \in [Cards -> Docs \cup {NoDoc}]
  /\ cache \in Seq(Entries) /\ Len(cache) <= MaxSize
  /\ \A i, j \in DOMAIN cache : cache[i].card = cache[j].card => i = j
  /\ lookup \in [Lookups -> [stage : LookupStages, card : Cards \cup {NoCardYet}, at : 0..MaxTime,
                             doc : Docs \cup {NoDoc}]]
  /\ given \in [card : Cards \cup {NoCardYet}, doc : Docs \cup {NoDoc}]
  /\ past \subseteq [card : Cards, doc : Docs \cup {NoDoc}, until : 0..MaxTime]
  /\ changes \in 0..MaxChanges

\* A document that the scoring is given was the one in Cosmos at some time that is no
\* longer ago than the lifetime of an entry and the duration of a read, however lookups,
\* changes and evictions interleave: that long, and no longer, a card that was blocked may
\* go on being approved.
BoundedStaleness ==
  given.doc.found =>
    \/ given.doc = doc[given.card]
    \/ \E p \in past : /\ p.card = given.card /\ p.doc = given.doc
                     /\ p.until >= now - Ttl - ReadTime

\* The cards used last are held, as many as there is room for: neither the expiry of others
\* nor misses that end in another order than they began drive them out.
RecentlyUsedIsHeld == \A i \in DOMAIN used : Held(used[i]) # {}
=============================================================================
