------------------------------ MODULE GnnPublish ------------------------------
(***************************************************************************)
(* The job that publishes the outputs of the graph network into the card   *)
(* documents (publish_gnn_features.py), while the scoring API reads them   *)
(* through its cache and others change them.  Each card is a read and an   *)
(* upsert without an etag.                                                 *)
(***************************************************************************)
EXTENDS FeatureCache

CONSTANTS
  Rings,          \* ring_scores.parquet: the cards scored, and whether they are in a ring
  Embedded,       \* embeddings_card.parquet: the cards with an embedding
  CreateMissing   \* --create-missing

ASSUME RingsOK == Rings \in [DOMAIN Rings -> BOOLEAN] /\ DOMAIN Rings \subseteq Cards

VARIABLES
  todo,     \* cards the job has still to publish
  held,     \* the card it has read, and the document
  touched   \* history: whether that card has changed since

publishVars == <<todo, held, touched>>
cardVars == <<cacheVars, publishVars>>

NoneHeld == [card |-> NoCardYet, doc |-> NoDoc]

\* load_gnn_features: cards that are in both files.
Rows == DOMAIN Rings \cap Embedded

CardInit == CacheInit /\ todo = Rows /\ held = NoneHeld /\ touched = FALSE

\* Mutant of Patched: the document is written anew.
PatchedAnew(c, d) == [found |-> TRUE, blocked |-> FALSE, ring |-> Rings[c]]

\* doc.update(payload); of a card that is missing, a minimal document.
Patched(c, d) ==
  IF d.found THEN [d EXCEPT !.ring = Rings[c]] ELSE [found |-> TRUE, blocked |-> FALSE, ring |-> Rings[c]]

\* Cards are read in the order of their ring scores; one that is missing is skipped, unless
\* it is to be created.
PublishRead(c) ==
  /\ held = NoneHeld /\ c \in todo
  /\ \A other \in todo : Rings[other] => Rings[c]
  /\ IF doc[c].found \/ CreateMissing
     THEN held' = [card |-> c, doc |-> doc[c]] /\ UNCHANGED todo
     ELSE todo' = todo \ {c} /\ UNCHANGED held
  /\ touched' = FALSE
  /\ UNCHANGED cacheVars

PublishUpsert ==
  /\ held # NoneHeld
  /\ Store(held.card, Patched(held.card, held.doc))
  /\ todo' = todo \ {held.card}
  /\ held' = NoneHeld
  /\ UNCHANGED <<now, cache, lookup, used, changes, touched>>

\* Any failure but "not found" ends the job; the cards behind keep what they have.
PublishFails ==
  /\ todo # {}
  /\ todo' = {} /\ held' = NoneHeld
  /\ UNCHANGED <<cacheVars, touched>>

\* The rest of the system.
ElseNext ==
  /\ CacheNext
  /\ touched' = (touched \/ (held # NoneHeld /\ doc' # doc /\ doc'[held.card] # doc[held.card]))
  /\ UNCHANGED <<todo, held>>

CardNext == (\E c \in Rows : PublishRead(c)) \/ PublishUpsert \/ PublishFails \/ ElseNext

CardSpec == CardInit /\ [][CardNext]_cardVars
-----------------------------------------------------------------------------
\* The types of the variables of cache and job.
CardTypeOK ==
  /\ CacheTypeOK
  /\ todo \subseteq Rows
  /\ held = NoneHeld \/ (held.card \in todo /\ held.doc \in Docs \cup {NoDoc})
  /\ touched \in BOOLEAN

\* Publishing the scores of the network releases a blocked card, or blocks a free one, only
\* if it was changed in the moment between the read and the upsert of its document.
PublishKeepsTheRest ==
  [][\A c \in Cards :
       todo' # todo /\ doc'[c].blocked # doc[c].blocked => touched /\ held.card = c]_cardVars
=============================================================================
