--------------------------- MODULE TrafficPatterns ---------------------------
(***************************************************************************)
(* The streams of transactions the simulator draws from                    *)
(* (simulator/patterns.py, data.py): ordinary ones, a ring of cards that   *)
(* goes round its merchants, the burst of a card that was taken over, and  *)
(* the mixture of the three.                                               *)
(***************************************************************************)
EXTENDS Naturals

CONSTANTS
  RingCards,       \* 10
  RingMerchants,   \* 3
  MinBurst,        \* 8
  MaxBurst,        \* 25
  MaxCursor        \* bound: ring transactions within a window of 90 s

ASSUME PatternAssumption ==
  /\ RingCards = 10 /\ RingMerchants = 3 /\ MaxCursor \in Nat \ {0}
  /\ MinBurst \in Nat \ {0} /\ MaxBurst \in Nat /\ MinBurst <= MaxBurst

VARIABLES
  pattern,  \* the one the run asked for
  cursor,   \* of the ring
  hit,      \* history: the card and merchant pairs of the ring since it was last refreshed
  burst,    \* transactions left of the burst
  drawn     \* the transaction drawn last

patternVars == <<pattern, cursor, hit, burst, drawn>>

Patterns == {"normal", "fraud-ring", "account-takeover", "mixed"}

\* make_normal_transaction: the local amount is the one in euro, converted to the currency of
\* the merchant's country.
Normal(label, channel, abroad) ==
  [label |-> label, channel |-> channel, abroad |-> abroad, local |-> "converted"]

NothingDrawn == Normal("none", "pos", FALSE)

PatternInit ==
  /\ pattern \in Patterns /\ cursor = 0 /\ hit = {}
  /\ burst \in MinBurst .. MaxBurst
  /\ drawn = NothingDrawn

Serves(name) == pattern \in {name, "mixed"}

\* NormalPattern.
DrawNormal ==
  /\ Serves("normal")
  /\ \E channel \in {"pos", "ecom"}, abroad \in BOOLEAN : drawn' = Normal("normal", channel, abroad)
  /\ UNCHANGED <<pattern, cursor, hit, burst>>

\* FraudRingPattern: after 90 s a new ring; the amount in euro is raised and stands for the
\* local one as well.
DrawRing ==
  /\ Serves("fraud-ring")
  /\ \E at \in {0} \cup (IF cursor < MaxCursor THEN {cursor} ELSE {}), abroad \in BOOLEAN :
       /\ hit' = (IF at = 0 THEN {} ELSE hit) \cup {<<at % RingCards, at % RingMerchants>>}
       /\ cursor' = at + 1
       /\ drawn' = [Normal("fraud_ring", "pos", abroad) EXCEPT !.local = "copied"]
  /\ UNCHANGED <<pattern, burst>>

\* AccountTakeoverPattern: when a burst is over, a new victim; the local amount stays.
DrawTakeover ==
  /\ Serves("account-takeover")
  /\ \E left \in IF burst = 0 THEN MinBurst .. MaxBurst ELSE {burst} : burst' = left - 1
  /\ drawn' = [Normal("account_takeover", "ecom", FALSE) EXCEPT !.local = "stale"]
  /\ UNCHANGED <<pattern, cursor, hit>>

PatternNext == DrawNormal \/ DrawRing \/ DrawTakeover
-----------------------------------------------------------------------------
\* The types; and the ring is closed: once it has gone round, every one of its cards has met
\* every one of its merchants.
PatternTypeOK ==
  /\ pattern \in Patterns /\ burst \in 0 .. MaxBurst
  /\ cursor \in 0 .. MaxCursor
  /\ drawn.label = "none" \/ drawn.label = "normal" <=> drawn.local = "converted"
  /\ cursor >= RingCards * RingMerchants =>
       hit = (0 .. RingCards - 1) \X (0 .. RingMerchants - 1)
=============================================================================
