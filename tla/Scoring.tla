------------------------------- MODULE Scoring -------------------------------
(***************************************************************************)
(* What the scoring API makes of a transaction's features: the score of    *)
(* the model or of the stub (scoring.py), and with the optimiser the       *)
(* decision; and the entities the API is seeded with for a demonstration   *)
(* (seed_data.py).  Stub scores are in hundredths of a percent.            *)
(***************************************************************************)
EXTENDS Psd2, FiniteSetsExt

MaxJitter == 500
Jitters == {0, MaxJitter}   \* the ends of the range of the hash

\* What is known of a transaction: card, merchant and the aggregates of the hour.
Features(amount, card, merchant, agg) ==
  [amount |-> amount, card |-> card, merchant |-> merchant, agg |-> agg]

CardOf(tier, chargebacks, blocked, segment) ==
  [found |-> TRUE, tier |-> tier, chargebacks |-> chargebacks, blocked |-> blocked,
   segment |-> segment]
MerchantOf(rate, highRisk) == [found |-> TRUE, fraudRate |-> rate, highRisk |-> highRisk]
AggOf(spent, count, declined) == [spent |-> spent, count |-> count, declined |-> declined]

UnknownCard == [CardOf(0, 0, FALSE, "retail") EXCEPT !.found = FALSE]
UnknownMerchant == [MerchantOf(0, FALSE) EXCEPT !.found = FALSE]
NoAgg == AggOf(0, 0, 0)

Points(condition, points) == IF condition THEN points ELSE 0

\* The risk signals of _stub_score, without the jitter.
StubBase(f) ==
  500 + Points(f.card.blocked, 8500) + Points(f.merchant.highRisk, 3000)
  + Min({f.merchant.fraudRate, 5000})
  + Min({f.card.tier * 500, 2500}) + Min({f.card.chargebacks * 500, 2500})
  + Points(f.amount > 1000, 1500) + Points(f.agg.declined > 2, 2000)
  + Points(f.agg.count > 20, 1000)

StubScore(f, jitter) == Min({StubBase(f) + jitter, 10000}) \div 100

\* OnnxScorer: no file, a file that does not load, the flat vector, or the ensemble's columns.
ModelStates == {"missing", "broken", "vector", "columns"}
Loaded(model) == model \in {"vector", "columns"}
ModelVersion(model) == IF Loaded(model) THEN "version" ELSE "version+stub"

\* score: whatever a model says, clipped; the stub's score without one and when it fails.
ScoresOf(model, f) ==
  {StubScore(f, j) : j \in Jitters} \cup (IF Loaded(model) THEN 0 .. 100 ELSE {})

ContextOf(f, score) ==
  [amount |-> f.amount, channel |-> "ECOM", eea |-> TRUE, card |-> f.card,
   merchant |-> f.merchant, spent |-> f.agg.spent, count |-> f.agg.count, score |-> score]

\* build_reason_codes.
ReasonCodes(score, exemption, f) ==
  (IF f.card.blocked THEN {"CARD_BLOCKED"} ELSE {})
  \cup {IF score >= 85 THEN "HIGH_RISK_SCORE"
        ELSE IF score >= 35 THEN "MEDIUM_RISK_SCORE" ELSE "LOW_RISK"}
  \cup (IF f.merchant.highRisk THEN {"MERCHANT_HIGH_RISK"} ELSE {})
  \cup (IF exemption # "NONE" THEN {exemption} ELSE {})

Answer(f, score) ==
  LET exemption == SelectExemption(ContextOf(f, score))
  IN [decision |-> Decide(score, exemption, f.card), exemption |-> exemption,
      codes |-> ReasonCodes(score, exemption, f)]

\* The answers the API may give a remote transaction within the EEA.
Answers(model, f) == {Answer(f, s) : s \in ScoresOf(model, f)}
-----------------------------------------------------------------------------
BlockedCard == CardOf(5, 4, TRUE, "retail")
HotCard == CardOf(5, 6, FALSE, "retail")
CorporateCard == CardOf(0, 0, FALSE, "corporate")
RingCard == CardOf(2, 1, FALSE, "retail")
FraudMerchant == MerchantOf(5500, TRUE)
RiskyMerchant == MerchantOf(2000, TRUE)
CleanMerchant == MerchantOf(5, FALSE)

\* demo_aggregates.
SeededAgg(card) ==
  CASE card = HotCard -> AggOf(1180, 5, 3)
    [] card = BlockedCard -> AggOf(520, 2, 1)
    [] card = RingCard -> AggOf(2840, 9, 2)
    [] OTHER -> NoAgg

\* What the stub may decide on a transaction of a seeded card.
Decided(amount, card, merchant) ==
  {a.decision : a \in Answers("missing", Features(amount, card, merchant, SeededAgg(card)))}

\* What the comments of the seed promise of the stub, whatever the jitter.
SeedsAsTold ==
  /\ \A m \in {UnknownMerchant, CleanMerchant, FraudMerchant} :
       Decided(50, BlockedCard, m) = {"DECLINE"}
  /\ Decided(50, HotCard, UnknownMerchant) = {"SCA"}
  /\ Decided(1800, CorporateCard, UnknownMerchant) = {"APPROVE"}
  /\ Decided(50, UnknownCard, FraudMerchant) = {"DECLINE"}
  /\ Decided(50, UnknownCard, RiskyMerchant) = {"SCA"}
  /\ \A a \in Answers("missing", Features(50, UnknownCard, CleanMerchant, NoAgg)) :
       a.decision = "APPROVE" /\ a.exemption = "TRA"
=============================================================================
