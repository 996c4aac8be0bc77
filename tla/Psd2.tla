-------------------------------- MODULE Psd2 --------------------------------
(***************************************************************************)
(* The exemption optimiser of the scoring API (psd2_optimizer.py): which   *)
(* exemption from strong customer authentication (SCA) a transaction may   *)
(* claim, and what score and exemption make of it.                         *)
(*                                                                         *)
(* Amounts are in euros, scores in hundredths, fraud rates in hundredths   *)
(* of a percent.  A document that was not found is a record like any       *)
(* other, with found = FALSE.                                              *)
(***************************************************************************)
EXTENDS Integers

Channels == {"ECOM", "POS", "MOTO", "ATM"}
Segments == {"retail", "trusted", "corporate"}
Exemptions == {"CORPORATE", "TRUSTED_BENEFICIARY", "TRA", "LOW_VALUE", "NONE"}
Decisions == {"APPROVE", "SCA", "DECLINE"}

Cards == [found : BOOLEAN, blocked : BOOLEAN, segment : Segments]
Merchants == [found : BOOLEAN, highRisk : BOOLEAN, fraudRate : Nat]

NoCard == [found |-> FALSE, blocked |-> FALSE, segment |-> "retail"]
NoMerchant == [found |-> FALSE, highRisk |-> FALSE, fraudRate |-> 0]

\* What the optimiser looks at; eea says that the country is not one of those outside.
Contexts == [amount : Nat, channel : Channels, eea : BOOLEAN, card : Cards, merchant : Merchants,
             spent : Nat, count : Nat, score : 0..100]

LowValueAmount == 30
LowValueCumulative == 100
LowValueMaxCount == 5

\* Each tier: the largest amount, and the largest fraud rate of the merchant.
TraTiers == {[amount |-> 100, rate |-> 13], [amount |-> 250, rate |-> 6], [amount |-> 500, rate |-> 1]}

Remote(c) == c.channel = "ECOM" /\ c.eea

\* Mutant of IsLowValue: the transaction itself is not added to what was spent.
IsLowValueBefore(c) ==
  /\ Remote(c)
  /\ c.amount <= LowValueAmount
  /\ c.spent <= LowValueCumulative
  /\ c.count < LowValueMaxCount

IsLowValue(c) ==
  /\ Remote(c)
  /\ c.amount <= LowValueAmount
  /\ c.spent + c.amount <= LowValueCumulative
  /\ c.count < LowValueMaxCount

IsTra(c) ==
  /\ Remote(c)
  /\ c.merchant.found /\ ~c.merchant.highRisk
  /\ \E tier \in TraTiers : c.amount <= tier.amount /\ c.merchant.fraudRate <= tier.rate

IsTrustedBeneficiary(c) ==
  /\ c.card.found /\ c.merchant.found
  /\ c.card.segment = "trusted" /\ ~c.merchant.highRisk

IsCorporate(c) == c.card.found /\ c.card.segment = "corporate"

\* The strongest protection first, and none at all when the score is too high.
SelectExemption(c) ==
  IF c.score >= 50 THEN "NONE"
  ELSE IF IsCorporate(c) THEN "CORPORATE"
  ELSE IF IsTrustedBeneficiary(c) THEN "TRUSTED_BENEFICIARY"
  ELSE IF IsTra(c) THEN "TRA"
  ELSE IF IsLowValue(c) THEN "LOW_VALUE"
  ELSE "NONE"

\* Mutant of Decide: the middle band ends where exemptions do.
DecideBand(score, exemption, card) ==
  IF card.blocked \/ score >= 85 THEN "DECLINE"
  ELSE IF score >= 35 /\ score < 50 /\ exemption = "NONE" THEN "SCA"
  ELSE "APPROVE"

Decide(score, exemption, card) ==
  IF card.blocked \/ score >= 85 THEN "DECLINE"
  ELSE IF score >= 35 /\ exemption = "NONE" THEN "SCA"
  ELSE "APPROVE"

-----------------------------------------------------------------------------
(* What the exemptions and the decision are meant to be.                   *)

\* What each exemption is for: Articles 16 and 18 of the RTS as the comments of the optimiser
\* and docs/compliance/psd2-sca.md give them, each band of amounts with its own limit on the
\* fraud rate, a payee the customer trusts, a corporate card; and none for a transaction the
\* model finds too risky.  That the country is in the EEA is asked of the remote exemptions
\* only; for the others see ExemptionsStayInTheEea of ScoringPath.
Lawful(c, exemption) ==
  /\ exemption = "LOW_VALUE" =>
       /\ c.channel = "ECOM" /\ c.eea
       /\ c.amount <= 30 /\ c.spent + c.amount <= 100 /\ c.count < 5
  /\ exemption = "TRA" =>
       /\ c.channel = "ECOM" /\ c.eea
       /\ c.merchant.found /\ ~c.merchant.highRisk
       /\ c.amount <= 500
       /\ c.merchant.fraudRate <= IF c.amount <= 100 THEN 13 ELSE IF c.amount <= 250 THEN 6 ELSE 1
  /\ exemption = "TRUSTED_BENEFICIARY" =>
       /\ c.card.found /\ c.card.segment = "trusted"
       /\ c.merchant.found /\ ~c.merchant.highRisk
  /\ exemption = "CORPORATE" => c.card.found /\ c.card.segment = "corporate"
  /\ exemption # "NONE" => c.score < 50

Severity(decision) == CASE decision = "APPROVE" -> 0 [] decision = "SCA" -> 1 [] OTHER -> 2

Verdict(c) == Decide(c.score, SelectExemption(c), c.card)
=============================================================================
