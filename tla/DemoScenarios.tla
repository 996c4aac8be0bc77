---------------------------- MODULE DemoScenarios ----------------------------
(***************************************************************************)
(* The decision scenarios of the demonstration (demo_scenarios.py): a copy *)
(* of the scoring rules, made so that the demo needs no service, and six   *)
(* transactions each with the outcome its text promises.                   *)
(***************************************************************************)
EXTENDS Scoring, FiniteSets, Sequences

\* The dataclass Scenario; what was spent and counted before is left at 0 in all of them.
Scenario(amount, card, merchant, agg, promised, exemption) ==
  [f |-> Features(amount, card, merchant, agg), spent |-> 0, count |-> 0,
   promised |-> promised, exemption |-> exemption]

Scenarios == <<
  \* groceries-lowvalue
  Scenario(25, CardOf(0, 0, FALSE, "retail"), MerchantOf(20, FALSE), NoAgg, "APPROVE", "LOW_VALUE"),
  \* trusted-tra
  Scenario(180, CardOf(1, 0, FALSE, "retail"), MerchantOf(5, FALSE), NoAgg, "APPROVE", "TRA"),
  \* false-positive-stepup
  Scenario(850, CardOf(3, 1, FALSE, "retail"), MerchantOf(1500, FALSE), NoAgg, "SCA", "NONE"),
  \* velocity-stepup
  Scenario(120, CardOf(2, 0, FALSE, "retail"), MerchantOf(500, FALSE), AggOf(900, 24, 4), "SCA",
           "NONE"),
  \* blocked-card-fraud
  Scenario(430, CardOf(4, 0, TRUE, "retail"), MerchantOf(300, FALSE), NoAgg, "DECLINE", "NONE"),
  \* ring-cashout-fraud
  Scenario(5200, CardOf(5, 5, FALSE, "retail"), MerchantOf(5000, TRUE), NoAgg, "DECLINE", "NONE") >>

\* The one whose customer passes the challenge and is approved after all.
Recovers(i) == i = 3

PortStubScore(s, jitter) ==
  LET c == s.f.card m == s.f.merchant
      signals == 500 + Points(c.blocked, 8500) + Points(m.highRisk, 3000)
                 + Min({m.fraudRate, 5000}) + Min({c.tier * 500, 2500})
                 + Min({c.chargebacks * 500, 2500}) + Points(s.f.amount > 1000, 1500)
                 + Points(s.f.agg.declined > 2, 2000) + Points(s.f.agg.count > 20, 1000)
  IN Min({signals + jitter, 10000}) \div 100

PortTiers == {<<100, 13>>, <<250, 6>>, <<500, 1>>}

PortIsTra(s) ==
  /\ ~s.f.merchant.highRisk
  /\ \E tier \in PortTiers : s.f.amount <= tier[1] /\ s.f.merchant.fraudRate <= tier[2]

PortIsLowValue(s) == s.f.amount <= 30 /\ s.spent + s.f.amount <= 100 /\ s.count < 5

PortExemption(s, score) ==
  IF score >= 50 THEN "NONE"
  ELSE IF s.f.card.segment = "corporate" THEN "CORPORATE"
  ELSE IF s.f.card.segment = "trusted" /\ ~s.f.merchant.highRisk THEN "TRUSTED_BENEFICIARY"
  ELSE IF PortIsTra(s) THEN "TRA"
  ELSE IF PortIsLowValue(s) THEN "LOW_VALUE"
  ELSE "NONE"

\* Mutant of PortDecide: the step-up begins at another score than in the service.
PortDecideLate(score, exemption, card) ==
  IF card.blocked \/ score >= 85 THEN "DECLINE"
  ELSE IF score >= 50 /\ exemption = "NONE" THEN "SCA" ELSE "APPROVE"

PortDecide(score, exemption, card) ==
  IF card.blocked \/ score >= 85 THEN "DECLINE"
  ELSE IF score >= 35 /\ exemption = "NONE" THEN "SCA" ELSE "APPROVE"

\* The copy has a code for declines that build_reason_codes has not.
PortCodes(score, exemption, f) ==
  ReasonCodes(score, exemption, f)
  \cup (IF f.agg.declined > 2 THEN {"VELOCITY_DECLINES_1H"} ELSE {})

Evaluate(s, jitter) ==
  LET score == PortStubScore(s, jitter)
      exemption == PortExemption(s, score)
  IN [decision |-> PortDecide(score, exemption, s.f.card), exemption |-> exemption,
      codes |-> PortCodes(score, exemption, s.f)]

\* scenario_summary.
Tally(decision) ==
  Cardinality({i \in DOMAIN Scenarios : Evaluate(Scenarios[i], 0).decision = decision})
=============================================================================
