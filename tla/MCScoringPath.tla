---------------------------- MODULE MCScoringPath ----------------------------
(* Constants of ScoringPath and AlertPath for TLC. *)
EXTENDS AlertPath, TLC

CONSTANT r1

\* Both sides of each threshold of the decision and of the exemptions.
MCScores == {0, 34, 35, 49, 50, 84, 85}

MCCards ==
  {NoCard}
    \cup [found : {TRUE}, blocked : {FALSE}, segment : {"retail", "corporate", "trusted"}]
    \cup [found : {TRUE}, blocked : {TRUE}, segment : {"corporate"}]

MCMerchants ==
  {NoMerchant}
    \cup [found : {TRUE}, highRisk : {FALSE}, fraudRate : {6, 13}]
    \cup [found : {TRUE}, highRisk : {TRUE}, fraudRate : {1}]

\* Transactions of every size without a card, and of one size from every card, there also
\* from outside the EEA.
MCInputs ==
  [amount : {30, 100, 101, 250, 501}, channel : {"ECOM"}, eea : {TRUE}, card : {NoCard},
   merchant : MCMerchants, spent : {0, 71}, count : {0, 5}]
    \cup [amount : {30}, channel : {"ECOM", "POS"}, eea : BOOLEAN, card : MCCards,
          merchant : MCMerchants, spent : {0}, count : {0}]

\* Azure, and the demo on a laptop with and without its documents.
MCConfigurations ==
  {[cosmos |-> TRUE, seed |-> FALSE, hub |-> TRUE, bus |-> TRUE]}
    \cup [cosmos : {FALSE}, seed : BOOLEAN, hub : {FALSE}, bus : {FALSE}]

MCTransaction == [r \in Requests |-> "tx"]

\* A message that is no JSON, one that is no object, and two that name no transaction.
MCForeign ==
  [body : {"no json", "other json"}, transaction : {""}, decision : {""}, origin : {"foreign"}]
    \cup [body : {"object"}, transaction : {""}, decision : {"MANUAL_REVIEW", "STEP_UP"},
          origin : {"foreign"}]

\* Amounts and rates matter to the optimiser only: all of them are tried where nothing is
\* sent, and a few documents where messages are.  Messages of other senders share nothing
\* with those of requests but the queue: they are met by one request, which sends none.
MCInit ==
  /\ AlertInit
  /\ hot.clients # {} =>
       \A r \in Requests :
         /\ input[r].channel = "ECOM" /\ input[r].eea /\ input[r].amount = 30
         /\ input[r].spent = 0 /\ input[r].count = 0 /\ input[r].card.segment # "trusted"
         /\ ~input[r].merchant.highRisk /\ input[r].merchant.fraudRate # 6
  /\ (\E a \in AllAlerts : queue[a] = "ready") =>
       /\ hot.source = "empty"
       /\ \A r \in Requests : input[r].amount = 30 /\ input[r].channel = "POS" /\ input[r].eea

MCSpec ==
  /\ MCInit /\ [][AlertNext]_alertVars
  /\ \A r \in Requests : WF_alertVars(Step(r) /\ ScoringStep)
  /\ \A m \in Messages : WF_alertVars(Send(m) /\ ScoringStep)
  /\ \A a \in AllAlerts : WF_alertVars(EnforcementStep(a) /\ UNCHANGED vars)
=============================================================================
