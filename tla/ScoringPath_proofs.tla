-------------------------- MODULE ScoringPath_proofs --------------------------
(* Theorems about ScoringPath, for any requests, documents and scores. *)
EXTENDS ScoringPath, TLAPS

-----------------------------------------------------------------------------
(* The optimiser.                                                          *)

\* The optimiser always answers with an exemption.
LEMMA SelectExemptionType == \A c : SelectExemption(c) \in Exemptions
BY DEF SelectExemption, Exemptions

\* A decision is one of the three.
LEMMA DecideType == \A s, e, d : Decide(s, e, d) \in Decisions
BY DEF Decide, Decisions

\* The tiers of the transaction risk analysis, each with an amount and a rate of its own,
\* amount to one limit per band of amounts, because larger amounts have lower limits.
LEMMA TraIsBanded ==
  ASSUME NEW c \in Contexts, IsTra(c)
  PROVE  /\ c.channel = "ECOM" /\ c.eea
         /\ c.merchant.found /\ ~c.merchant.highRisk
         /\ c.amount <= 500
         /\ c.merchant.fraudRate <= IF c.amount <= 100 THEN 13 ELSE IF c.amount <= 250 THEN 6 ELSE 1
<1>1. c.amount \in Nat /\ c.merchant.fraudRate \in Nat
  BY DEF Contexts, Merchants
<1>2. PICK tier \in TraTiers : c.amount <= tier.amount /\ c.merchant.fraudRate <= tier.rate
  BY DEF IsTra
<1>3. c.channel = "ECOM" /\ c.eea /\ c.merchant.found /\ ~c.merchant.highRisk
  BY DEF IsTra, Remote
<1>4. CASE tier = [amount |-> 100, rate |-> 13]
  BY <1>1, <1>2, <1>3, <1>4
<1>5. CASE tier = [amount |-> 250, rate |-> 6]
  BY <1>1, <1>2, <1>3, <1>5
<1>6. CASE tier = [amount |-> 500, rate |-> 1]
  BY <1>1, <1>2, <1>3, <1>6
<1> QED
  BY <1>4, <1>5, <1>6 DEF TraTiers

\* Whatever exemption is selected is lawful.
LEMMA SelectedIsLawful ==
  ASSUME NEW c \in Contexts
  PROVE  Lawful(c, SelectExemption(c))
<1>1. SelectExemption(c) # "NONE" => c.score < 50
  BY DEF SelectExemption, Contexts
<1>2. CASE SelectExemption(c) = "TRA"
  <2>1. IsTra(c)
    BY <1>2 DEF SelectExemption
  <2> QED
    BY <1>1, <1>2, <2>1, TraIsBanded DEF Lawful
<1>3. CASE SelectExemption(c) = "LOW_VALUE"
  <2>1. IsLowValue(c)
    BY <1>3 DEF SelectExemption
  <2> QED
    BY <1>1, <1>3, <2>1
       DEF IsLowValue, Remote, LowValueAmount, LowValueCumulative, LowValueMaxCount, Lawful
<1>4. CASE SelectExemption(c) = "TRUSTED_BENEFICIARY"
  <2>1. IsTrustedBeneficiary(c)
    BY <1>4 DEF SelectExemption
  <2> QED
    BY <1>1, <1>4, <2>1 DEF IsTrustedBeneficiary, Lawful
<1>5. CASE SelectExemption(c) = "CORPORATE"
  <2>1. IsCorporate(c)
    BY <1>5 DEF SelectExemption
  <2> QED
    BY <1>1, <1>5, <2>1 DEF IsCorporate, Lawful
<1>6. CASE SelectExemption(c) = "NONE"
  BY <1>6 DEF Lawful
<1> QED
  BY <1>2, <1>3, <1>4, <1>5, <1>6, SelectExemptionType DEF Exemptions

\* No exemption rests on a document that is missing: what is lawful given what was read is so
\* given all there is to read.
LEMMA LawfulAsHeld ==
  ASSUME NEW c, NEW h, NEW x,
         c.amount = h.amount, c.channel = h.channel, c.eea = h.eea,
         c.spent = h.spent, c.count = h.count, c.score = h.score,
         c.card = h.card \/ ~c.card.found,
         c.merchant = h.merchant \/ ~c.merchant.found,
         Lawful(c, x)
  PROVE  Lawful(h, x)
BY DEF Lawful

\* Of two contexts that differ in the score, the one with the higher score is not decided
\* more leniently.
LEMMA VerdictMonotonic ==
  ASSUME NEW c \in Contexts, NEW d \in Contexts, c.card = d.card, c.score <= d.score,
         c.score < 50 /\ d.score < 50 => SelectExemption(c) = SelectExemption(d)
  PROVE  Severity(Verdict(c)) <= Severity(Verdict(d))
<1>1. c.score \in Nat /\ d.score \in Nat
  BY DEF Contexts
<1>2. d.score >= 50 => SelectExemption(d) = "NONE"
  BY DEF SelectExemption
<1>3. Verdict(c) \in Decisions /\ Verdict(d) \in Decisions
  BY DecideType DEF Verdict
<1>4. CASE c.card.blocked \/ d.score >= 85
  <2>1. Verdict(d) = "DECLINE"
    BY <1>4 DEF Verdict, Decide
  <2> QED
    BY <1>3, <2>1 DEF Severity, Decisions
<1>5. CASE ~c.card.blocked /\ d.score < 85 /\ d.score >= 50
  <2>1. Verdict(d) = "SCA" /\ Verdict(c) # "DECLINE"
    BY <1>1, <1>2, <1>5 DEF Verdict, Decide
  <2> QED
    BY <1>3, <2>1 DEF Severity, Decisions
<1>6. CASE ~c.card.blocked /\ d.score < 50
  <2>1. SelectExemption(c) = SelectExemption(d)
    BY <1>1, <1>6
  <2>2. Verdict(c) = "SCA" => Verdict(d) = "SCA"
    BY <1>1, <1>6, <2>1 DEF Verdict, Decide
  <2>3. Verdict(c) # "DECLINE"
    BY <1>1, <1>6 DEF Verdict, Decide
  <2> QED
    BY <1>3, <2>2, <2>3 DEF Severity, Decisions
<1> QED
  BY <1>1, <1>4, <1>5, <1>6

-----------------------------------------------------------------------------
(* The hot path.                                                           *)

\* What the optimiser is given is a context, with any score.
LEMMA ContextType ==
  ASSUME TypeOK, NEW r \in Requests, NEW s \in 0..100
  PROVE  Context(r, s) \in Contexts
<1>1. input[r] \in [amount : Nat, channel : Channels, eea : BOOLEAN, card : Cards,
                    merchant : Merchants, spent : Nat, count : Nat]
  BY InputsOK DEF TypeOK
<1> QED
  BY <1>1 DEF TypeOK, Context, Contexts

\* A document that was not found is a document.
LEMMA AbsentDocuments == NoCard \in Cards /\ NoMerchant \in Merchants
BY DEF NoCard, NoMerchant, Cards, Merchants, Segments

\* A process has producers for the hub and for the queue only.
LEMMA ClientsType == \A h \in HotPaths : h.clients \subseteq {"hub", "queue"}
BY DEF HotPaths, BuildHotPath, ConnectEmitter, ConnectAlerts

\* A decision that passed the fail-safe is a decision.
LEMMA FailSafeType ==
  ASSUME NEW r, NEW d \in Decisions
  PROVE  FailSafe(r, d) \in Decisions
BY DEF FailSafe, Decisions

\* What has been read of the card of a request before its inference.
CardRead(r) ==
  stage[r] \in {"merchant", "aggregates", "inference"} =>
    card[r] = input[r].card \/ <<r, "cards">> \in unreached \/ degraded[r]

\* What a request has of a document is the document or none.
DocumentsRead(r) ==
  /\ card[r] = input[r].card \/ card[r] = NoCard
  /\ merchant[r] = input[r].merchant \/ merchant[r] = NoMerchant

\* What a request has of its aggregates: none before they are read and when Redis failed.
AggregatesRead(r) ==
  /\ IF stage[r] \in {"inference", "done"} /\ <<r, "redis">> \notin unreached
     THEN spent[r] = input[r].spent /\ count[r] = input[r].count
     ELSE spent[r] = 0 /\ count[r] = 0
  /\ <<r, "redis">> \in unreached => stage[r] \in {"inference", "done"}

\* An answer claims the exemption that the optimiser selects for its score.
AnswerOfOptimiser(r) ==
  stage[r] = "done" => answer[r].exemption = SelectExemption(Context(r, answer[r].score))

\* BlockedCardIsNotApproved, for one request.
Blocked(r) ==
  input[r].card.blocked /\ answer[r].decision = "APPROVE" =>
    <<r, "cards">> \in unreached /\ ~degraded[r]

\* The inductive invariant of the hot path.
IInv ==
  /\ TypeOK
  /\ \A r \in Requests : /\ CardRead(r) /\ AnswerOfOptimiser(r) /\ Blocked(r)
                          /\ DocumentsRead(r) /\ AggregatesRead(r)
  /\ EventsMatchAnswer

\* The state of the other requests after a step of r.
Aside(r) ==
  /\ input' = input /\ hot' = hot
  /\ \A q \in Requests \ {r} :
       /\ stage'[q] = stage[q] /\ card'[q] = card[q] /\ merchant'[q] = merchant[q]
       /\ spent'[q] = spent[q] /\ count'[q] = count[q]
       /\ degraded'[q] = degraded[q] /\ answer'[q] = answer[q]
       /\ \A b \in Backends : <<q, b>> \in unreached' <=> <<q, b>> \in unreached
  /\ unreached \subseteq unreached'

\* A step of one request leaves the others alone and forgets no failed read.
LEMMA StepAside ==
  ASSUME TypeOK, NEW r \in Requests, Arrive(r) \/ Step(r)
  PROVE  Aside(r)
<1>1. CASE Arrive(r)
  BY <1>1 DEF TypeOK, Arrive, Goto, reads, Aside
<1>2. CASE ReadCard(r)
  BY <1>2 DEF TypeOK, ReadCard, FeaturesRaise, Goto, Aside
<1>3. CASE ReadMerchant(r)
  BY <1>3 DEF TypeOK, ReadMerchant, FeaturesRaise, Goto, Aside
<1>4. CASE ReadAggregates(r)
  BY <1>4 DEF TypeOK, ReadAggregates, AggregatesRaise, Goto, Aside
<1>5. CASE Finish(r)
  BY <1>5 DEF TypeOK, Finish, Goto, reads, Aside
<1> QED
  BY <1>1, <1>2, <1>3, <1>4, <1>5 DEF Step

\* A request that makes no step keeps its part of the invariant.
LEMMA OthersKeep ==
  ASSUME IInv, NEW r \in Requests, Aside(r), NEW q \in Requests, q # r
  PROVE  /\ CardRead(q)' /\ AnswerOfOptimiser(q)' /\ Blocked(q)'
         /\ DocumentsRead(q)' /\ AggregatesRead(q)'
<1>1. \A s : Context(q, s)' = Context(q, s)
  BY DEF Aside, Context
<1>2. CardRead(q)' /\ Blocked(q)'
  BY DEF IInv, Aside, CardRead, Blocked
<1>3. AnswerOfOptimiser(q)'
  BY <1>1 DEF IInv, Aside, AnswerOfOptimiser
<1>4. DocumentsRead(q)'
  BY DEF IInv, Aside, DocumentsRead
<1>5. AggregatesRead(q)'
  BY DEF IInv, Aside, AggregatesRead, Backends
<1> QED
  BY <1>2, <1>3, <1>4, <1>5

\* The reads and the arrival.
LEMMA ReadingKeeps ==
  ASSUME IInv, NEW r \in Requests,
         Arrive(r) \/ ReadCard(r) \/ ReadMerchant(r) \/ ReadAggregates(r)
  PROVE  IInv'
<1> USE DEF IInv
<1>1. Aside(r)
  BY StepAside DEF Step
<1>2. /\ answer' = answer /\ tasks' = tasks /\ delivered' = delivered /\ lost' = lost
      /\ lifecycle' = lifecycle /\ hot' = hot
      /\ stage[r] # "done" /\ stage'[r] # "done"
  BY DEF TypeOK, Arrive, ReadCard, ReadMerchant, ReadAggregates, FeaturesRaise,
         AggregatesRaise, Goto
<1>3. answer[r] = NoAnswer
  BY <1>2 DEF TypeOK
<1>4. input[r] \in Inputs /\ input[r].card \in Cards /\ input[r].merchant \in Merchants
        /\ input[r].spent \in Nat /\ input[r].count \in Nat
  BY InputsOK DEF TypeOK
<1>5. /\ stage' \in [Requests -> Stages] /\ card' \in [Requests -> Cards]
      /\ merchant' \in [Requests -> Merchants] /\ spent' \in [Requests -> Nat]
      /\ count' \in [Requests -> Nat] /\ degraded' \in [Requests -> BOOLEAN]
      /\ unreached' \subseteq Requests \X Backends
  <2>1. CASE Arrive(r)
    BY <2>1 DEF TypeOK, Arrive, Goto, Stages, reads
  <2>2. CASE ReadCard(r)
    <3>1. card' \in [Requests -> Cards] /\ merchant' \in [Requests -> Merchants]
      BY <1>4, <2>2, AbsentDocuments DEF TypeOK, ReadCard, FeaturesRaise
    <3>2. stage' \in [Requests -> Stages] /\ degraded' \in [Requests -> BOOLEAN]
      BY <2>2 DEF TypeOK, ReadCard, FeaturesRaise, Goto, Stages
    <3> QED
      BY <2>2, <3>1, <3>2 DEF TypeOK, ReadCard, Backends
  <2>3. CASE ReadMerchant(r)
    <3>1. card' \in [Requests -> Cards] /\ merchant' \in [Requests -> Merchants]
      BY <1>4, <2>3, AbsentDocuments DEF TypeOK, ReadMerchant, FeaturesRaise
    <3>2. stage' \in [Requests -> Stages] /\ degraded' \in [Requests -> BOOLEAN]
      BY <2>3 DEF TypeOK, ReadMerchant, FeaturesRaise, Goto, Stages
    <3> QED
      BY <2>3, <3>1, <3>2 DEF TypeOK, ReadMerchant, Backends
  <2>4. CASE ReadAggregates(r)
    <3>1. spent' \in [Requests -> Nat] /\ count' \in [Requests -> Nat]
      BY <1>4, <2>4 DEF TypeOK, ReadAggregates, AggregatesRaise
    <3>2. stage' \in [Requests -> Stages] /\ degraded' \in [Requests -> BOOLEAN]
      BY <2>4 DEF TypeOK, ReadAggregates, AggregatesRaise, Goto, Stages
    <3> QED
      BY <2>4, <3>1, <3>2 DEF TypeOK, ReadAggregates, Backends
  <2> QED
    BY <2>1, <2>2, <2>3, <2>4
<1>6. \A q \in Requests : answer'[q] # NoAnswer <=> stage'[q] = "done"
  BY <1>1, <1>2, <1>3 DEF TypeOK, Aside
<1>7. TypeOK'
  BY <1>1, <1>2, <1>5, <1>6 DEF TypeOK, Aside
<1>8. CardRead(r)'
  <2>1. CASE Arrive(r)
    BY <2>1 DEF TypeOK, Arrive, Goto, CardRead
  <2>2. CASE ReadCard(r)
    BY <2>2 DEF TypeOK, ReadCard, FeaturesRaise, Goto, CardRead
  <2>3. CASE ReadMerchant(r)
    BY <2>3 DEF TypeOK, ReadMerchant, FeaturesRaise, Goto, CardRead
  <2>4. CASE ReadAggregates(r)
    BY <2>4 DEF TypeOK, ReadAggregates, AggregatesRaise, Goto, CardRead
  <2> QED
    BY <2>1, <2>2, <2>3, <2>4
<1>9. AnswerOfOptimiser(r)' /\ Blocked(r)'
  BY <1>2, <1>3 DEF AnswerOfOptimiser, Blocked, NoAnswer
<1>10. EventsMatchAnswer'
  <2>1. \A m \in tasks \cup delivered \cup lost : m.request \in Requests
    BY DEF TypeOK, Messages
  <2> QED
    BY <1>1, <1>2, <2>1 DEF EventsMatchAnswer, Aside
<1>11. DocumentsRead(r)'
  <2>1. CASE Arrive(r)
    BY <2>1 DEF TypeOK, Arrive, reads, DocumentsRead
  <2>2. CASE ReadCard(r)
    BY <2>2 DEF TypeOK, ReadCard, FeaturesRaise, DocumentsRead
  <2>3. CASE ReadMerchant(r)
    BY <2>3 DEF TypeOK, ReadMerchant, FeaturesRaise, DocumentsRead
  <2>4. CASE ReadAggregates(r)
    BY <2>4 DEF TypeOK, ReadAggregates, DocumentsRead
  <2> QED
    BY <2>1, <2>2, <2>3, <2>4
<1>12. AggregatesRead(r)'
  <2>1. CASE Arrive(r)
    BY <2>1 DEF TypeOK, Arrive, Goto, reads, AggregatesRead
  <2>2. CASE ReadCard(r)
    BY <2>2 DEF TypeOK, ReadCard, FeaturesRaise, Goto, AggregatesRead
  <2>3. CASE ReadMerchant(r)
    BY <2>3 DEF TypeOK, ReadMerchant, FeaturesRaise, Goto, AggregatesRead
  <2>4. CASE ReadAggregates(r)
    BY <2>4 DEF TypeOK, ReadAggregates, AggregatesRaise, Goto, AggregatesRead
  <2> QED
    BY <2>1, <2>2, <2>3, <2>4
<1> QED
  BY <1>1, <1>7, <1>8, <1>9, <1>10, <1>11, <1>12, OthersKeep

\* The decision and the messages.
LEMMA FinishKeeps ==
  ASSUME IInv, NEW r \in Requests, Finish(r)
  PROVE  IInv'
<1> USE DEF IInv
<1>1. PICK s \in Scores :
        /\ answer' = [answer EXCEPT ![r] =
                        [decision |-> FailSafe(r, Verdict(Context(r, s))),
                         exemption |-> SelectExemption(Context(r, s)), score |-> s]]
        /\ tasks' = tasks \cup Published(r, Context(r, s), FailSafe(r, Verdict(Context(r, s))))
  BY DEF Finish
<1>2. /\ stage[r] = "inference" /\ stage' = [stage EXCEPT ![r] = "done"]
      /\ input' = input /\ card' = card /\ merchant' = merchant /\ spent' = spent
      /\ count' = count /\ degraded' = degraded /\ delivered' = delivered /\ lost' = lost
      /\ unreached' = unreached /\ lifecycle' = lifecycle /\ hot' = hot
  BY DEF Finish, Goto, reads
<1> DEFINE c == Context(r, s)
           d == FailSafe(r, Verdict(c))
<1>3. d \in Decisions
  BY DecideType, FailSafeType DEF Verdict
<1>4. s \in 0..100
  BY InputsOK
<1>5. SelectExemption(c) \in Exemptions
  BY SelectExemptionType
<1>6. Aside(r)
  BY StepAside DEF Step
<1>7. answer'[r] = [decision |-> d, exemption |-> SelectExemption(c), score |-> s]
  BY <1>1 DEF TypeOK
<1>8. answer'[r] \in Answers /\ answer'[r] # NoAnswer
  BY <1>3, <1>4, <1>5, <1>7 DEF Answers, NoAnswer, Decisions
<1>9. Published(r, c, d) \subseteq Messages
  BY <1>3, ClientsType DEF Published, Messages, TypeOK
<1>10. TypeOK'
  <2>1. answer' \in [Requests -> Answers]
    BY <1>1, <1>7, <1>8 DEF TypeOK
  <2>2. stage' \in [Requests -> Stages] /\ stage'[r] = "done"
    BY <1>2 DEF TypeOK, Stages
  <2>3. \A q \in Requests : answer'[q] # NoAnswer <=> stage'[q] = "done"
    BY <1>6, <1>8, <2>2 DEF TypeOK, Aside
  <2> QED
    BY <1>1, <1>2, <1>9, <2>1, <2>2, <2>3 DEF TypeOK
<1>11. /\ CardRead(r)' /\ AnswerOfOptimiser(r)'
       /\ DocumentsRead(r)' /\ AggregatesRead(r)'
  <2>1. stage'[r] = "done"
    BY <1>2 DEF TypeOK
  <2>3. DocumentsRead(r)' /\ AggregatesRead(r)'
    BY <1>2, <2>1 DEF DocumentsRead, AggregatesRead
  <2>2. Context(r, s)' = Context(r, s)
    BY <1>2 DEF Context
  <2> QED
    BY <1>7, <2>1, <2>2, <2>3 DEF CardRead, AnswerOfOptimiser
<1>12. Blocked(r)'
  <2>1. input[r].card.blocked /\ d = "APPROVE" => <<r, "cards">> \in unreached /\ ~degraded[r]
    <3> HAVE input[r].card.blocked /\ d = "APPROVE"
    <3>1. ~degraded[r] /\ Verdict(c) = "APPROVE"
      BY DEF FailSafe
    <3>2. ~card[r].blocked
      BY <3>1 DEF Verdict, Decide, Context
    <3> QED
      BY <1>2, <3>1, <3>2 DEF CardRead
  <2> QED
    BY <1>2, <1>7, <2>1 DEF Blocked
<1>13. EventsMatchAnswer'
  <2>1. ASSUME NEW m \in tasks \cup delivered \cup lost
        PROVE  /\ stage'[m.request] = "done" /\ m.decision = answer'[m.request].decision
               /\ m.to = "queue" => m.decision \in AlertDecisions
    <3>1. m.request \in Requests /\ m.request # r
      BY <1>2 DEF TypeOK, Messages, EventsMatchAnswer
    <3> QED
      BY <1>6, <3>1 DEF EventsMatchAnswer, Aside
  <2>2. ASSUME NEW m \in Published(r, c, d)
        PROVE  /\ stage'[m.request] = "done" /\ m.decision = answer'[m.request].decision
               /\ m.to = "queue" => m.decision \in AlertDecisions
    <3>1. m.request = r /\ m.decision = d /\ (m.to = "queue" => d \in AlertDecisions)
      BY DEF Published
    <3> QED
      BY <1>2, <1>7, <3>1 DEF TypeOK
  <2> QED
    BY <1>1, <1>2, <2>1, <2>2 DEF EventsMatchAnswer
<1> QED
  BY <1>6, <1>10, <1>11, <1>12, <1>13, OthersKeep

\* Steps that move no request.
LEMMA OutsideKeeps ==
  ASSUME IInv, UNCHANGED <<input, stage, reads, degraded, answer, unreached, hot>>,
         tasks' \cup delivered' \cup lost' \subseteq tasks \cup delivered \cup lost,
         lifecycle' \in Lifecycles
  PROVE  IInv'
<1>1. TypeOK'
  BY DEF IInv, TypeOK, reads
<1>2. \A r, s : Context(r, s)' = Context(r, s)
  BY DEF Context, reads
<1>3. \A r \in Requests : /\ CardRead(r)' /\ AnswerOfOptimiser(r)' /\ Blocked(r)'
                          /\ DocumentsRead(r)' /\ AggregatesRead(r)'
  BY <1>2 DEF IInv, CardRead, AnswerOfOptimiser, Blocked, DocumentsRead, AggregatesRead, reads
<1>4. EventsMatchAnswer'
  BY DEF IInv, EventsMatchAnswer
<1> QED
  BY <1>1, <1>3, <1>4 DEF IInv

\* The inductive invariant holds at the start.
LEMMA InitHolds == Init => IInv
<1> HAVE Init
<1>1. TypeOK
  BY AbsentDocuments DEF Init, TypeOK, Stages, Answers, Lifecycles
<1> QED
  BY <1>1 DEF Init, IInv, CardRead, AnswerOfOptimiser, Blocked, DocumentsRead, AggregatesRead,
              NoAnswer, EventsMatchAnswer

\* Every step keeps the inductive invariant.
LEMMA NextKeeps == IInv /\ [Next]_vars => IInv'
<1> SUFFICES ASSUME IInv, [Next]_vars PROVE IInv'
  OBVIOUS
<1>1. ASSUME NEW r \in Requests, Arrive(r) \/ Step(r) PROVE IInv'
  BY <1>1, ReadingKeeps, FinishKeeps DEF Step
<1>2. ASSUME NEW m \in tasks, Send(m) PROVE IInv'
  BY <1>2, OutsideKeeps DEF Send, IInv, TypeOK
<1>3. CASE Close
  BY <1>3, OutsideKeeps DEF Close, Lifecycles
<1>4. CASE UNCHANGED vars
  BY <1>4, OutsideKeeps DEF vars, IInv, TypeOK
<1> QED
  BY <1>1, <1>2, <1>3, <1>4 DEF Next

\* Every reachable state satisfies the inductive invariant.
THEOREM Inductive == Spec => []IInv
BY InitHolds, NextKeeps, PTL DEF Spec

\* The types of the state of the hot path.
THEOREM TypeCorrect == Spec => []TypeOK
<1>1. IInv => TypeOK
  BY DEF IInv
<1> QED
  BY <1>1, Inductive, PTL

\* A blocked card is approved only if Cosmos failed to return its document.
THEOREM BlockedCardsAreStopped == Spec => []BlockedCardIsNotApproved
<1>1. IInv => BlockedCardIsNotApproved
  BY DEF IInv, Blocked, BlockedCardIsNotApproved
<1> QED
  BY <1>1, Inductive, PTL

\* Decision events and alerts say what the client was told.
THEOREM EventsAgreeWithAnswers == Spec => []EventsMatchAnswer
<1>1. IInv => EventsMatchAnswer
  BY DEF IInv
<1> QED
  BY <1>1, Inductive, PTL

\* For any amounts, rates and scores, a claimed exemption is lawful for what the backends
\* hold, whichever reads failed, but for the aggregates when Redis did.
THEOREM ExemptionsAreLawful == Spec => []ExemptionIsLawful
<1>1. ASSUME IInv, NEW r \in Requests, stage[r] = "done"
      PROVE  LET c == Held(r, answer[r].score)
             IN Lawful(IF <<r, "redis">> \in unreached THEN [c EXCEPT !.spent = 0, !.count = 0]
                       ELSE c, answer[r].exemption)
  <2> DEFINE c == Context(r, answer[r].score)
             h == Held(r, answer[r].score)
             k == IF <<r, "redis">> \in unreached THEN [h EXCEPT !.spent = 0, !.count = 0] ELSE h
  <2>1. answer[r].score \in 0..100
    BY <1>1 DEF IInv, TypeOK, Answers, NoAnswer
  <2>2. c \in Contexts
    BY <1>1, <2>1, ContextType DEF IInv
  <2>3. Lawful(c, answer[r].exemption)
    BY <1>1, <2>2, SelectedIsLawful DEF IInv, AnswerOfOptimiser
  <2>4. /\ c.amount = k.amount /\ c.channel = k.channel /\ c.eea = k.eea
        /\ k.card = input[r].card /\ k.merchant = input[r].merchant /\ c.score = k.score
        /\ c.card = card[r] /\ c.merchant = merchant[r]
    BY DEF Context, Held
  <2>5. c.spent = k.spent /\ c.count = k.count
    BY <1>1 DEF IInv, AggregatesRead, Context, Held
  <2>6. /\ c.card = k.card \/ ~c.card.found
        /\ c.merchant = k.merchant \/ ~c.merchant.found
    BY <1>1, <2>4 DEF IInv, DocumentsRead, NoCard, NoMerchant
  <2> HIDE DEF c, k
  <2>7. Lawful(k, answer[r].exemption)
    BY <2>3, <2>4, <2>5, <2>6, LawfulAsHeld, Zenon
  <2> QED
    BY <2>7 DEF k
<1>2. IInv => ExemptionIsLawful
  BY <1>1 DEF ExemptionIsLawful
<1> QED
  BY <1>2, Inductive, PTL

\* For any transaction, the decision grows with the score.
THEOREM DecisionsGrowWithScore == Spec => []HigherScoreIsNotMilder
<1>1. ASSUME IInv, NEW r \in Requests, NEW s \in Scores, stage[r] = "done", s >= answer[r].score
      PROVE  Severity(Verdict(Context(r, s))) >= Severity(Verdict(Context(r, answer[r].score)))
  <2>1. answer[r].score \in 0..100 /\ s \in 0..100
    BY <1>1, InputsOK DEF IInv, TypeOK, Answers, NoAnswer
  <2> DEFINE c == Context(r, answer[r].score)
             d == Context(r, s)
  <2>2. c \in Contexts /\ d \in Contexts
    BY <1>1, <2>1, ContextType DEF IInv
  <2>3. c.card = d.card /\ c.score <= d.score
    BY <1>1, <2>1 DEF Context
  <2>4. c.score < 50 /\ d.score < 50 => SelectExemption(c) = SelectExemption(d)
    BY <2>1 DEF Context, SelectExemption, IsCorporate, IsTrustedBeneficiary, IsTra, IsLowValue, Remote
  <2>5. Severity(Verdict(c)) <= Severity(Verdict(d))
    BY <2>2, <2>3, <2>4, VerdictMonotonic
  <2>6. Severity(Verdict(c)) \in Nat /\ Severity(Verdict(d)) \in Nat
    BY DEF Severity
  <2> QED
    BY <2>5, <2>6
<1>2. IInv => HigherScoreIsNotMilder
  BY <1>1 DEF HigherScoreIsNotMilder
<1> QED
  BY <1>2, Inductive, PTL
=============================================================================
