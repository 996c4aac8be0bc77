--------------------------- MODULE AlertPath_proofs ---------------------------
(* Theorems about AlertPath: the composition is a hot path, and its cases are those of    *)
(* declined transactions.                                                                 *)
EXTENDS AlertPath, ScoringPath_proofs

\* A step of the composition is one of the hot path, or none of it.
LEMMA AlertStep == [AlertNext]_alertVars => [Next]_vars
BY DEF AlertNext, ScoringStep, EnforcementNext, alertVars, enforcementVars

\* The composition implements the hot path: what is shown of that holds here.
THEOREM AlertPathIsAHotPath == AlertSpec => Init /\ [][Next]_vars
<1>1. AlertInit => Init
  BY DEF AlertInit
<1> QED
  BY <1>1, AlertStep, PTL DEF AlertSpec

\* The inductive invariant of the hot path holds in the composition.
THEOREM HotPathInductive == AlertSpec => []IInv
BY InitHolds, NextKeeps, AlertPathIsAHotPath, PTL

\* What the queue holds of a request was delivered to it.
QueueIsDelivered ==
  \A a \in AllAlerts : queue[a] # "absent" =>
    a \in Foreign \/ \E m \in delivered : m.to = "queue" /\ a = AlertOf(m)

\* A case of a transaction is that of an alert which was delivered and opens a case.
CaseIsDelivered ==
  \A r \in Requests : cases[Transaction[r]] # NoCase =>
    \E m \in delivered :
      /\ Transaction[m.request] = Transaction[r]
      /\ cases[Transaction[r]] = m.decision
      /\ "open_case" \in Actions(m.decision)

\* The inductive invariant of the composition.
AlertInv == IInv /\ AlertTypeOK /\ QueueIsDelivered /\ CaseIsDelivered

\* The hot path forgets no message that it has delivered.
LEMMA DeliveredGrows ==
  ASSUME [Next]_vars
  PROVE  delivered \subseteq delivered'
<1>1. CASE UNCHANGED vars
  BY <1>1 DEF vars
<1>2. ASSUME NEW r \in Requests, Arrive(r) \/ Step(r) PROVE delivered' = delivered
  BY <1>2 DEF Arrive, Step, ReadCard, ReadMerchant, ReadAggregates, Finish
<1>3. ASSUME NEW m \in tasks, Send(m) PROVE delivered \subseteq delivered'
  BY <1>3 DEF Send
<1>4. CASE Close
  BY <1>4 DEF Close
<1> QED
  BY <1>1, <1>2, <1>3, <1>4 DEF Next

\* Only decisions of the table open a case, and of the answers only DECLINE.
LEMMA OpeningDecisions ==
  /\ \A d : "open_case" \in Actions(d) => d \in DOMAIN ActionsTable
  /\ \A d \in Decisions : "open_case" \in Actions(d) => d = "DECLINE"
BY DEF Actions, ActionsTable, Decisions

\* A message is delivered at least once.
LEMMA DeliveriesType == MaxDeliveries \in Nat /\ 0 < MaxDeliveries
<1>1. MaxDeliveries \in Nat \ {0}
  BY AlertPathOK, Zenon
<1> QED
  BY <1>1

\* The actions of a decision are read off the table.
LEMMA OpensCaseType ==
  ASSUME NEW a, OpensCase(a)
  PROVE  a.decision \in DOMAIN ActionsTable
BY OpeningDecisions DEF OpensCase

\* A step of the function keeps the types.
LEMMA EnforcementTypes ==
  ASSUME AlertTypeOK, NEW a \in AllAlerts, EnforcementStep(a) \/ LoseLock(a), UNCHANGED vars
  PROVE  AlertTypeOK'
<1>1. TypeOK'
  BY DEF AlertTypeOK, TypeOK, vars, reads
<1> USE DeliveriesType
<1>2. CASE Deliver(a)
  <2>1. deliveries[a] \in Nat /\ deliveries[a] < MaxDeliveries
    BY <1>2 DEF AlertTypeOK, Deliver
  <2>2. deliveries[a] + 1 \in 0..MaxDeliveries
    BY <2>1
  <2>3. deliveries' \in [AllAlerts -> 0..MaxDeliveries] /\ queue' \in [AllAlerts -> Places]
    BY <1>2, <2>2 DEF AlertTypeOK, Deliver, Move, Places
  <2>4. \A b \in AllAlerts : /\ queue'[b] = IF b = a THEN "parse" ELSE queue[b]
                             /\ b # a => deliveries'[b] = deliveries[b]
    BY <1>2 DEF AlertTypeOK, Deliver, Move
  <2> QED
    BY <1>1, <1>2, <2>3, <2>4 DEF AlertTypeOK, Deliver
<1>3. ASSUME Redeliver(a), queue[a] \notin {"absent", "ready"} PROVE AlertTypeOK'
  BY <1>1, <1>3 DEF AlertTypeOK, Redeliver, Move, Places
<1>4. CASE Enforce(a)
  <2>1. CASE a.body = "other json"
    BY <1>3, <1>4, <2>1 DEF Enforce
  <2>2. CASE a.body # "other json"
    BY <1>1, <1>4, <2>2 DEF AlertTypeOK, Enforce, Move, Places
  <2> QED
    BY <2>1, <2>2
<1>5. CASE PersistCase(a)
  <2>1. a.decision \in DOMAIN ActionsTable
    BY <1>5, OpensCaseType DEF AlertTypeOK, PersistCase
  <2>2. cases' \in [CaseIds -> {NoCase} \cup DOMAIN ActionsTable]
    BY <1>5, <2>1 DEF AlertTypeOK, PersistCase
  <2> QED
    BY <1>1, <1>5, <2>2 DEF AlertTypeOK, PersistCase, Move, Places
<1>6. CASE Complete(a)
  BY <1>1, <1>6 DEF AlertTypeOK, Complete, Move, Places
<1>7. CASE LoseLock(a)
  BY <1>3, <1>7 DEF LoseLock
<1> QED
  BY <1>2, <1>4, <1>5, <1>6, <1>7 DEF EnforcementStep

\* A step of the function puts no message into the queue, and stores only the case of one.
LEMMA EnforcementKeeps ==
  ASSUME AlertInv, NEW a \in AllAlerts, EnforcementStep(a) \/ LoseLock(a), UNCHANGED vars
  PROVE  AlertInv'
<1>1. IInv' /\ delivered' = delivered
  BY NextKeeps DEF AlertInv, vars
<1>2. AlertTypeOK'
  BY EnforcementTypes DEF AlertInv
<1>3. \A b \in AllAlerts : queue'[b] # "absent" => queue[b] # "absent"
  BY DEF AlertInv, AlertTypeOK, EnforcementStep, Deliver, Enforce, PersistCase, Complete, LoseLock,
         Redeliver, Move
<1>4. QueueIsDelivered'
  BY <1>1, <1>3 DEF AlertInv, QueueIsDelivered
<1>5. CaseIsDelivered'
  <2>1. CASE cases' = cases
    BY <1>1, <2>1 DEF AlertInv, CaseIsDelivered
  <2>2. CASE cases' # cases
    <3>1. PersistCase(a) /\ cases' = [cases EXCEPT ![CaseId(a)] = a.decision]
      BY <2>2 DEF EnforcementStep, Deliver, Enforce, PersistCase, Complete, LoseLock, Redeliver
    <3>2. OpensCase(a) /\ queue[a] # "absent"
      BY <3>1 DEF AlertInv, AlertTypeOK, PersistCase
    <3>3. ASSUME NEW r \in Requests, cases'[Transaction[r]] # NoCase
          PROVE  \E m \in delivered :
                   /\ Transaction[m.request] = Transaction[r]
                   /\ cases'[Transaction[r]] = m.decision
                   /\ "open_case" \in Actions(m.decision)
      <4>1. CASE CaseId(a) # Transaction[r]
        <5>1. cases'[Transaction[r]] = cases[Transaction[r]]
          BY <3>1, <4>1 DEF AlertInv, AlertTypeOK, CaseIds
        <5> QED
          BY <3>3, <5>1 DEF AlertInv, CaseIsDelivered
      <4>2. CASE CaseId(a) = Transaction[r]
        <5>1. a.transaction = Transaction[r] /\ a \notin Foreign
          BY <4>2, AlertPathOK DEF CaseId
        <5>2. PICK m \in delivered : m.to = "queue" /\ a = AlertOf(m)
          BY <3>2, <5>1 DEF AlertInv, QueueIsDelivered
        <5>3. cases'[Transaction[r]] = a.decision
          BY <3>1, <4>2 DEF AlertInv, AlertTypeOK, CaseIds
        <5>4. a.transaction = Transaction[m.request] /\ a.decision = m.decision
          BY <5>2 DEF AlertOf
        <5> QED
          BY <3>2, <5>1, <5>3, <5>4 DEF OpensCase
      <4> QED
        BY <4>1, <4>2
    <3> QED
      BY <1>1, <3>3 DEF CaseIsDelivered
  <2> QED
    BY <2>1, <2>2
<1> QED
  BY <1>1, <1>2, <1>4, <1>5 DEF AlertInv

\* A step of the hot path puts into the queue what it delivers, and stores no case.
LEMMA ScoringKeeps ==
  ASSUME AlertInv, ScoringStep
  PROVE  AlertInv'
<1>1. IInv' /\ delivered \subseteq delivered'
  BY NextKeeps, DeliveredGrows DEF AlertInv, ScoringStep
<1>2. \A a \in AllAlerts :
        queue'[a] = IF a \in {AlertOf(m) : m \in {n \in delivered' \ delivered : n.to = "queue"}}
                    THEN "ready" ELSE queue[a]
  BY DEF ScoringStep, Enqueued
<1>3. QueueIsDelivered'
  BY <1>1, <1>2 DEF AlertInv, QueueIsDelivered
<1>4. CaseIsDelivered'
  BY <1>1 DEF AlertInv, CaseIsDelivered, ScoringStep
<1>5. AlertTypeOK'
  <2>1. queue' \in [AllAlerts -> Places]
    BY DEF AlertInv, AlertTypeOK, ScoringStep, Enqueued, Places
  <2>2. TypeOK'
    BY <1>1 DEF IInv
  <2>3. ASSUME NEW a \in AllAlerts, queue'[a] # queue[a]
        PROVE  queue[a] = "absent" /\ queue'[a] = "ready"
    <3>1. PICK m \in delivered' \ delivered : m.to = "queue" /\ a = AlertOf(m)
      BY <1>2, <2>3
    <3>2. m \in Messages
      BY <1>1 DEF IInv, TypeOK
    <3>3. a \notin Foreign
      BY <3>1, <3>2, AlertPathOK DEF AlertOf, Messages
    <3>4. ASSUME NEW n \in delivered, n.to = "queue", a = AlertOf(n) PROVE FALSE
      <4>1. n \in Messages
        BY DEF AlertInv, IInv, TypeOK
      <4>2. n = m
        BY <3>1, <3>2, <3>4, <4>1 DEF AlertOf, Messages
      <4> QED
        BY <3>1, <4>2
    <3> QED
      BY <1>2, <2>3, <3>1, <3>3, <3>4 DEF AlertInv, QueueIsDelivered
  <2> QED
    BY <2>1, <2>2, <2>3 DEF AlertInv, AlertTypeOK, ScoringStep
<1> QED
  BY <1>1, <1>3, <1>4, <1>5 DEF AlertInv

\* Every reachable state of the composition satisfies its inductive invariant.
THEOREM AlertInductive == AlertSpec => []AlertInv
<1>1. AlertInit => AlertInv
  <2> HAVE AlertInit
  <2>1. IInv /\ delivered = {}
    BY InitHolds DEF AlertInit, Init
  <2>2. PICK backlog \in {{}} \cup {{a} : a \in Foreign} : EnforcementInit(backlog)
    BY DEF AlertInit
  <2>3. AlertTypeOK
    <3>1. TypeOK /\ 0 \in 0..MaxDeliveries /\ 0 < MaxDeliveries
      BY <2>1, DeliveriesType DEF IInv
    <3>2. queue \in [AllAlerts -> Places] /\ \A a \in AllAlerts : queue[a] \in {"absent", "ready"}
      BY <2>2 DEF EnforcementInit, Places
    <3>3. /\ deliveries \in [AllAlerts -> 0..MaxDeliveries] /\ \A a \in AllAlerts : deliveries[a] = 0
          /\ cases \in [CaseIds -> {NoCase} \cup DOMAIN ActionsTable]
          /\ unstored = {}
      BY <2>2, <3>1 DEF EnforcementInit
    <3> QED
      BY <3>1, <3>2, <3>3 DEF AlertTypeOK
  <2>4. QueueIsDelivered
    BY <2>2 DEF EnforcementInit, QueueIsDelivered
  <2>5. CaseIsDelivered
    BY <2>2 DEF EnforcementInit, CaseIsDelivered, CaseIds
  <2> QED
    BY <2>1, <2>3, <2>4, <2>5 DEF AlertInv
<1>2. ASSUME AlertInv, [AlertNext]_alertVars PROVE AlertInv'
  <2>1. CASE ScoringStep
    BY <1>2, <2>1, ScoringKeeps
  <2>2. CASE EnforcementNext
    BY <1>2, <2>2, EnforcementKeeps DEF EnforcementNext
  <2>3. CASE UNCHANGED alertVars
    <3>1. IInv' /\ TypeOK'
      BY <1>2, <2>3, NextKeeps DEF AlertInv, alertVars, IInv
    <3> QED
      BY <1>2, <2>3, <3>1 DEF AlertInv, alertVars, enforcementVars, vars, AlertTypeOK,
         QueueIsDelivered, CaseIsDelivered
  <2> QED
    BY <1>2, <2>1, <2>2, <2>3 DEF AlertNext
<1>3. AlertInv /\ [AlertNext]_alertVars => AlertInv'
  BY <1>2
<1> QED
  BY <1>1, <1>3, PTL DEF AlertSpec

\* The types of the composition, and with them the limit on deliveries.
THEOREM AlertTypesCorrect == AlertSpec => []AlertTypeOK
<1>1. AlertInv => AlertTypeOK
  BY DEF AlertInv
<1> QED
  BY <1>1, AlertInductive, PTL

\* A case under a transaction is that of a declined one.
THEOREM CasesAreOfDeclined == AlertSpec => []CaseMatchesAnswer
<1>1. ASSUME AlertInv, NEW r \in Requests, cases[Transaction[r]] # NoCase
      PROVE  \E q \in Requests :
               /\ Transaction[q] = Transaction[r]
               /\ cases[Transaction[r]] = answer[q].decision
               /\ answer[q].decision = "DECLINE"
  <2>1. PICK m \in delivered :
          /\ Transaction[m.request] = Transaction[r]
          /\ cases[Transaction[r]] = m.decision
          /\ "open_case" \in Actions(m.decision)
    BY <1>1 DEF AlertInv, CaseIsDelivered
  <2>2. m.request \in Requests /\ m.decision \in Decisions /\ m.decision = answer[m.request].decision
    BY <1>1, <2>1 DEF AlertInv, IInv, TypeOK, EventsMatchAnswer, Messages
  <2> QED
    BY <2>1, <2>2, OpeningDecisions
<1>2. AlertInv => CaseMatchesAnswer
  BY <1>1 DEF CaseMatchesAnswer
<1> QED
  BY <1>2, AlertInductive, PTL
=============================================================================
