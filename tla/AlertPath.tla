------------------------------ MODULE AlertPath ------------------------------
(***************************************************************************)
(* The hot path and the enforcement function, joined by the queue          *)
(* highrisk-alerts: from the answer to a transaction to the case of it.    *)
(***************************************************************************)
EXTENDS ScoringPath

CONSTANTS
  Transaction,     \* Transaction[r]: the id in request r
  Foreign,         \* messages that somebody else may have put into the queue
  MaxDeliveries,
  CosmosEndpoint

VARIABLES queue, deliveries, cases, unstored

\* A request names its transaction, and other senders do not name it.
ASSUME AlertPathOK ==
  /\ MaxDeliveries \in Nat \ {0}
  /\ \A r \in Requests : Transaction[r] \notin {"", "unknown"}
  /\ \A a \in Foreign :
       /\ a.origin \notin Requests /\ a.transaction = ""
       /\ a.decision \in {"", "DECLINE", "STEP_UP", "MANUAL_REVIEW"}

\* What the scoring API puts into the queue for a message.
AlertOf(m) ==
  [body |-> "object", transaction |-> Transaction[m.request], decision |-> m.decision,
   origin |-> m.request]

AllAlerts == {AlertOf(m) : m \in {n \in Messages : n.to = "queue"}} \cup Foreign

CaseIds == {Transaction[r] : r \in Requests} \cup {"unknown"}

INSTANCE Enforcement WITH Alerts <- AllAlerts

AlertInit ==
  /\ Init
  /\ \E backlog \in {{}} \cup {{a} : a \in Foreign} : EnforcementInit(backlog)

\* A step of the scoring API; a message it has sent to the queue is in the queue.
ScoringStep ==
  /\ Next
  /\ queue' = Enqueued({AlertOf(m) : m \in {n \in delivered' \ delivered : n.to = "queue"}})
  /\ UNCHANGED <<deliveries, cases, unstored>>

EnforcementNext ==
  /\ \E a \in AllAlerts : EnforcementStep(a) \/ LoseLock(a)
  /\ UNCHANGED vars

AlertNext == ScoringStep \/ EnforcementNext

alertVars == <<vars, enforcementVars>>

\* Beside the fairness of the hot path, the host delivers what is in the queue and ends what
\* it has begun.  Nothing makes it lose a lock.
AlertSpec ==
  /\ AlertInit /\ [][AlertNext]_alertVars
  /\ \A r \in Requests : WF_alertVars(Step(r) /\ ScoringStep)
  /\ \A m \in Messages : WF_alertVars(Send(m) /\ ScoringStep)
  /\ \A a \in AllAlerts : WF_alertVars(EnforcementStep(a) /\ UNCHANGED vars)
-----------------------------------------------------------------------------
\* The types of the hot path and of the queue; a message waits only while it has deliveries
\* left, and only a decision with a case gets as far as storing one.
AlertTypeOK ==
  /\ TypeOK
  /\ queue \in [AllAlerts -> Places]
  /\ deliveries \in [AllAlerts -> 0..MaxDeliveries]
  /\ cases \in [CaseIds -> {NoCase} \cup DOMAIN ActionsTable]
  /\ unstored \subseteq AllAlerts
  /\ \A a \in AllAlerts :
       /\ queue[a] \in {"absent", "ready"} => deliveries[a] < MaxDeliveries
       /\ queue[a] = "persist" => OpensCase(a)

\* A case that is kept under a transaction records what the client was answered about it,
\* and that is a decision whose actions include a case.
CaseMatchesAnswer ==
  \A r \in Requests : cases[Transaction[r]] # NoCase =>
    \E q \in Requests :
      /\ Transaction[q] = Transaction[r]
      /\ cases[Transaction[r]] = answer[q].decision
      /\ answer[q].decision = "DECLINE"

\* The alert of a request does not get that far: its producer is not connected, its send or
\* its case failed, or the host gave up on it.
AlertGivenUp(r) ==
  \/ "queue" \notin hot.clients
  \/ \E m \in lost : m.to = "queue" /\ m.request = r
  \/ \E a \in AllAlerts : a.origin = r /\ (a \in unstored \/ queue[a] = "dead-letter")

\* Every declined transaction gets its case, unless its alert is given up on: no message of
\* another sender, no redelivery and no shutdown comes between them.
DeclineLeadsToCase ==
  \A r \in Requests :
    answer[r].decision = "DECLINE" ~> cases[Transaction[r]] = "DECLINE" \/ AlertGivenUp(r)
=============================================================================
