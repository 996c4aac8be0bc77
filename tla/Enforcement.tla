------------------------------ MODULE Enforcement ------------------------------
(***************************************************************************)
(* The enforcement function: the consumer of the queue highrisk-alerts.    *)
(*                                                                         *)
(* The host locks a message, invokes the function, and completes the       *)
(* message if the function returns.  If it raises, or if host or lock are  *)
(* lost on the way, the message is delivered again, up to MaxDeliveries    *)
(* times.  The function returns in all cases but one: its failures to      *)
(* parse an alert and to store a case are logged.                          *)
(***************************************************************************)
EXTENDS Naturals

CONSTANTS
  Alerts,          \* messages: what their body is, their transaction, their decision
  CaseIds,         \* keys of the container cases
  MaxDeliveries,   \* of a message, set on the queue
  CosmosEndpoint   \* whether the app has one

VARIABLES
  queue,        \* queue[a]: where the message is
  deliveries,   \* deliveries[a]: how often it has been delivered
  cases,        \* cases[id]: the decision of the stored case
  unstored      \* history: alerts whose case was skipped or could not be stored

enforcementVars == <<queue, deliveries, cases, unstored>>

Places == {"absent", "ready", "parse", "persist", "returned", "completed", "dead-letter"}

NoCase == "none"

\* What the body decodes to.
Bodies == {"object", "other json", "no json"}

\* Decisions are compared after trimming, in upper case and with underscores; the decision of
\* an alert is what it is then.
ActionsTable ==
  [d \in {"DECLINE", "STEP_UP", "MANUAL_REVIEW"} |->
    CASE d = "DECLINE"       -> {"block_card", "open_case", "notify_customer"}
      [] d = "STEP_UP"       -> {"enforce_sca"}
      [] d = "MANUAL_REVIEW" -> {"open_case", "notify_customer"}]

\* Mutant of Actions: what the table does not know is reviewed.
ActionsOrReview(d) ==
  IF d \in DOMAIN ActionsTable THEN ActionsTable[d] ELSE ActionsTable["MANUAL_REVIEW"]

\* A decision that is not in the table, such as the SCA of the scoring API, has no actions.
Actions(d) == IF d \in DOMAIN ActionsTable THEN ActionsTable[d] ELSE {}

\* Alerts without a transaction share a case.
CaseId(a) == IF a.transaction = "" THEN "unknown" ELSE a.transaction

EnforcementInit(backlog) ==
  /\ queue = [a \in Alerts |-> IF a \in backlog THEN "ready" ELSE "absent"]
  /\ deliveries = [a \in Alerts |-> 0]
  /\ cases = [id \in CaseIds |-> NoCase]
  /\ unstored = {}

Move(a, place) == queue' = [queue EXCEPT ![a] = place]

\* The host locks the message and invokes the function.
Deliver(a) ==
  /\ queue[a] = "ready"
  /\ Move(a, "parse")
  /\ deliveries' = [deliveries EXCEPT ![a] = @ + 1]
  /\ UNCHANGED <<cases, unstored>>

\* The message goes back to the queue, or is put aside after its last delivery.
Redeliver(a) ==
  /\ Move(a, IF deliveries[a] < MaxDeliveries THEN "ready" ELSE "dead-letter")
  /\ UNCHANGED <<deliveries, cases, unstored>>

OpensCase(a) == a.body = "object" /\ "open_case" \in Actions(a.decision)

\* Up to the case: a body that is no JSON is dropped, JSON that is no object raises.
Enforce(a) ==
  /\ queue[a] = "parse"
  /\ \/ a.body = "other json" /\ Redeliver(a)
     \/ /\ a.body # "other json"
        /\ Move(a, IF OpensCase(a) /\ CosmosEndpoint THEN "persist" ELSE "returned")
        /\ unstored' = IF OpensCase(a) /\ ~CosmosEndpoint THEN unstored \cup {a} ELSE unstored
        /\ UNCHANGED <<deliveries, cases>>

\* The upsert succeeds, or raises with or without having reached the container; either way
\* the function returns.
PersistCase(a) ==
  /\ queue[a] = "persist"
  /\ \/ cases' = [cases EXCEPT ![CaseId(a)] = a.decision] /\ UNCHANGED unstored
     \/ /\ cases' \in {cases, [cases EXCEPT ![CaseId(a)] = a.decision]}
        /\ unstored' = unstored \cup {a}
  /\ Move(a, "returned")
  /\ UNCHANGED deliveries

Complete(a) ==
  /\ queue[a] = "returned"
  /\ Move(a, "completed")
  /\ UNCHANGED <<deliveries, cases, unstored>>

\* The lock expires or the host dies, before the message is completed.
LoseLock(a) ==
  /\ queue[a] \in {"parse", "persist", "returned"}
  /\ Redeliver(a)

EnforcementStep(a) == Deliver(a) \/ Enforce(a) \/ PersistCase(a) \/ Complete(a)

\* A new message, sent by the scoring API.
Enqueued(sent) == [a \in Alerts |-> IF a \in sent THEN "ready" ELSE queue[a]]
=============================================================================
