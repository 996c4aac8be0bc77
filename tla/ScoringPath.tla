----------------------------- MODULE ScoringPath -----------------------------
(***************************************************************************)
(* The hot path of the scoring API (api.py): a request reads the documents *)
(* of its card and merchant from Cosmos and the aggregates of the card     *)
(* from Redis, is scored, decided and answered; the decision event and the *)
(* alert are sent by tasks of their own, which may outlive the request.    *)
(*                                                                         *)
(* Only the three reads suspend a request.  From the inference to the      *)
(* answer nothing does, and so that is one step.  The score is any value:  *)
(* the model is external, and a failing inference falls back to a stub.    *)
(* The caches in front of Cosmos are left out: a read here may be a hit.   *)
(***************************************************************************)
EXTENDS Psd2, FiniteSets

CONSTANTS
  Configurations,   \* settings a process may be started with
  Requests,         \* transactions
  Inputs,           \* what a request may be about
  Scores,           \* what the model may answer
  AlertDecisions    \* decisions that raise an alert (settings)

\* An input is a request and what the backends hold for it.
ASSUME InputsOK ==
  /\ Configurations \subseteq [cosmos : BOOLEAN, seed : BOOLEAN, hub : BOOLEAN, bus : BOOLEAN]
  /\ Inputs \subseteq [amount : Nat, channel : Channels, eea : BOOLEAN, card : Cards,
                       merchant : Merchants, spent : Nat, count : Nat]
  /\ \A i \in Inputs : (i.card.found \/ i.card = NoCard) /\ (i.merchant.found \/ i.merchant = NoMerchant)
  /\ Scores \subseteq 0..100
  /\ AlertDecisions \subseteq Decisions

VARIABLES
  input,       \* input[r]: what the request is about
  stage,       \* stage[r]: where the request is
  card,        \* card[r], merchant[r], spent[r], count[r]: what it has read
  merchant,
  spent,
  count,
  degraded,    \* degraded[r]: a backend raised
  answer,      \* answer[r]: the response
  tasks,       \* messages that a task is about to send
  delivered,   \* messages in the event hub and in the queue
  lost,        \* history: messages that will not be sent
  unreached,   \* history: requests, with the backend for which their call failed
  lifecycle,   \* of the process
  hot          \* what the process was started with

reads == <<card, merchant, spent, count>>
vars == <<input, stage, reads, degraded, answer, tasks, delivered, lost, unreached, lifecycle, hot>>

Stages == {"new", "card", "merchant", "aggregates", "inference", "done"}

Backends == {"cards", "merchants", "redis"}

Lifecycles == {"serving", "emitter closed", "alerts closed"}

NoAnswer == [decision |-> "none", exemption |-> "NONE", score |-> 0]
Answers == [decision : Decisions, exemption : Exemptions, score : 0..100] \cup {NoAnswer}

\* Decision events go to the event hub, alerts to the queue highrisk-alerts.
Messages == [to : {"hub", "queue"}, request : Requests, decision : Decisions]

\* connect() of either producer: without a name in the settings there is nothing to connect
\* to; an exception leaves the producer unhealthy, and what it is given is dropped.
ConnectEmitter(s) == IF s.hub THEN {{}, {"hub"}} ELSE {{}}
ConnectAlerts(s) == IF s.bus THEN {{}, {"queue"}} ELSE {{}}

\* Cosmos if it is configured, else a dictionary in memory, with the demo documents or none.
Source(s) ==
  CASE s.cosmos             -> "cosmos"
    [] ~s.cosmos /\ s.seed  -> "demo data"
    [] ~s.cosmos /\ ~s.seed -> "empty"

\* Where features are read from, and the producers that connected.
BuildHotPath(s) ==
  {[source |-> Source(s), clients |-> e \cup a] : e \in ConnectEmitter(s), a \in ConnectAlerts(s)}

HotPaths == UNION {BuildHotPath(s) : s \in Configurations}

Init ==
  /\ hot \in HotPaths
  /\ input \in [Requests -> Inputs]
  /\ hot.source = "empty" =>
       \A r \in Requests : input[r].card = NoCard /\ input[r].merchant = NoMerchant
  /\ stage = [r \in Requests |-> "new"]
  /\ card = [r \in Requests |-> NoCard]
  /\ merchant = [r \in Requests |-> NoMerchant]
  /\ spent = [r \in Requests |-> 0]
  /\ count = [r \in Requests |-> 0]
  /\ degraded = [r \in Requests |-> FALSE]
  /\ answer = [r \in Requests |-> NoAnswer]
  /\ tasks = {}
  /\ delivered = {}
  /\ lost = {}
  /\ unreached = {}
  /\ lifecycle = "serving"

Goto(r, s) == stage' = [stage EXCEPT ![r] = s]

Arrive(r) ==
  /\ stage[r] = "new"
  /\ lifecycle = "serving"
  /\ Goto(r, "card")
  /\ UNCHANGED <<input, reads, degraded, answer, tasks, delivered, lost, unreached, lifecycle, hot>>

\* Mutant of FeaturesRaise: the exception is taken for a document that was not found.
FeaturesRaiseUnnoticed(r) ==
  /\ card' = [card EXCEPT ![r] = NoCard]
  /\ merchant' = [merchant EXCEPT ![r] = NoMerchant]
  /\ Goto(r, "aggregates")
  /\ UNCHANGED degraded

\* One try block holds both reads: an exception in either drops both documents.
FeaturesRaise(r) ==
  /\ card' = [card EXCEPT ![r] = NoCard]
  /\ merchant' = [merchant EXCEPT ![r] = NoMerchant]
  /\ Goto(r, "aggregates")
  /\ degraded' = [degraded EXCEPT ![r] = TRUE]

\* The client turns every failure of Cosmos into "not found"; only a document that does
\* not validate raises.
ReadCard(r) ==
  /\ stage[r] = "card"
  /\ \/ /\ \/ card' = [card EXCEPT ![r] = input[r].card] /\ UNCHANGED unreached
           \/ /\ hot.source = "cosmos"
              /\ card' = [card EXCEPT ![r] = NoCard]
              /\ unreached' = unreached \cup {<<r, "cards">>}
        /\ Goto(r, "merchant")
        /\ UNCHANGED <<merchant, degraded>>
     \/ /\ hot.source = "cosmos" /\ input[r].card.found
        /\ FeaturesRaise(r) /\ unreached' = unreached \cup {<<r, "cards">>}
  /\ UNCHANGED <<input, spent, count, answer, tasks, delivered, lost, lifecycle, hot>>

ReadMerchant(r) ==
  /\ stage[r] = "merchant"
  /\ \/ /\ \/ merchant' = [merchant EXCEPT ![r] = input[r].merchant] /\ UNCHANGED unreached
           \/ /\ hot.source = "cosmos"
              /\ merchant' = [merchant EXCEPT ![r] = NoMerchant]
              /\ unreached' = unreached \cup {<<r, "merchants">>}
        /\ Goto(r, "aggregates")
        /\ UNCHANGED <<card, degraded>>
     \/ /\ hot.source = "cosmos" /\ input[r].merchant.found
        /\ FeaturesRaise(r) /\ unreached' = unreached \cup {<<r, "merchants">>}
  /\ UNCHANGED <<input, spent, count, answer, tasks, delivered, lost, lifecycle, hot>>

\* Mutant of AggregatesRaise: the exception leaves the handler.
AggregatesRaiseThrough(r) == Goto(r, "failed") /\ UNCHANGED <<spent, count, degraded>>

\* A field that is no number.
AggregatesRaise(r) ==
  /\ degraded' = [degraded EXCEPT ![r] = TRUE]
  /\ Goto(r, "inference")
  /\ UNCHANGED <<spent, count>>

\* Redis being down is taken for a card without aggregates.
ReadAggregates(r) ==
  /\ stage[r] = "aggregates"
  /\ \/ /\ spent' = [spent EXCEPT ![r] = input[r].spent]
        /\ count' = [count EXCEPT ![r] = input[r].count]
        /\ Goto(r, "inference")
        /\ UNCHANGED <<degraded, unreached>>
     \/ /\ unreached' = unreached \cup {<<r, "redis">>}
        /\ Goto(r, "inference")
        /\ UNCHANGED <<spent, count, degraded>>
     \/ AggregatesRaise(r) /\ unreached' = unreached \cup {<<r, "redis">>}
  /\ UNCHANGED <<input, card, merchant, answer, tasks, delivered, lost, lifecycle, hot>>

Context(r, s) ==
  [amount |-> input[r].amount, channel |-> input[r].channel, eea |-> input[r].eea,
   card |-> card[r], merchant |-> merchant[r], spent |-> spent[r], count |-> count[r], score |-> s]

\* Mutant of FailSafe: the decision is named as the comments do.
FailSafeStepUp(r, decision) == IF degraded[r] /\ decision = "APPROVE" THEN "STEP_UP" ELSE decision

\* A degraded request is challenged, not waved through.
FailSafe(r, decision) == IF degraded[r] /\ decision = "APPROVE" THEN "SCA" ELSE decision

\* Mutant of Published: the decision event is built before the fail-safe.
PublishedEarly(r, c, decision) ==
  {m \in {[to |-> "hub", request |-> r, decision |-> Verdict(c)],
          [to |-> "queue", request |-> r, decision |-> decision]} :
     m.to \in hot.clients /\ (m.to = "queue" => decision \in AlertDecisions)}

\* Mutant of Published: no alert is raised for a degraded request.
PublishedUnlessDegraded(r, c, decision) ==
  {m \in [to : hot.clients, request : {r}, decision : {decision}] :
     m.to = "queue" => decision \in AlertDecisions /\ ~degraded[r]}

\* The messages of a decided request, as far as their producers are connected.
Published(r, c, decision) ==
  {m \in [to : hot.clients, request : {r}, decision : {decision}] :
     m.to = "queue" => decision \in AlertDecisions}

\* Inference, decision, the two publish calls and the answer.
Finish(r) ==
  /\ stage[r] = "inference"
  /\ \E s \in Scores :
       LET c == Context(r, s)
           decision == FailSafe(r, Verdict(c))
       IN /\ answer' = [answer EXCEPT ![r] =
                          [decision |-> decision, exemption |-> SelectExemption(c), score |-> s]]
          /\ tasks' = tasks \cup Published(r, c, decision)
  /\ Goto(r, "done")
  /\ UNCHANGED <<input, reads, degraded, delivered, lost, unreached, lifecycle, hot>>

\* The client a message is sent with is closed: its task fails.
Closed(m) == lifecycle = "alerts closed" \/ (lifecycle = "emitter closed" /\ m.to = "hub")

\* A task sends its message, or swallows the failure.
Send(m) ==
  /\ m \in tasks
  /\ tasks' = tasks \ {m}
  /\ \/ ~Closed(m) /\ delivered' = delivered \cup {m} /\ UNCHANGED lost
     \/ lost' = lost \cup {m} /\ UNCHANGED delivered
  /\ UNCHANGED <<input, stage, reads, degraded, answer, unreached, lifecycle, hot>>

\* The server stops: it waits for the requests, not for the tasks, and closes one client
\* after the other.
Close ==
  /\ \A r \in Requests : stage[r] \in {"new", "done"}
  /\ \/ lifecycle = "serving" /\ lifecycle' = "emitter closed"
     \/ lifecycle = "emitter closed" /\ lifecycle' = "alerts closed"
  /\ UNCHANGED <<input, stage, reads, degraded, answer, tasks, delivered, lost, unreached, hot>>

Step(r) == ReadCard(r) \/ ReadMerchant(r) \/ ReadAggregates(r) \/ Finish(r)

Next ==
  \/ \E r \in Requests : Arrive(r) \/ Step(r)
  \/ \E m \in tasks : Send(m)
  \/ Close

\* The event loop runs every coroutine and every task that can go on; nothing makes
\* requests arrive or the server stop.
Spec ==
  /\ Init /\ [][Next]_vars
  /\ \A r \in Requests : WF_vars(Step(r))
  /\ \A m \in Messages : WF_vars(Send(m))
-----------------------------------------------------------------------------
\* The types of the variables; only a request that is done has an answer.
TypeOK ==
  /\ input \in [Requests -> Inputs]
  /\ stage \in [Requests -> Stages]
  /\ card \in [Requests -> Cards]
  /\ merchant \in [Requests -> Merchants]
  /\ spent \in [Requests -> Nat]
  /\ count \in [Requests -> Nat]
  /\ degraded \in [Requests -> BOOLEAN]
  /\ answer \in [Requests -> Answers]
  /\ tasks \subseteq Messages
  /\ delivered \subseteq Messages
  /\ lost \subseteq Messages
  /\ unreached \subseteq Requests \X Backends
  /\ lifecycle \in Lifecycles
  /\ hot \in HotPaths
  /\ \A r \in Requests : answer[r] # NoAnswer <=> stage[r] = "done"

\* A blocked card is approved only if Cosmos failed to return its document and nothing
\* raised.  In particular, a document that was read and then dropped, because that of the
\* merchant does not validate, does not get the card through.
BlockedCardIsNotApproved ==
  \A r \in Requests :
    input[r].card.blocked /\ answer[r].decision = "APPROVE" =>
      <<r, "cards">> \in unreached /\ ~degraded[r]

\* Whatever is sent about a request, at any time, is what its answer says, and only
\* decisions that are to be enforced raise an alert.
EventsMatchAnswer ==
  \A m \in tasks \cup delivered \cup lost :
    /\ stage[m.request] = "done" /\ m.decision = answer[m.request].decision
    /\ m.to = "queue" => m.decision \in AlertDecisions

\* A decided request as the backends hold its documents and aggregates, whatever it has read.
Held(r, s) ==
  [amount |-> input[r].amount, channel |-> input[r].channel, eea |-> input[r].eea,
   card |-> input[r].card, merchant |-> input[r].merchant,
   spent |-> input[r].spent, count |-> input[r].count, score |-> s]

\* An exemption that is claimed is lawful for the card, the merchant and the earlier payments
\* as the backends hold them: a document that was not read, or was dropped when the other one
\* raised, never makes an exemption.  Only when the call to Redis failed is one granted as if
\* nothing had been spent before.
ExemptionIsLawful ==
  \A r \in Requests : stage[r] = "done" =>
    LET c == Held(r, answer[r].score)
    IN Lawful(IF <<r, "redis">> \in unreached THEN [c EXCEPT !.spent = 0, !.count = 0] ELSE c,
              answer[r].exemption)

\* psd2_optimizer.py:27: no exemption is claimed for a country outside the EEA.
ExemptionsStayInTheEea ==
  \A r \in Requests : answer[r].exemption # "NONE" => input[r].eea

\* With a higher score, the same transaction would not have been decided more leniently:
\* the exemptions, whose choice depends on the score, open no gap.
HigherScoreIsNotMilder ==
  \A r \in Requests, s \in Scores :
    stage[r] = "done" /\ s >= answer[r].score =>
      Severity(Verdict(Context(r, s))) >= Severity(Verdict(Context(r, answer[r].score)))

\* Every request that arrives is answered, whichever backends fail.
EveryRequestIsAnswered ==
  \A r \in Requests : stage[r] = "card" ~> answer[r].decision \in Decisions

\* api.py:82-84: when a feature or aggregate backend is unreachable, the transaction is not
\* approved blindly.
NeverBlindApproved ==
  \A r \in Requests, b \in Backends : <<r, b>> \in unreached => answer[r].decision # "APPROVE"
=============================================================================
