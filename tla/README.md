# A TLA+ development of the Heimdall fraud platform

The platform scores card transactions while they are being authorised, keeps the
behavioural features the scoring relies on, enforces what was decided, and lets a group
of LLM agents work up the suspicious cases. This directory holds TLA+ models of its
services and of the tools around them, TLC configurations that check them on small
instances, and TLAPS proofs for every instance. All paths below are relative to
`services/` unless they say otherwise.

Contents: [1 The system](#1-the-system) · [2 Modules](#2-modules) ·
[3 Model and code](#3-model-and-code) · [4 Runs](#4-runs-and-their-bounds) ·
[5 Fairness](#5-fairness) · [6 Proofs](#6-proofs) · [7 Findings](#7-findings) ·
[8 Not modelled](#8-what-is-not-modelled) · [9 Plan](#9-plan)

## 1. The system

```
 transaction-simulator ──POST /v1/score──▶ scoring-api ──decisions──▶ Event Hub
                                             │  ▲  ▲
                             highrisk-alerts │  │  └── Redis (aggregates per card)
                                             ▼  └───── Cosmos cards, merchants ◀── ml (GNN)
                                  enforcement-function ──▶ Cosmos cases
 Event Hub txn.events ──▶ feature-builder ──▶ Cosmos features, dedup ──▶ feature.events
 alert, replay ──▶ agentic-orchestrator ──▶ LLM, Gremlin graph, Cosmos cases
                                        └──▶ websocket clients (live feed)
 Gold tables ──▶ eba-reporter ──▶ ADLS (three annexes per country and quarter)
```

| Component | State it keeps | Operations | What is hard | What makes it correct |
|---|---|---|---|---|
| orchestrator, one case (`app/planner.py`, `app/agents/`, `app/state.py`) | `WorkflowState`, the case document | `Planner.stream` over six agents, the reflection loop, the final upsert | the LLM chooses handoffs and replans; every agent may fail half-way; two bounds (reflections, steps) interact | the loop ends; a verdict agrees with the case it was given on; what is stored is what was judged |
| orchestrator, live feed (`app/api.py`) | a list of bounded queues per case | `publish`, `subscribe`, `unsubscribe`, replay, the websocket handler | a publisher waits inside a loop over clients that come, read slowly and go; replays share clients and the case document | no client loses, repeats or reorders events; nobody waits for ever |
| feature-builder, aggregator (`features_core.py`) | retained log and windows of one entity | `fold_event` (`update_state`, `_prune`, `compute_features`) | events out of order, edges of windows, a full log | windows hold what they should; nothing is forgotten without need |
| feature-builder, pipeline (`pipeline.py`, `storage.py`, `function_app.py`) | Cosmos `features` and `dedup`, the host's checkpoints | one invocation per batch and partition: dedup check, two read-modify-writes, emit, mark | crashes and redelivery between any two calls, batches that raise, expiring dedup documents, documents with two writers | no event is lost silently; what was published is counted; repeats have a cause |
| scoring-api, hot path (`app/api.py` with `cosmos_client.py`, `features.py`, `eh_producer.py`, `sb_producer.py`, `main.py`) | none of its own between requests; tasks in flight | `POST /v1/score`, fire-and-forget sends, shutdown | three backends that answer, fail silently or raise; tasks that outlive requests | every request is answered; blocked cards stop; answer, event and alert agree |
| scoring-api, PSD2 optimiser (`app/psd2_optimizer.py`) | none | `select_exemption`, `decide` | overlapping tiers and thresholds, an order that depends on the score | claimed exemptions are lawful for what the backends hold; more risk is never treated more mildly |
| scoring-api, feature cache (`app/features.py`) | TTL + LRU caches, Redis hashes | `get_card`, `get_merchant`, `bump`, `seed_demo` | concurrent misses, stale entries | bounded staleness; what is in use stays |
| scoring-api, model (`app/scoring.py`, `app/seed_data.py`) | the ONNX session | `score`, `build_reason_codes` | a model that is missing, broken, or fails on one request | a score in range, always; the seeded cards do what their comments say |
| enforcement-function | Cosmos `cases` | `enforce` | at-least-once delivery, swallowed failures, foreign messages | every declined transaction has a case, and the case says what the client was told |
| eba-reporter (`report.py`, `job.yaml`) | three files per country and quarter | `cli` | a read with a fallback, three uploads over earlier files, retries beside a run by hand | the three files show one report, of the table that was read |
| transaction-simulator | a bounded queue, counters | `_producer`, `_worker`, the patterns | a pool that drains a queue at shutdown | every request is accounted for, and the run ends |
| ml, publishing (`ml/publish_gnn_features.py`) | the Cosmos container `cards` | `publish` | a read and an upsert without an etag, beside whoever blocks cards | publishing changes only what it publishes |
| demo console and client (`scripts/demo_web.py`, `demo_client.py`, `demo_scenarios.py`) | counters, the injected ring in two globals | the runners, `/api/stream`, `/api/reset`, `/api/graph` | a threaded server, several tabs, a port of the scoring rules | what is shown is what production would decide; counts agree; what was cleared stays cleared |
| operations (`scripts/*.sh`, `ml/rai_bootstrap/`) | the cloud estate, the key vault, the model registry | scaling, deployment, teardown, scorecard | calls that fail while the script goes on; runs beside each other | what a script reports is so; the generated password can be had; a scorecard is that of its model |

The components meet in few places: the alert queue (scoring-api to enforcement), the
event hubs, and the Cosmos containers `cards` (read by scoring through its cache, written
by `ml/`), `features` (written by the feature builder) and `cases` (written by the
orchestrator and by enforcement). The first is modelled in `AlertPath`, the second in
`GnnPublish`. The tools share nothing with each other.

## 2. Modules

| Module | What it is |
|---|---|
| `CaseWorkflow` | one fraud case in the orchestrator, from the alert or replay to the answer |
| `CaseReview` | abstract: what a review of a case promises; implemented by `CaseWorkflow` |
| `LiveEvents` | replays of one case publishing to the websocket clients that watch it |
| `SlidingWindow` | the document of one card or merchant and the windows computed from it |
| `FeatureBuilder` | the pipeline around these documents: partitions, batches, Cosmos, the host |
| `Psd2` | the exemption optimiser, as operators |
| `ScoringPath` | the hot path of the scoring API; EXTENDS `Psd2` |
| `Enforcement` | the queue `highrisk-alerts`, its host and the enforcement function |
| `AlertPath` | the composition: EXTENDS `ScoringPath`, instantiates `Enforcement` with its alerts |
| `FeatureCache` | the cache of card documents, with concurrent lookups |
| `GnnPublish` | the composition with the job that writes the documents; EXTENDS `FeatureCache` |
| `Scoring` | scores, reason codes and seeded entities, as operators; EXTENDS `Psd2` |
| `DemoScenarios` | the port of these rules, and the scenarios it decides; EXTENDS `Scoring` |
| `DemoClient`, `DemoConsole` | the command line client, and the web console on top of it |
| `EbaReport` | the quarterly report: read, annexes, uploads, attempts |
| `Simulator`, `TrafficPatterns` | one run of the load generator, and what it draws |
| `ScaleScripts`, `Deployment`, `Scorecard` | the shell scripts, by the state of the cloud they change |
| `…_proofs` | the theorems: of `CaseWorkflow`, `SlidingWindow`, `FeatureBuilder`, `ScoringPath`, `AlertPath`, `FeatureCache` with `GnnPublish`, `LiveEvents`; `Tools_proofs` of all the tools, about `MCTools` |
| `MC…` | the constants of each model for TLC; `MCOrchestrator`, `MCFeatures` and `MCTools` each check the modules of one part of the system in one run, a behaviour being that of one `subject` while the others rest |

A definition marked *Mutant of X* is X with a plausible bug. No action uses one: putting it
in the place of X must make TLC report a property as violated, which shows that the
property looks at that code. `PROJECT.json` says which mutant belongs to which property.

## 3. Model and code

**CaseWorkflow.** The variables are the fields of `WorkflowState` that control the loop
(`reflection_budget`, `classification`, the artefacts present, `visited` and its last
element, `reflection_verdict`, `reflections_used`, `done`), the locals of `Planner.stream`
(`last.next_agent`, `steps`), the phase of the request, and the stored document. `Run` is
one pass of the loop; there is one action per agent and outcome. `AgentFails` is
`Agent.run` catching an exception before the agent changed anything; agents that change
the state and fail afterwards have that as a case of their own action
(`CaseManagerTimesOut`, the invalid names of `RunTriage` and `ReflectHonourReplan`). The
LLM is a choice: of the class, of the next agent (any of `LLMNames`, one of which is no
agent), of the narratives it writes, of the verdict. `mishaps` is a history variable that
remembers whether something failed or the LLM named an agent it was not offered.
Texts, timeline and messages are left out: nothing in the control depends on them.

**LiveEvents.** A replay is a sequence of `Length` events, the first `start`, the last
`end`; at `SnapshotAt` the case manager stores the unfinished case. Coroutines are
interrupted only where they await: at a full queue in `publish`, while an agent runs or
the store answers, at an empty queue, and during `send_text`. So `NextEvent` takes the
copy of the subscriber list and serves the clients up to the first full queue in one
step, and `Resume` goes on from there. The store call of the case manager and the event
that follows are one step, which merges an await no other coroutine can observe apart
from the order of two stores. A client that leaves is noticed only by a failing send
(`SendFails`), as the handler does not read from the socket. A new alert is no replay: it
has a fresh case id that nobody can watch. The module's specification is `LiveSpec`; its
variables and operators have names of their own, so that `MCOrchestrator` can extend it
beside `CaseWorkflow`. `SlidingWindow` (`WindowSpec`) and `FeatureBuilder` are joined in
`MCFeatures` the same way.

**SlidingWindow.** A count, an amount or a number of merchants is a function of the set of
events counted, so `windows[s]` is that set. The log is a set; the code keeps it sorted
by time, and the order matters only for which events a full log drops. Among events of
the same second the set leaves that open, which covers every order of arrival.

**FeatureBuilder.** Each partition has one invocation, whose `stage` is the Cosmos or Event
Hubs call it is about to make; the steps between two awaits are merged into the call that
precedes them. A document is the bag of the transactions counted in it, so that counting
twice shows. `CallFails` lets any Cosmos call raise, an upsert with or without having
reached the container; the exception leaves `feature_builder`, and since `host.json` has
no retry policy the host goes on behind the batch (`GiveUp`). `Crash` is the death of the
host before the checkpoint: the batch comes again, cut differently. `Expire` is the TTL
of the dedup container. `dropped`, `interrupted`, `expired` and `marked` are history.

**Psd2 and ScoringPath.** Amounts are whole euros, scores hundredths, fraud rates hundredths
of a percent; a document that was not found is a record with `found = FALSE`. The request
is suspended only at its three reads, so inference, decision, both publish calls and the
answer are the one step `Finish`. `ReadCard` and `ReadMerchant` have the three outcomes
of the code: the document, "not found" (which the client also makes of every failure),
and an exception from a document that does not validate, which drops both documents.
`unreached` records the backends that failed a request. The score is any member of
`Scores`: the model is not part of the repository, and a failing inference falls back to a
stub that does not raise. `Close` is the shutdown in `lifespan`, which waits for requests
and not for the tasks that send. `Configurations` are the settings a process may be
started with: without Cosmos it has no documents or those of the seed, and it connects
only the producers it has addresses for.

`Lawful` states the conditions of an exemption without the operators of the optimiser: the
limits of Articles 16 (30 euros, 100 in sum, fewer than five payments) and 18, ECOM and EEA
for both, and for the two others the documents that give the customer or the card its kind.
`ExemptionIsLawful` applies it to `Held`, the request with the card, merchant and aggregates
as the backends hold them, not to the `Context` the optimiser was given. That the country
is asked of only two of the four exemptions is the finding of `outside_eea`.

**Enforcement and AlertPath.** `queue[a]` says where a message is: in the queue, or in an
invocation before its parsing, its case or its completion. `Enforce` has the three bodies
the code tells apart: an object, JSON that is no object (on which `.get` raises, so that
the message comes again until it is dead-lettered), and no JSON (logged and completed).
`PersistCase` is the upsert with its swallowed exception, which may come after the write.
`LoseLock` is the host or the lock lost before completion. In `AlertPath` a step of the
scoring API that delivers an alert puts it into the queue. Blocking a card, notifying a
customer and enforcing SCA are log lines in the code: nothing of them is state.

**FeatureCache and GnnPublish.** `cache` is the ordered dictionary, least recently used
first. A lookup suspends between its query and the answer, which are `CosmosReplies` and
`Resume`, so that two misses of one card may answer in either order and a document may
change in between. `given`, `past` and `used` are history: what a request was just given,
what was stored before, and what an ideal cache would hold. The job is the loop of
`publish`: read and upsert are two steps, a missing document is created or skipped, and any
other failure ends the job. `Manage` is whoever blocks and releases cards.

**Scoring and DemoScenarios.** Operators over whole numbers: scores of the stub in
hundredths of a percent before they are cut to hundredths, since half points decide on
thresholds. `Jitters` are the ends of the range of the hash, which are what the run tries;
`StubDecides` and `PortIsExact` (section 6) are proved for every value between.
`Evaluate` is the port. `SeedsAsTold` is what the comments of `seed_data.py` promise of the
decisions, `ScenariosAsProduced` compares the port's answer with the service's.

**DemoConsole and DemoClient.** A runner is the sequence of its events that change something;
`Emit` yields the next one, records it and writes it to the page. `record_injection` and
the handler of `/api/reset` are several steps, as the two globals have no lock, and a
request for the graph reads first one and then again one of them (`GraphAsked`,
`GraphAnswered`). A closed tab's stream goes on until a write fails.

**EbaReport.** A run is a record: where it is, the rows it read and the next file. `Load`
ends with the rows of the table, with none (Cosmos answers and has no documents), or in
failure; a document of Cosmos always has fields that the row model refuses, so the
fallback never yields rows. `Grouped` is the `groupby` of the annexes, which drops rows
that lack a key. `RunFails` is a failing upload or the replica's timeout, after which the
platform may start the job again.

**Simulator and TrafficPatterns.** The queue, its unfinished tasks, the workers and the
main task. Waiting at a full queue is an action that is not enabled. The patterns are
their cursors: the pair of card and merchant a ring transaction gets follows from its
number.

**ScaleScripts, Deployment, Scorecard.** A script is its position in a list of calls to the
cloud, and what it was told; the estate is what the calls change. A failing call is
swallowed (`|| true`) or ends the script (`set -e`), as the script has it. `touched`,
`failed`, `stuck`, `crossed`, `unstored` and `overlapped` are history and name the causes the
properties except: `stuck` the resources a script met in a state in which they reject what it
asks, a Fabric capacity in transition and, for `scale-to-min.sh`, a graph with autoscale
throughput. The Gremlin graph is a resource of its own. `scale-to-prod.sh` migrates and sizes
it as it does the containers; `scale-to-min.sh` asks first whether the account has the Gremlin
API and then always for a manual throughput. An account without it has `NoGraph`
(`infra/modules/cosmos.bicep` enables the API and deploys no graph; the scripts allow for
both). `Updated` is the rule the script's comment states: a resource takes a throughput of
its own kind only.

## 4. Runs and their bounds

| Run | Distinct states | Instance |
|---|---|---|
| `orchestrator` | 363,769 | one case: budgets −1, 1, 2, 3; the code's 20 steps; three agents on offer and one unknown name; a first run or a replay. The feed: two replays of two events, two clients, queues of two |
| `features` | 303,363 | the pipeline: two partitions `<<a, b>>` and `<<bad, a, junk>>`, one failure, one expiry. The windows: five events, eight instants, spans 1 and 3, a log of three |
| `scoring_path` | 206,360 | one request, its alert and a foreign message, seven scores, two deliveries |
| `card_data` | 2,141,534 | three cards, two lookups, a cache of two, a lifetime of one, the clock to 3, one change by hand |
| `tools` | 586,078 | one tool at a time, see below |

The runs that end in a counterexample use the same instances.

* **`orchestrator`**, the case, uses the real step limit. Budget −1 allows no reflection, 1
  and 2 (the default) fit the limit, and 3 (which the repository's test of replay uses) does
  not, so both sides of `FitsStepLimit` occur. One unknown name stands for all of them: the
  planner only finds that it is no agent.
* **`orchestrator`**, the feed: the queues of the code hold 64 events and a workflow of 20
  steps sends at most 42. What matters is kept: one workflow fits a queue (`Length <=
  Capacity`) and two do not. Three events with queues of three (547,293 states) give the same
  verdicts.
* **`features`**, the windows: eight instants are twice the longest window and one more, so
  events fall outside, inside and on both edges of every window and are late by less and by
  more than a window; five events overflow a log of three. Deliveries differ in their
  timestamps only and are numbered as they come (`InTurn`).
* **`features`**, the pipeline: transaction `a` is in both partitions, so its two documents
  have two writers, while those of `b` have one; `bad` lacks the fields the parser needs and
  `junk` is no JSON. One failure at any call is enough for every partial state of one
  attempt; several failures are covered by the proofs.
* **`scoring_path`**: the inputs hold every band of amounts, fraud rates on the limits,
  aggregates on both sides of theirs (a sum and a number of payments), cards of every segment
  and a blocked one, countries inside and outside the EEA; the scores
  are both sides of 35, 50 and 85. Requests share nothing but the lifecycle, and the proofs
  cover any number of them. Inputs that matter only to the optimiser are tried without
  producers, and those with messages with few documents; the foreign messages (no JSON, no
  object, a decision with a case and one without) are tried beside a request that sends
  none, as they share only the queue.
* **`card_data`**: three cards overflow a cache of two, two lookups can miss the same card,
  and the clock passes the end of an entry that was stored after a read took its time. The
  card that is published may be missing. One change by hand is enough to meet the job
  between read and upsert, or a read between query and answer.
* **`tools`**: the state of the run is that of all tools; `subject` says which one runs, and
  the others rest. Report: tables with fraud that lacks a type or a bearer, with a row that
  does not validate, and empty, rewritten once; the job twice (3 in `job.yaml`) and a run by
  hand. Simulator: two workers, room for two (4 per worker in the code), three requests, one
  error kept (50 in the code). Patterns: the code's ring of 10 cards and 3 merchants once
  round and one more, and its bursts of 8 to 25. Console: two tabs, one run each, one click
  on Clear, rings and bursts cut to one and two. Scaling: two runs from both estates,
  with a graph and without one, and one failing call. `OutageOfOne` has the first of the two
  alike shells start first; the failing call is in its script, and the other script then waits
  until that one is over, as a failed call and a crossing script are excepted one by one.
  Deployment: two operators, two deployments. Scorecard: two runs from version 9 on, where
  versions compared as text would fall back.

What the properties say, by hazard:

* *Review of a case.* `VerdictJustified`, `AcceptedCaseIsStoredComplete`,
  `ArtefactsHaveAuthors`: a verdict agrees with the artefacts, not with the visits, and
  the stored case is the judged one. `NeverCutShort`: six steps and five per reflection are
  enough. `HealthyCaseIsAccepted`: without mishaps, one reflection repairs whatever plan
  the LLM began with. `Termination`, and `ReviewIsImplemented`: the refinement.
* *Live feed.* `FeedIsExact`: what a listening client received, holds and has queued is
  exactly the events of each replay since it subscribed. `BlockedOnlyByCrowding`,
  `AnsweredOrAbandoned`: when a replay waits, and for whom. `QuietCaseIsFinished`: no
  snapshot survives among the replays.
* *Windows.* `NewestEventIsExact`, `LateEventMissesNothing`, `ForgottenForAReason`: what
  disorder can and cannot do.
* *Pipeline.* `PublishedIsCounted`, `OvercountHasACause`, `NoSilentLoss`,
  `EventuallyConsumed`: at least once towards the documents with one writer, repeats
  bounded by their causes, losses only where the host was told. The update one fold loses to
  another in a document with two writers is what the code leaves; no property denies it.
* *Hot path.* `BlockedCardIsNotApproved`, `EventsMatchAnswer`, `EveryRequestIsAnswered`; of
  the optimiser `ExemptionIsLawful`: an exemption is claimed only when card, merchant and
  earlier payments, as the backends hold them, allow it, whatever failed on the way, but for
  the zero spent of an unreachable Redis; and `HigherScoreIsNotMilder`.
* *From the answer to the case.* `CaseMatchesAnswer`: the stored case says what the client
  was told. `DeclineLeadsToCase`: a declined transaction gets its case, unless its alert is
  given up on in one of the ways `AlertGivenUp` names: the producer was not connected, the
  send failed, the case could not be stored, the message was dead-lettered.
* *Card documents.* `BoundedStaleness`: what a request is given was current no longer ago
  than the lifetime of an entry and a read, though a slow miss may overwrite a fresher one.
  `RecentlyUsedIsHeld`: neither expiry nor misses that answer in another order push out what
  is in use. `PublishKeepsTheRest`: the job changes the blocked flag only in the moment
  between its read and its upsert. In that moment it does overwrite it: this is excepted, and
  what the property adds is that no other field and no other moment is affected.
* *Report.* `FinishedRunIsFiled`: after a finished run the three files show that run's
  report, unless another run wrote in between. After a *failed* upload the files of two
  submissions stand side by side; nothing promises otherwise, and the property says nothing of it.
* *Simulator.* `RunIsAccountedFor`: join, stops and gather end, and the report's numbers add up.
* *Console.* `ClearedGraphStaysCleared`, `ConsoleTellsTheTruth`: the port decides as the
  service would, page and operations view count alike, and no more cases were opened than
  transactions declined, but for the races that `raced` and `mixed` name, in which a cleared
  graph does come back and the views do differ.
* *Scripts.* `EstateAsReported`: the estate is at the scale a script reports, but for failed
  calls, resources another script changed, a Fabric capacity met in transition, and, of
  `scale-to-min.sh`, a graph with autoscale throughput (`ScaledAsReported`); the password
  Synapse was deployed with can be had, unless the run that made it failed or could not store
  it, or deployments overlapped (`SecretKept`); and a scorecard is that of the model and data
  its run registered, unless runs crossed (`ScorecardIsOfItsModel`).

`CHECK_DEADLOCK FALSE` stands in every configuration because every model ends: a case is
answered, the events are folded, the streams consumed, the requests done, the clock at its
bound, the tools finished.

## 5. Fairness

* `CaseWorkflow`: weak fairness of `Next`. The loop is one coroutine, and every call it
  awaits ends with an answer, an error or a timeout.
* `LiveEvents`: weak fairness of running agents, of resuming a publisher whose queue has
  room, of the final store, of readers and of sends (which end by arriving or failing).
  None for arriving replays and connecting clients.
* `FeatureBuilder`: weak fairness of each partition's step: the host keeps delivering and
  an invocation keeps going. None for failures, crashes and expiries, which are bounded.
* `ScoringPath`: weak fairness of each request that has arrived and of each send. None for
  arrivals and the shutdown.
* `AlertPath`: the same, and weak fairness of each message's next step: the host delivers
  what is in the queue and ends what it has begun. None for losing a lock, which is bounded
  by the deliveries a message has.
* `Simulator`: weak fairness of the main task, of each worker (a post ends within its
  timeout) and of the deadline. None for the interrupt.
* `SlidingWindow`, `FeatureCache`, `GnnPublish`, and the other tools state safety only.

## 6. Proofs

The theorems hold for all values of the constants under the assumptions named in the
modules. Those are types and, beyond them:

* `FeatureBuilder`: finitely many partitions, and cards and merchants are different keys, as
  their prefixes make them.
* `AlertPath`: requests name their transactions and other senders name none.
* `EbaReport`: tables are finite, their counts and amounts are not negative, and only a fraud
  type and a bearer may be missing, as the row model demands.
* `Simulator`, `DemoConsole`: finitely many workers, finitely many tabs. `Deployment`: no
  operator is called "none".
* `TrafficPatterns`: the ring is the code's of 10 cards and 3 merchants; that a round of 30
  meets every pair is true because 10 and 3 have no common factor.

The theorems about the tools are of `ToolsSpec`, which `MCTools` defines: one tool at a time is
at work and the others stay where they rest. The tables, workers, tabs, shells, operators,
runners and bounds are constants there. `MCSpec`, which TLC runs, is `ToolsSpec` with fewer
outages and one order of the two shells (`OutageOfOne`) and with the fairness of the load
generator; both only take behaviours away, so what is proved of `ToolsSpec` holds for it.
Each theorem follows from an inductive invariant; the properties are those the runs check.

* **`CaseWorkflow_proofs`.** `ReviewInv` joins the verdict property with two facts it needs:
  `ArtefactsHaveAuthors`, without which the reflector's two analyses (agents that never
  ran, artefacts that are absent) could disagree, and `Finality`: a final verdict comes
  with `done`, so no agent touches a judged case, and an answered case is the stored one.
  `AcceptedCaseIsStoredComplete` follows from it. `NeverCutShort` has its own invariant,
  `StepBudget`: as long as the LLM stays with the agents on offer, the steps done and those
  left to the end of the pipeline never exceed `6 + 5 * used`. `OnCourse` is what makes
  `HealthyCaseIsAccepted` hold: while nothing goes wrong, whoever ran has delivered, every
  pass ends with a narrative, and after the first reflection what the class requires is
  there or still ahead in the pass under way; so the reflector never finds a gap twice. The refinement of
  `CaseReview` maps every action to a step of the review or a stutter
  (`WorkflowImplementsReview`).
* **`SlidingWindow_proofs`.** The invariant says that windows follow the log and that what
  was forgotten was forgotten for a reason; the exactness of windows then is counting: if
  an event of the window had been dropped for lack of room, a full log of newer events
  would lie in the window too.
* **`FeatureBuilder_proofs`.** `LossInv` for `NoSilentLoss`: everything behind the current
  position of a batch is settled. `CountedInv` for `PublishedIsCounted`: the document an
  invocation holds *is* the stored one as long as the entity has one writer, and each stage
  has counted what it was to count. Without the first part the upsert could lose events,
  which is what happens in documents with two writers. `RoomInv` for `OvercountHasACause`
  counts, besides what a document holds, the partitions that may still count the transaction
  in it (`MayCount`): those between dedup check and upsert, and, while the transaction is not
  marked, all that carry it. An upsert moves a partition from there to the document; an
  attempt cut off or an expiry puts back no more than the bound grows by. The bound is
  `Copies(t) * (1 + expired[t]) + interrupted[t]`: after one expiry *each* partition that
  carries the event may count it again. The instance of the run is too small to tell this
  from one repeat per expiry, which two partitions that are both delivered again exceed.
* **`ScoringPath_proofs`.** The invariant remembers, through the later reads, that the card
  is the stored one, or was not reached, or the request is degraded; and, for
  `ExemptionsAreLawful`, that what the handler holds of card, merchant and aggregates is what
  the backends hold or the default of a failed read (`DocumentsRead`, `AggregatesRead`). The
  rule `Lawful` is judged over the stored data; `LawfulAsHeld` shows that a claim that follows
  from what was read is lawful as held. For the optimiser,
  `TraIsBanded` shows that the three tiers, tried one after the other, amount to one limit
  for each band of amounts, and `VerdictMonotonic` that scores above 50 losing their
  exemption never makes a decision milder.
* **`AlertPath_proofs`.** `AlertPathIsAHotPath`: a step of the composition is a step of the
  hot path or leaves it alone, so that its invariant holds there too. `AlertInv` adds that a
  message in the queue comes from a delivered alert or another sender, and that a case was
  stored for a message of the queue; with `EventsMatchAnswer` of the hot path,
  `CasesAreOfDeclined` follows: the case under a transaction is one of a declined request.
* **`GnnPublish_proofs`.** `CacheInv`: an entry, and the answer a lookup waits to store, was
  current when its read began, or has been replaced only since; reads take at most
  `ReadTime`, and an entry is given out for less than `Ttl` after it was stored.
  `StalenessIsBounded` adds the two up. It rests on lemmas about taking the element of a
  card out of the cache and appending it. `HeldIsCurrent` is the rest of `PublishInv`: what
  the job holds of a card is what Cosmos has unless somebody touched it, so that its upsert
  changes the ring and nothing else (`PublishingKeepsTheRest`). `UsedInOrder`: the cards used
  last are those of the entries, in the same order; a hit, a lookup that finds its entry
  expired, and answers stored in another order than asked for each keep that
  (`UsedLastAreHeld`).
* **`LiveEvents_proofs`.** `LiveInv`: the list of the case holds every client that listens,
  once; the events on their way to a client, one that has left included, are in order and
  not ahead of their replay; what a listening client got and what is on its way make up all
  events since it subscribed. `PublishKeeps` is the heart of it: a put of an event and the
  resumption of a blocked one are the same step for the clients that are reached, those that
  stay pending and the others. `BlockedByOthers` then is the pigeonhole principle: as many
  events of one replay as a queue holds would have as many different numbers, and a replay
  that is blocked has published fewer.
* **`Tools_proofs`.** `ToolsStep`: a step of `MCTools` is one of a single tool and leaves the
  others alone, so each tool has an invariant of its own and they are joined in the end.
  - Report: `FiledInv`: the files written since a run's first upload are its own, made of the
    rows it read, unless another run crossed it; a run is done only with all of them behind it.
    The annexes need a theory of sums over finite sets, since the fold that defines them is
    recursive: `SumStep` comes from well-founded induction on sets of a bounded size
    (`SumsOfSmall`), `SubsetInduction` gives the rest (`SumChange`, `SumMinus`, `SumOfParts`). `GroupedAddsUp`
    then is: the groups of a data frame add up to its rows that have all the keys.
  - Load generator: `SimInv`: what was sent has been counted, is in the queue or is with a
    worker; after the join only Nones are put, one for each worker there is. `ReportAccounts`
    is the safety part of `RunIsAccountedFor`: a run that ends with a report accounts for
    everything. That it ends is left to TLC.
  - Traffic and client: `PatternInv` (the ring has met exactly the pairs its cursor passed),
    `ClientInv` (the exit code is 1 just when a request failed).
  - Console: `GraphInv` follows an injection, a reset and a request for the graph through
    their steps, as long as they do not overlap; `CaseInv` counts, besides the cases opened,
    those a stream is about to open (`Opening`), without which its bound by the declines would
    not be inductive; `PageInv`: the pages and the operations view have counted the same. What
    the demonstration decides is proved case by case from the score before jitter
    (`StubDecides`), and the port agrees with the service for every known card and merchant,
    any amount and any jitter (`PortIsExact`).
  - Scripts: `ScaleInv` says for each position of a script which resources it has handled, and
    for the throughputs of containers and graph, which take two calls each, what lies between
    them (`HalfHandled`); it also carries what the script was told of the Fabric capacity when
    it looked. `EstateIsAsReported` then is that invariant at the end of the script.
    `PasswordInv`: without overlapping runs one is under way at most, and Synapse has its
    password or is gone. `ScorecardInv`: a run that was not crossed finds its own assets to be
    the latest; `VersionsAreKnown`, that it goes by a version there is.

Only model-checked: the liveness properties (`Termination`, `EventuallyConsumed`,
`EveryRequestIsAnswered`, `DeclineLeadsToCase`, `AnsweredOrAbandoned`,
`RunIsAccountedFor`), which are out of the prover's reach under fairness. Every other
property the passing runs check is stated by a theorem.

## 7. Findings

Each is a run of its own in which TLC finds a counterexample.

| Run | The code | What it contradicts |
|---|---|---|
| `case_escalated` | an escalated case is stored as `closed` (`state.py:137`) | the orchestrator's README: the case "is marked `escalated`" |
| `replay_answered` | a publisher blocked at the full queue of a client that leaves waits for ever (`api.py:44`) | a replay is answered (README, `test_workflow_e2e.py`) |
| `out_of_order` | windows have no upper end, so a late event also counts newer ones (`features_core.py:114`) | the README: windows are recomputed exactly for an event out of order |
| `counted_once` | a crash between fold and `mark_seen` counts a transaction twice (`pipeline.py:72`) | the README on idempotency, and `test_features.py:177` |
| `outside_eea` | the corporate and trusted-beneficiary exemptions are claimed without looking at the country (`psd2_optimizer.py:90-100`) | the comment at `psd2_optimizer.py:27`: exemptions "only apply when both PSPs are in the EEA" |
| `graph_at_minimum` | scaling down asks the Gremlin graph for a manual 400 (`scale-to-min.sh:67`), which an autoscale graph rejects, and swallows the error | the script's lines 3 and 73, "Scaled to minimum.", and its own line 50 |
| `blind_approve` | the clients swallow failing reads, the fail-safe of the handler does not see them, and the request is approved (`cosmos_client.py:77`, `features.py:172`) | the comment at `api.py:82-84`: "we never blind-approve" |

The passing runs show how far each goes. An event newer than all before it is exact
(`NewestEventIsExact`); a repeat has a cause and is bounded by it (`OvercountHasACause`); a
request whose backend *raises* is never approved; a replay waits for ever only at the queue
of a client that has left; an exemption of the other kinds is lawful, the country included
(`ExemptionIsLawful`); and every resource that did not reject its call is what the script
reports (`EstateAsReported`).

Other observations, met while modelling and excepted or reproduced in the models:

* `enforcement-function` never blocks a card: `block_card` is a log line, and nothing writes
  `is_blocked`. Its decisions `STEP_UP` and `MANUAL_REVIEW` are produced by no service, and
  the scoring API's `SCA` has no actions. `infra/` declares no container `cases`.
* No service calls `AggregatesStore.bump`: in production the velocity aggregates are zero.
* `transaction-simulator` posts camel-case bodies to `/score`; the API serves `/v1/score` and
  expects snake case. `publish_gnn_features.py` writes database `fraudintel`, key `/card_id`;
  `infra/` deploys `fraud` and `/cardId`.
* `demo_scenarios.py` has a reason code, `VELOCITY_DECLINES_1H`, that the optimiser has not;
  decisions and exemptions agree. The hot card of the seed scores 0.75 to 0.80, not the 0.55
  to 0.70 its comment says; the decision is the promised one.
* A fraud ring injected while Clear or a graph request is under way may be shown as the
  illustrative ring, or as nothing (`demo_web.py`). The operations view counts every declined
  transaction as a case opened; only single transactions and scenarios open one.
* Annexes B and D leave out fraud that lacks a type or a bearer, so they need not add up to
  the totals. If the lakehouse cannot be read, the Cosmos fallback yields an empty report or
  an exception; the empty one overwrites a filled one.
* The patterns of the simulator keep a stale or copied local amount when they raise the
  amount in euro.
* `deploy.sh:110` stores the generated password "so it is never lost"; a run that fails after
  Synapse is deployed, or whose vault refuses the secret, loses it (`unstored`).
* `scale-to-prod.sh` and `scale-to-min.sh` report success over a Fabric capacity in
  transition and over calls that failed or were rejected; `graph_at_minimum` is the one case
  in which that needs no outage and no second operator. `teardown.sh` looks for deleted vaults
  to purge before there are any, and purge protection forbids it.
* `rai_scorecard.yml` takes the data at `@latest` and the model by version, so that crossing
  runs judge another run's model or data.

## 8. What is not modelled

* The arithmetic of the ONNX models and their training (`ml/train_*.py`,
  `ml/data/synthetic_data.py`, `ml/score.py`): numerics without a protocol. Their output is
  any score.
* `AggregatesStore.bump` and `seed_demo`: no service calls the first, and the second runs
  once before the first request.
* A NaN score: whether a model can return one is not in the repository.
* The Gremlin queries, prompts and mock backends of the orchestrator's clients, and the
  texts they produce.
* `preflight.sh`, `check-readiness.sh`, `smoke-test.sh`, `build-and-push-images.sh`,
  `import-grafana-dashboard.sh`: read-only checks, or commands one after the other.
* Fabric notebooks and pipelines: run by a service outside the repository. `EbaReport`
  lets the table they write change at any time.
* `infra/`, `powerbi/`, `dashboards/`, `ops/`, `docs/`, `slides/`, `agents/`, the HTML of the
  console: declarations, documents and layout.
* Within the modelled parts: two hosts on one partition during a rebalance, texts,
  timelines, telemetry, and `Planner.run`, which no endpoint calls.

## 9. Plan

What is done: the services and the tools listed above, each with the behaviour its hazards
are about, and a theorem for every property but the liveness ones. Left, in this order:

1. An abstract specification of at-least-once folding which `FeatureBuilder` implements, and
   the proof of it.
2. A lease that moves in the middle of a batch (two hosts on one partition).
