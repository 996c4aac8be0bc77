------------------------------ MODULE DemoConsole ------------------------------
(***************************************************************************)
(* The web console of the demonstration (demo_web.py): a threaded server   *)
(* with one stream of events per run, the counters of the operations view  *)
(* under a lock, and the injected fraud ring in two globals without one.   *)
(* A browser tab counts the transactions it is shown itself.               *)
(***************************************************************************)
EXTENDS DemoClient, FiniteSetsExt

CONSTANTS
  Tabs,
  Offered,     \* of each tab: the actions of RUNNERS it starts
  MaxRuns,     \* bound: streams each tab starts
  MaxClears    \* bound: clicks on Clear

Actions == {"health", "score", "scenario", "load", "inject", "stress", "all"}

ASSUME ConsoleAssumption == IsFiniteSet(Tabs) /\ Offered \in [Tabs -> SUBSET Actions]

VARIABLES
  stream,    \* of each tab: the events its runner has still to yield
  page,      \* of each tab: whether it is open, and the transactions it has counted
  metrics,   \* MetricsStore: how often each decision was recorded, and errors
  cases,     \* cases the orchestrator opened for the runs since the counters were last reset
  last,      \* _LAST_INJECTION
  cleared,   \* _GRAPH_CLEARED
  clear,     \* of each tab: where the handler of its /api/reset is
  graph,     \* one request of /api/graph: where it is and what it returned
  mixed,     \* history: a click on Clear met a run, or the counts of another tab
  raced,     \* history: an injection was recorded during a reset or during that request
  counts     \* runs of each tab, and clears, so far

consoleOnly ==
  <<stream, page, metrics, cases, last, cleared, clear, graph, mixed, raced, counts>>
consoleVars == <<clientVars, consoleOnly>>

Counted == {"APPROVE", "SCA", "DECLINE", "ERROR"}
Zero == [d \in Counted |-> 0]

Repeat(step, n) == [i \in 1 .. n |-> step]
Post(profile) == [kind |-> "tx", of |-> profile]
Single(profile) == [kind |-> "score", of |-> profile]
Step(kind) == [kind |-> kind, of |-> "none"]
Curated == [i \in DOMAIN Scenarios |-> [kind |-> "scenario", of |-> i]]

\* The runners, by the events they yield that change something.  run_load shows the first 300
\* transactions as tx and the rest as tx_agg; here, the first one.  Recording a ring is two
\* steps, setting _LAST_INJECTION and resetting _GRAPH_CLEARED.
RunnerOf(action) ==
  LET Load == <<Post("normal")>> \o Repeat([kind |-> "tx_agg", of |-> "sca"], BurstSize - 1)
      Inject == Repeat(Post("ring"), RingSize) \o <<Step("record"), Step("uncleared")>>
      Health == Repeat(Step("probe"), 2)
  IN CASE action = "health" -> Health
       [] action = "score" -> <<Single("decline")>>
       [] action = "scenario" -> Curated
       [] action = "load" -> Load
       [] action = "inject" -> Inject
       [] action = "stress" -> <<Step("synthetic")>>
       [] action = "all" -> Health \o <<Single("normal"), Single("sca"), Single("decline")>>
                            \o Curated \o Load \o Inject

Idle == [running |-> FALSE, todo |-> <<>>]
Fresh == [open |-> TRUE, total |-> 0]
NoRequest == [at |-> "idle", after |-> FALSE, shown |-> "none"]

ConsoleInit ==
  /\ ClientInit
  /\ stream = [t \in Tabs |-> Idle] /\ page = [t \in Tabs |-> Fresh]
  /\ metrics = Zero /\ cases = 0 /\ last = "none" /\ cleared = FALSE
  /\ clear = [t \in Tabs |-> "idle"] /\ graph = NoRequest
  /\ mixed = FALSE /\ raced = FALSE /\ counts = [runs |-> [t \in Tabs |-> 0], clears |-> 0]

\* run(): the buttons are disabled until the run ends.
StartStream(t) ==
  /\ page[t].open /\ ~stream[t].running
  /\ counts.runs[t] < MaxRuns
  /\ \E action \in Offered[t] :
       stream' = [stream EXCEPT ![t] = [running |-> TRUE, todo |-> RunnerOf(action)]]
  /\ counts' = [counts EXCEPT !.runs[t] = @ + 1]
  /\ UNCHANGED <<clientVars, page, metrics, cases, last, cleared, clear, graph, mixed, raced>>

\* Mutant of Recorded: the events beyond the detail cap are not recorded.
RecordedDetail(kind) == kind \in {"tx", "score", "scenario", "recovered"}

\* MetricsStore.record looks at tx and tx_agg events; a scenario is one tx, or two.
Recorded(kind) == kind \in {"tx", "score", "tx_agg", "scenario", "recovered"}

\* A single transaction or a scenario that is declined opens a case next; and the customer of one
\* scenario passes the challenge.
FollowUp(step, decision) ==
  IF step.kind \in {"score", "scenario"} /\ decision = "DECLINE" THEN <<Step("case")>>
  ELSE IF step.kind = "scenario" /\ Recovers(step.of) /\ decision = "SCA"
       THEN <<Step("recovered")>> ELSE <<>>

\* write_event, of an event that was recorded: the page counts every transaction it is shown
\* (countDecision).  Of a tab that is closed, the stream goes on until a write fails.
Written(t, step, decision) ==
  /\ page' = [page EXCEPT ![t].total = @ + IF step.kind = "probe" \/ ~page[t].open THEN 0 ELSE 1]
  /\ stream' = [stream EXCEPT ![t].todo = FollowUp(step, decision) \o Tail(@)]

\* What is shown: of a scenario its decision, and after a challenge the approval, of a
\* transaction that was posted the decision of the service.
Shown(step) ==
  IF step.kind = "scenario"
  THEN {Evaluate(Scenarios[step.of], j).decision : j \in Jitters}
  ELSE CASE step.kind = "recovered" -> {"APPROVE"}
         [] step.kind = "probe" -> {"none"}
         [] OTHER -> LiveOutcomes(step.of)

Emit(t) ==
  /\ stream[t].running /\ stream[t].todo # <<>>
  /\ Head(stream[t].todo).kind \notin {"synthetic", "case", "record", "uncleared"}
  /\ \E decision \in Shown(Head(stream[t].todo)) :
       /\ metrics' = IF Recorded(Head(stream[t].todo).kind)
                     THEN [metrics EXCEPT ![decision] = @ + 1] ELSE metrics
       /\ Written(t, Head(stream[t].todo), decision)
  /\ UNCHANGED <<clientVars, cases, last, cleared, clear, graph, mixed, raced, counts>>

\* agentic_case_events: the orchestrator opens the case and answers with it, or the run goes on
\* without: it may have been opened all the same, if only reading it failed.
OpenCase(t) ==
  /\ stream[t].running /\ stream[t].todo # <<>> /\ Head(stream[t].todo).kind = "case"
  /\ cases' \in {cases, cases + 1}
  /\ stream' = [stream EXCEPT ![t].todo = Tail(@)]
  /\ UNCHANGED <<clientVars, page, metrics, last, cleared, clear, graph, mixed, raced, counts>>

\* record_synthetic: the split of a hundred samples; they are not shown as rows.
Synthesize(t) ==
  /\ stream[t].running /\ stream[t].todo # <<>> /\ Head(stream[t].todo).kind = "synthetic"
  /\ metrics' = [metrics EXCEPT !["APPROVE"] = @ + 82, !["SCA"] = @ + 13, !["DECLINE"] = @ + 5]
  /\ stream' = [stream EXCEPT ![t].todo = Tail(@)]
  /\ mixed' = TRUE
  /\ UNCHANGED <<clientVars, page, cases, last, cleared, clear, graph, raced, counts>>

Resetting == \E t \in Tabs : clear[t] \in {"metrics", "graph"}
Recording ==
  \E t \in Tabs : stream[t].todo # <<>> /\ Head(stream[t].todo).kind = "uncleared"

\* _record_injection.
Record(t) ==
  /\ stream[t].running /\ stream[t].todo # <<>>
  /\ \/ Head(stream[t].todo).kind = "record" /\ last' = "ring" /\ UNCHANGED cleared
     \/ Head(stream[t].todo).kind = "uncleared" /\ cleared' = FALSE /\ UNCHANGED last
  /\ stream' = [stream EXCEPT ![t].todo = Tail(@)]
  /\ raced' = (raced \/ Resetting \/ graph.at # "idle")
  /\ UNCHANGED <<clientVars, page, metrics, cases, clear, graph, mixed, counts>>

\* The runner ends, or a write to a closed tab fails.
EndStream(t) ==
  /\ stream[t].running
  /\ stream[t].todo = <<>> \/ ~page[t].open
  /\ stream' = [stream EXCEPT ![t] = Idle]
  /\ UNCHANGED <<clientVars, page, metrics, cases, last, cleared, clear, graph, mixed,
                raced, counts>>

CloseTab(t) ==
  /\ page[t].open
  /\ page' = [page EXCEPT ![t] = [Fresh EXCEPT !.open = FALSE]]
  /\ mixed' = TRUE
  /\ UNCHANGED <<clientVars, stream, metrics, cases, last, cleared, clear, graph,
                raced, counts>>

\* A click on Clear: the page is cleared at once, the server when the request arrives.  The
\* button is not disabled during a run.
ClickClear(t) ==
  /\ page[t].open /\ clear[t] = "idle" /\ counts.clears < MaxClears
  /\ mixed' = (mixed \/ \E u \in Tabs : \/ stream[u].running
                                        \/ u # t /\ page[u].total > 0)
  /\ page' = [page EXCEPT ![t].total = 0]
  /\ clear' = [clear EXCEPT ![t] = "sent"]
  /\ counts' = [counts EXCEPT !.clears = @ + 1]
  /\ UNCHANGED <<clientVars, stream, metrics, cases, last, cleared, graph, raced>>

\* /api/reset: the counters, then the two globals.
ResetMetrics(t) ==
  /\ clear[t] = "sent"
  /\ metrics' = Zero /\ cases' = 0
  /\ clear' = [clear EXCEPT ![t] = "metrics"]
  /\ mixed' = (mixed \/ \E u \in Tabs : stream[u].running \/ page[u].total > 0)
  /\ raced' = (raced \/ Recording)
  /\ UNCHANGED <<clientVars, stream, page, last, cleared, graph, counts>>

ResetInjection(t) ==
  /\ clear[t] = "metrics"
  /\ last' = "none"
  /\ clear' = [clear EXCEPT ![t] = "graph"]
  /\ UNCHANGED <<clientVars, stream, page, metrics, cases, cleared, graph, mixed,
                raced, counts>>

\* Mutant of ResetGraph: the flag is left alone when there was no injection to clear.
ResetGraphIfShown(t) ==
  /\ clear[t] = "graph"
  /\ clear' = [clear EXCEPT ![t] = "idle"]
  /\ UNCHANGED <<clientVars, stream, page, metrics, cases, last, cleared, graph,
                mixed, raced, counts>>

ResetGraph(t) ==
  /\ clear[t] = "graph"
  /\ cleared' = TRUE
  /\ clear' = [clear EXCEPT ![t] = "idle"]
  /\ UNCHANGED <<clientVars, stream, page, metrics, cases, last, graph, mixed, raced, counts>>

\* fraud_ring_graph, of one request: it looks whether there is an injection, then reads it once
\* more to return it, or reads the flag.
GraphAsked ==
  /\ graph = NoRequest
  /\ graph' = [at |-> IF last # "none" THEN "found" ELSE "none found", shown |-> "none",
               after |-> counts.clears > 0 /\ \A t \in Tabs : clear[t] = "idle"]
  /\ raced' = (raced \/ Recording)
  /\ UNCHANGED <<clientVars, stream, page, metrics, cases, last, cleared, clear, mixed, counts>>

GraphAnswered ==
  /\ graph.at \in {"found", "none found"}
  /\ graph' = [graph EXCEPT !.at = "idle",
       !.shown = IF graph.at = "found" THEN (IF last = "none" THEN "null" ELSE last)
                 ELSE IF cleared THEN "empty" ELSE "illustrative"]
  /\ UNCHANGED <<clientVars, stream, page, metrics, cases, last, cleared, clear,
                mixed, raced, counts>>

ConsoleNext ==
  \/ GraphAsked \/ GraphAnswered
  \/ \E t \in Tabs : \/ StartStream(t) \/ Emit(t) \/ OpenCase(t) \/ Synthesize(t) \/ Record(t)
                     \/ EndStream(t) \/ CloseTab(t) \/ ClickClear(t)
                     \/ ResetMetrics(t) \/ ResetInjection(t) \/ ResetGraph(t)
-----------------------------------------------------------------------------
\* The types.
ConsoleTypeOK ==
  /\ last \in {"none", "ring"} /\ cleared \in BOOLEAN
  /\ graph.shown \in {"none", "null", "ring", "empty", "illustrative"}
  /\ metrics \in [Counted -> Nat] /\ cases \in Nat
  /\ \A t \in Tabs : page[t].open \/ page[t].total = 0

\* After a click on Clear has been carried out, the graph view shows the illustrative ring no
\* more, but an empty graph or the ring injected since: unless that was being recorded while a
\* reset or the request for the graph was under way.
ClearedGraphStaysCleared == graph.after /\ graph.shown = "illustrative" => raced

\* What a scenario shows is what its text promises and what the service would have answered
\* with the same features, whatever the jitter.
ScenariosAsProduced ==
  \A t \in Tabs :
    LET todo == stream[t].todo
    IN todo # <<>> /\ Head(todo).kind = "scenario" =>
         LET s == Scenarios[Head(todo).of]
         IN \A j \in Jitters :
              LET shown == Evaluate(s, j)
                  produced == Answer(s.f, StubScore(s.f, j))
              IN /\ shown.decision = s.promised /\ shown.exemption = s.exemption
                 /\ shown.decision = produced.decision /\ shown.exemption = produced.exemption

\* When nothing is under way, the operations view has counted the transactions the tabs have
\* counted, unless a click on Clear met a run or another tab, one was closed, or samples were
\* made up.
PageAgreesWithOps ==
  /\ \A t \in Tabs : ~stream[t].running /\ clear[t] = "idle"
  /\ ~mixed
  => SumFunction([t \in Tabs |-> page[t].total]) = SumFunction(metrics)

\* The operations view, which takes the declined for the cases opened, reports no fewer than there
\* were, under the same conditions.
CasesAreDeclined == ~mixed => cases <= metrics["DECLINE"]

\* The console shows what production would have decided, and counts alike wherever it counts.
ConsoleTellsTheTruth ==
  SeedsAsTold /\ ScenariosAsProduced /\ PageAgreesWithOps /\ CasesAreDeclined
=============================================================================
