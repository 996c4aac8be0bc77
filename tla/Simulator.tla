------------------------------ MODULE Simulator ------------------------------
(***************************************************************************)
(* One run of the load generator (services/transaction-simulator): a       *)
(* producer fills a bounded queue until its deadline, workers post the     *)
(* transactions to the scoring API, and the main task waits for both and   *)
(* writes the report.                                                      *)
(***************************************************************************)
EXTENDS Naturals, Sequences, FiniteSets, FiniteSetsExt, Functions

CONSTANTS
  Workers,       \* --concurrency workers
  PerWorker,     \* room in the queue per worker: 4 in the code
  MaxErrors,     \* errors kept: 50 in the code
  MaxRequests    \* bound: requests until the deadline

ASSUME SimAssumption ==
  IsFiniteSet(Workers) /\ PerWorker \in Nat \ {0} /\ MaxErrors \in Nat /\ MaxRequests \in Nat

VARIABLES
  phase,     \* of the main task
  queue,     \* asyncio.Queue: transactions, then a None for each worker
  pending,   \* its unfinished tasks
  worker,    \* what each worker does
  stops,     \* Nones still to put
  result,    \* RunResult
  report     \* report.json, or the empty function

simVars == <<phase, queue, pending, worker, stops, result, report>>

NoReport == <<>>
Room == PerWorker * Cardinality(Workers)
NoResult == [sent |-> 0, ok |-> 0, failed |-> 0, latencies |-> 0, statuses |-> 0, decisions |-> 0,
             errors |-> 0]

SimInit ==
  /\ phase = "idle" /\ queue = <<>> /\ pending = 0
  /\ worker = [w \in Workers |-> "idle"]
  /\ stops = 0 /\ result = NoResult /\ report = NoReport

\* run, with a known pattern: _drive starts the workers and goes on as the producer.
StartRun ==
  /\ phase = "idle"
  /\ phase' = "producing"
  /\ UNCHANGED <<queue, pending, worker, stops, result, report>>

Put(item) ==
  /\ Len(queue) < Room
  /\ queue' = Append(queue, item)
  /\ pending' = pending + 1

\* One turn of _producer: it waits while the queue is full, and counts afterwards.
Produce ==
  /\ phase = "producing" /\ result.sent < MaxRequests
  /\ Put("transaction")
  /\ result' = [result EXCEPT !.sent = @ + 1]
  /\ UNCHANGED <<phase, worker, stops, report>>

\* The deadline is looked at between two turns only.
DeadlinePasses ==
  /\ phase = "producing" /\ result.sent > 0
  /\ phase' = "joining"
  /\ UNCHANGED <<queue, pending, worker, stops, result, report>>

\* queue.join() returns: a None for each worker is next.
Joined ==
  /\ phase = "joining" /\ pending = 0
  /\ phase' = "stopping" /\ stops' = Cardinality(Workers)
  /\ UNCHANGED <<queue, pending, worker, result, report>>

PutStop ==
  /\ phase = "stopping" /\ stops > 0
  /\ Put("none")
  /\ stops' = stops - 1
  /\ UNCHANGED <<phase, worker, result, report>>

\* gather: the workers have all returned.
Gathered ==
  /\ phase = "stopping" /\ stops = 0
  /\ \A w \in Workers : worker[w] = "gone"
  /\ phase' = "gathered"
  /\ UNCHANGED <<queue, pending, worker, stops, result, report>>

\* RunResult.summary, as write_reports stores it: 25 of the errors.
Summary(r) == [r EXCEPT !.errors = Min({@, 25})]

\* write_reports, before the p99 is compared with its threshold.
WriteReport ==
  /\ phase = "gathered"
  /\ report' = Summary(result)
  /\ \E code \in {"exit 0", "exit 2"} : phase' = code
  /\ UNCHANGED <<queue, pending, worker, stops, result>>

\* Ctrl-C: asyncio.run cancels main task and workers, and nothing is reported.
Interrupt ==
  /\ phase \in {"producing", "joining", "stopping"}
  /\ phase' = "interrupted"
  /\ worker' = [w \in Workers |-> "gone"]
  /\ UNCHANGED <<queue, pending, stops, result, report>>

\* _worker takes the next item; a None ends it.
Take(w) ==
  /\ worker[w] = "idle" /\ queue # <<>>
  /\ queue' = Tail(queue)
  /\ IF Head(queue) = "none"
     THEN worker' = [worker EXCEPT ![w] = "gone"] /\ pending' = pending - 1
     ELSE worker' = [worker EXCEPT ![w] = "posting"] /\ UNCHANGED pending
  /\ UNCHANGED <<phase, stops, result, report>>

\* Mutant of Finished: task_done after an answer only.
FinishedIfAnswered(outcome) == IF outcome = "error" THEN pending ELSE pending - 1

\* task_done stands in a finally.
Finished(outcome) == pending - 1

\* The post is answered with success or refused, or fails or times out; a body that is no JSON
\* object counts as a decision too.
Posted(w) ==
  /\ worker[w] = "posting"
  /\ \E outcome \in {"success", "refused", "error"} :
       /\ result' = [result EXCEPT
            !.ok = @ + IF outcome = "success" THEN 1 ELSE 0,
            !.failed = @ + IF outcome = "success" THEN 0 ELSE 1,
            !.latencies = @ + 1,
            !.statuses = @ + IF outcome = "error" THEN 0 ELSE 1,
            !.decisions = @ + IF outcome = "success" THEN 1 ELSE 0,
            !.errors = IF outcome = "error" /\ @ < MaxErrors THEN @ + 1 ELSE @]
       /\ pending' = Finished(outcome)
  /\ worker' = [worker EXCEPT ![w] = "idle"]
  /\ UNCHANGED <<phase, queue, stops, report>>

MainStep == Produce \/ DeadlinePasses \/ Joined \/ PutStop \/ Gathered \/ WriteReport
WorkerStep(w) == Take(w) \/ Posted(w)

SimNext == StartRun \/ MainStep \/ Interrupt \/ \E w \in Workers : WorkerStep(w)

\* The event loop runs every task that can go on; a post ends within its timeout of 5 s; the
\* deadline comes, however slow the queue.
SimFairness ==
  /\ WF_simVars(MainStep) /\ WF_simVars(DeadlinePasses)
  /\ \A w \in Workers : WF_simVars(WorkerStep(w))
-----------------------------------------------------------------------------
\* The types; and the queue never holds more than its room, nor a transaction behind a None.
SimTypeOK ==
  /\ phase \in {"idle", "producing", "joining", "stopping", "gathered", "exit 0", "exit 2",
                "interrupted"}
  /\ worker \in [Workers -> {"idle", "posting", "gone"}]
  /\ stops \in 0 .. Cardinality(Workers)
  /\ result \in [DOMAIN NoResult -> Nat] /\ result.errors <= MaxErrors
  /\ Len(queue) <= Room
  /\ Cardinality(Range(queue)) <= 1

\* Every request sent is answered or failed, with a latency each, a status for each answer and a
\* decision for each success; and no worker is left behind.
Accounted ==
  /\ report.sent = report.ok + report.failed
  /\ report.latencies = report.sent
  /\ report.decisions = report.ok
  /\ report.sent - report.statuses <= report.failed
  /\ report.errors = Min({report.sent - report.statuses, MaxErrors, 25})
  /\ worker = [w \in Workers |-> "gone"] /\ queue = <<>>

\* A run that has begun and is not interrupted ends, with a report that accounts for its requests.
RunIsAccountedFor ==
  <>[](\/ phase \in {"idle", "interrupted"}
       \/ phase \in {"exit 0", "exit 2"} /\ Accounted)
=============================================================================
