----------------------------- MODULE ScaleScripts -----------------------------
(***************************************************************************)
(* scale-to-min.sh and scale-to-prod.sh: each asks the cloud for one       *)
(* change after the other, goes on whatever the answer, and says in the    *)
(* end that the platform is scaled.  The workflow queues its runs; one     *)
(* started from a shell runs beside them.  One resource of each kind       *)
(* stands for those the scripts treat alike: the apps of both regions, the *)
(* clusters, the containers.  The Gremlin graph is not treated like the    *)
(* containers; an account without the Gremlin API has none.                *)
(***************************************************************************)
EXTENDS Naturals, Sequences

CONSTANTS
  Shells,       \* processes that run one of the scripts, once each
  MaxOutages    \* bound: calls that fail for no reason of the estate's

ASSUME ScaleAssumption == MaxOutages \in Nat

VARIABLES
  estate,    \* the resources
  script,    \* of each shell: its run
  outages

scaleVars == <<estate, script, outages>>

Modes == {"min", "prod"}
Resources == {"fabric", "asa", "orchestrator", "scoring", "aml", "container", "graph"}

\* The calls of each script in order; "state", "show" and "capability" only read.
Calls(mode) ==
  IF mode = "min"
  THEN <<"suspend", "stop", "orchestrator", "scoring", "aml", "show", "throughput",
         "capability", "graph throughput">>
  ELSE <<"state", "resume", "start", "orchestrator", "scoring", "aml", "migrate", "throughput",
         "graph migrate", "graph throughput">>

TargetOf(call) ==
  CASE call \in {"suspend", "state", "resume"} -> "fabric"
    [] call \in {"stop", "start"} -> "asa"
    [] call \in {"show", "migrate", "throughput"} -> "container"
    [] call \in {"capability", "graph migrate", "graph throughput"} -> "graph"
    [] OTHER -> call

\* Replicas and instances, least and most.
Size(what, mode) ==
  CASE what = "orchestrator" -> IF mode = "min" THEN <<0, 1>> ELSE <<1, 10>>
    [] what = "scoring" -> IF mode = "min" THEN <<0, 1>> ELSE <<2, 30>>
    [] what = "aml" -> IF mode = "min" THEN <<0, 0>> ELSE <<1, 4>>

Throughput(autoscale, ru) == [autoscale |-> autoscale, ru |-> ru]

NoGraph == Throughput(FALSE, 0)

EstateAt(mode, fabric, container, graph) ==
  [fabric |-> fabric, asa |-> IF mode = "min" THEN "Stopped" ELSE "Running",
   orchestrator |-> Size("orchestrator", mode), scoring |-> Size("scoring", mode),
   aml |-> Size("aml", mode), container |-> container, graph |-> graph]

\* As one of the scripts has just left it; the containers are deployed with manual throughput.
Estates ==
  {EstateAt("prod", "Resuming", Throughput(TRUE, 4000), graph) :
     graph \in {NoGraph, Throughput(TRUE, 4000)}}
  \cup
  {EstateAt("min", "Pausing", Throughput(FALSE, 400), graph) :
     graph \in {NoGraph, Throughput(FALSE, 400)}}

\* known is what the script was told last; failed, touched and stuck are history: resources a
\* call about which failed, that another script changed, and that the script met in a state
\* in which they reject what it asks.
NoScript == [mode |-> "none", at |-> 0, known |-> "none", failed |-> {}, touched |-> {},
             stuck |-> {}]

ScaleInit ==
  /\ estate \in Estates
  /\ script = [r \in Shells |-> NoScript]
  /\ outages = 0

\* The capacity gets where it was going.
FabricSettles ==
  /\ estate.fabric \in {"Pausing", "Resuming"}
  /\ estate' = [estate EXCEPT !.fabric = IF @ = "Pausing" THEN "Paused" ELSE "Active"]
  /\ UNCHANGED <<script, outages>>

\* az account set: the script is off, or over when that fails.
StartScript(r) ==
  /\ script[r].mode = "none"
  /\ \E mode \in Modes, at \in {0, 1} :
       script' = [script EXCEPT ![r] = [NoScript EXCEPT !.mode = mode, !.at = at]]
  /\ UNCHANGED <<estate, outages>>

\* Mutant of MinThroughput: every container is given the manual minimum.
MinThroughputManual(known) == Throughput(FALSE, 400)

\* What scale-to-min asks of a container: the least of the kind of throughput it was shown to
\* have, and the manual one when nothing was shown.
MinThroughput(known) ==
  IF known = "autoscale" THEN Throughput(TRUE, 1000) ELSE Throughput(FALSE, 400)

\* Of the graph scale-to-min asks for the manual minimum, whatever it has.
Wanted(run, call) ==
  IF run.mode = "prod" THEN Throughput(TRUE, 4000)
  ELSE IF call = "throughput" THEN MinThroughput(run.known) ELSE Throughput(FALSE, 400)

\* migrate, and update: a resource takes a throughput of its own kind only.
Migrated(old) == IF old = NoGraph \/ old.autoscale THEN old ELSE Throughput(TRUE, 1000)
Updated(old, new) == IF old # NoGraph /\ old.autoscale = new.autoscale THEN new ELSE old

\* Two calls depend on what a call before them told: resume, and that about the graph in
\* scale-to-min.
Skipped(run, call) ==
  \/ call = "resume" /\ run.known # "Paused"
  \/ call = "graph throughput" /\ run.mode = "min" /\ run.known # "graph"

\* The estate a call asks for.  A change the resource's state does not allow is rejected.
Asked(run, call) ==
  CASE call = "suspend" -> IF estate.fabric = "Active" THEN [estate EXCEPT !.fabric = "Pausing"]
                           ELSE estate
    [] call = "resume" -> IF estate.fabric = "Paused" THEN [estate EXCEPT !.fabric = "Resuming"]
                          ELSE estate
    [] call = "stop" -> [estate EXCEPT !.asa = "Stopped"]
    [] call = "start" -> [estate EXCEPT !.asa = "Running"]
    [] call \in {"orchestrator", "scoring", "aml"} ->
         [estate EXCEPT ![call] = Size(call, run.mode)]
    [] call = "migrate" -> [estate EXCEPT !.container = Migrated(@)]
    [] call = "graph migrate" -> [estate EXCEPT !.graph = Migrated(@)]
    [] call = "throughput" -> [estate EXCEPT !.container = Updated(@, Wanted(run, call))]
    [] call = "graph throughput" -> [estate EXCEPT !.graph = Updated(@, Wanted(run, call))]
    [] OTHER -> estate

\* What a call that reads tells the script; nothing, when it fails.
Told(run, call, answered) ==
  CASE call = "state" -> IF answered THEN estate.fabric ELSE "Unknown"
    [] call = "show" -> IF answered /\ estate.container.autoscale THEN "autoscale" ELSE "none"
    [] call = "capability" -> IF answered /\ estate.graph # NoGraph THEN "graph" ELSE "none"
    [] OTHER -> run.known

\* A capacity in transition rejects both scripts, and a graph with autoscale throughput
\* rejects scale-to-min.
Rejecting(run, call) ==
  IF \/ call \in {"suspend", "state"} /\ estate.fabric \in {"Pausing", "Resuming"}
     \/ call = "graph throughput" /\ run.mode = "min" /\ estate.graph.autoscale
  THEN {TargetOf(call)} ELSE {}

Pending(r) == script[r].at \in 1 .. Len(Calls(script[r].mode))

\* The next call, answered or not (|| true), or none.
CallCloud(r) ==
  /\ Pending(r)
  /\ \E answered \in BOOLEAN :
       LET run == script[r]
           call == Calls(run.mode)[run.at]
           what == TargetOf(call)
       IN /\ answered \/ (outages < MaxOutages /\ ~Skipped(run, call))
          /\ outages' = IF answered THEN outages ELSE outages + 1
          /\ estate' = IF answered /\ ~Skipped(run, call) THEN Asked(run, call) ELSE estate
          /\ script' = [q \in Shells |->
               IF q # r THEN IF estate' # estate THEN [script[q] EXCEPT !.touched = @ \cup {what}]
                             ELSE script[q]
               ELSE [run EXCEPT !.at = @ + 1, !.known = Told(run, call, answered),
                       !.stuck = @ \cup Rejecting(run, call),
                       !.failed = IF answered THEN @ ELSE @ \cup {what}]]

ScaleNext == FabricSettles \/ \E r \in Shells : StartScript(r) \/ CallCloud(r)
-----------------------------------------------------------------------------
\* The throughputs of a mode.
ThroughputsOf(mode) ==
  IF mode = "min" THEN {Throughput(FALSE, 400), Throughput(TRUE, 1000)}
  ELSE {Throughput(TRUE, 4000)}

AtScale(what, mode) ==
  CASE what = "fabric" -> estate.fabric \in (IF mode = "min" THEN {"Pausing", "Paused"}
                                            ELSE {"Resuming", "Active"})
    [] what = "asa" -> estate.asa = IF mode = "min" THEN "Stopped" ELSE "Running"
    [] what = "container" -> estate.container \in ThroughputsOf(mode)
    [] what = "graph" -> estate.graph = NoGraph \/ estate.graph \in ThroughputsOf(mode)
    [] OTHER -> estate[what] = Size(what, mode)

\* The types.
ScaleTypeOK ==
  /\ DOMAIN estate = Resources /\ outages \in 0 .. MaxOutages
  /\ estate.fabric \in {"Active", "Pausing", "Paused", "Resuming"}
  /\ \A r \in Shells :
       script[r].failed \cup script[r].touched \cup script[r].stuck \subseteq Resources

Reported(run) == run.mode \in Modes /\ run.at > Len(Calls(run.mode))

\* When a script says that the platform is scaled to a mode, every resource is, but for those a
\* call about which failed, those another script has changed since this one started, a Fabric
\* capacity that was in transition when the script came to it, and in scale-to-min a graph
\* with autoscale throughput.
ScaledAsReported ==
  \A r \in Shells :
    LET run == script[r]
    IN Reported(run) =>
         \A what \in Resources \ (run.failed \cup run.touched \cup run.stuck) :
           AtScale(what, run.mode)

\* scale-to-min.sh:3 and 73: the script scales down all expensive resources, and says in the
\* end that the platform is scaled to the minimum.  The graph is then at its minimum, unless
\* a call about it failed or another script has changed it.
GraphIsAtMinimum ==
  \A r \in Shells :
    Reported(script[r]) /\ script[r].mode = "min"
      /\ "graph" \notin script[r].failed \cup script[r].touched => AtScale("graph", "min")
=============================================================================
