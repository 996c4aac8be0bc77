------------------------------- MODULE MCTools -------------------------------
(***************************************************************************)
(* The tools around the platform, model-checked in one run: a behaviour is *)
(* that of one of them, its subject, and the others rest in one of their   *)
(* initial states.                                                         *)
(***************************************************************************)
EXTENDS EbaReport, Simulator, TrafficPatterns, DemoConsole, ScaleScripts, Deployment, Scorecard,
        TLC

CONSTANTS w1, w2, t1, t2, s1, s2, o1, o2, r1, r2

VARIABLE subject

Subjects == {"report", "simulator", "patterns", "client", "console", "scale", "deploy",
             "scorecard"}

ebaTools == <<ebaVars, simVars, patternVars>>
demoTools == <<clientVars, consoleOnly>>
shellTools == <<scaleVars, deployVars, scorecardVars>>
toolsVars == <<subject, ebaTools, demoTools, shellTools>>

MCRow(type, bearer, fraud, tx) ==
  [instrument |-> "card", channel |-> "remote", exemption |-> "tra", type |-> type,
   bearer |-> bearer, geo |-> "domestic", tx |-> tx, value |-> 10 * tx, fraud |-> fraud,
   fraudValue |-> 10 * fraud, loss |-> 5 * fraud]

\* A partition with fraud that lacks a type or a bearer, one that does not validate, and none.
MCTables ==
  {{MCRow(None, None, 0, 7), MCRow("lost", "psp", 1, 2), MCRow(None, "payer", 1, 3)},
   {MCRow("lost", None, 3, 2)},
   {}}
MCAttempts == [job |-> 2, manual |-> 1]
MCOffered == t1 :> {"health", "scenario", "load", "inject"} @@ t2 :> {"stress"}

MCInit ==
  /\ subject \in Subjects
  /\ EbaInit /\ (subject # "report" => gold = {} /\ ~aggregates)
  /\ SimInit
  /\ PatternInit /\ (subject # "patterns" => pattern = "normal" /\ burst = MinBurst)
  /\ ConsoleInit /\ (subject # "client" => model = "missing")
  /\ ScaleInit /\ (subject # "scale" => estate = CHOOSE e \in Estates : TRUE)
  /\ DeployInit
  /\ ScorecardInit

ToolsNext ==
  /\ UNCHANGED subject
  /\ \/ /\ subject = "report" /\ EbaNext
        /\ UNCHANGED <<simVars, patternVars, demoTools, shellTools>>
     \/ /\ subject = "simulator" /\ SimNext
        /\ UNCHANGED <<ebaVars, patternVars, demoTools, shellTools>>
     \/ /\ subject = "patterns" /\ PatternNext
        /\ UNCHANGED <<ebaVars, simVars, demoTools, shellTools>>
     \/ /\ subject = "client" /\ ClientNext
        /\ UNCHANGED <<ebaTools, consoleOnly, shellTools>>
     \/ /\ subject = "console" /\ ConsoleNext
        /\ UNCHANGED <<ebaTools, shellTools>>
     \/ /\ subject = "scale" /\ ScaleNext
        /\ UNCHANGED <<ebaTools, demoTools, deployVars, scorecardVars>>
     \/ /\ subject = "deploy" /\ DeployNext
        /\ UNCHANGED <<ebaTools, demoTools, scaleVars, scorecardVars>>
     \/ /\ subject = "scorecard" /\ ScorecardNext
        /\ UNCHANGED <<ebaTools, demoTools, scaleVars, deployVars>>

ToolsSpec == MCInit /\ [][ToolsNext]_toolsVars

\* Bounds for TLC.  The shells are alike, so the first one starts first.  The one outage is in
\* its script, and the other script then waits until that one is over: what a failed call and
\* what another script changed are excepted one by one.
OutageOfOne ==
  subject = "scale" =>
    /\ script'[s2].failed = {}
    /\ script'[s2].mode # "none" =>
         script[s1].mode # "none" /\ (script'[s1].failed = {} \/ ~Pending(s1)')

MCNext == ToolsNext /\ OutageOfOne

MCSpec == MCInit /\ [][MCNext]_toolsVars /\ SimFairness
-----------------------------------------------------------------------------
\* The types of the subject's state, with what its module says of it.
ToolsTypeOK ==
  /\ subject = "report" => EbaTypeOK
  /\ subject = "simulator" => SimTypeOK
  /\ subject = "patterns" => PatternTypeOK
  /\ subject = "client" => ClientTypeOK
  /\ subject = "console" => ConsoleTypeOK
  /\ subject = "scale" => ScaleTypeOK
  /\ subject = "deploy" => DeployTypeOK
  /\ subject = "scorecard" => ScorecardTypeOK

\* What the shell scripts say in the end is so: the platform is at the scale they name, the
\* password they made up can be had, and the scorecard is that of the model they registered,
\* but for the failures and the crossing runs the three parts name.
EstateAsReported == ScaledAsReported /\ SecretKept /\ ScorecardIsOfItsModel
=============================================================================
