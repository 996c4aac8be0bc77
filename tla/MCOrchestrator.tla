---------------------------- MODULE MCOrchestrator ----------------------------
(***************************************************************************)
(* The orchestrator, model-checked in one run: a behaviour is that of the  *)
(* workflow of one case or that of the live feed of a case, its subject,   *)
(* and the other rests in one of its initial states.                       *)
(***************************************************************************)
EXTENDS MCCaseWorkflow, MCLiveEvents

VARIABLE subject

orchestratorVars == <<subject, vars, liveVars>>

MCInit ==
  /\ subject \in {"case", "feed"}
  /\ Init
  /\ subject = "feed" => budget = 1 /\ stored = None
  /\ LiveInit

MCNext ==
  /\ UNCHANGED subject
  /\ \/ subject = "case" /\ Next /\ UNCHANGED liveVars
     \/ subject = "feed" /\ LiveNext /\ UNCHANGED vars

\* The fairness of the subject's module.
MCSpec ==
  /\ MCInit /\ [][MCNext]_orchestratorVars
  /\ WF_vars(subject = "case" /\ Next)
  /\ \A r \in Replays : WF_liveVars(subject = "feed" /\ GoOn(r))
  /\ \A c \in Clients : WF_liveVars(subject = "feed" /\ Serve(c))
-----------------------------------------------------------------------------
\* The request of a case is over in the end, answered or failed, for any handoffs of the LLM
\* and any failing agents: the loop of the planner does not go round for ever.
Termination == <>[](subject = "case" => RequestOver)
=============================================================================
