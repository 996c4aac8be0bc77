------------------------------ MODULE MCFeatures ------------------------------
(***************************************************************************)
(* The feature builder, model-checked in one run: a behaviour is that of   *)
(* the pipeline or that of the log and the windows of one document, its    *)
(* subject, and the other rests in its initial state.                      *)
(***************************************************************************)
EXTENDS MCFeatureBuilder, MCSlidingWindow

VARIABLE subject

featureVars == <<subject, vars, windowVars>>

MCInit == subject \in {"pipeline", "windows"} /\ Init /\ WindowInit

\* Deliveries differ in nothing but their timestamps, so they may be numbered as they come.
InTurn == \A e \in folded' \ folded : e.id = Cardinality(folded')

MCNext ==
  /\ UNCHANGED subject
  /\ \/ subject = "pipeline" /\ Next /\ UNCHANGED windowVars
     \/ subject = "windows" /\ WindowNext /\ InTurn /\ UNCHANGED vars

\* The fairness of the pipeline.
MCSpec ==
  /\ MCInit /\ [][MCNext]_featureVars
  /\ \A p \in Partitions : WF_vars(subject = "pipeline" /\ Step(p))
-----------------------------------------------------------------------------
\* Every partition is consumed to its end: no event, malformed or not, blocks those behind
\* it, and neither does a crash or a failed batch.
EventuallyConsumed == <>[](subject = "pipeline" => Consumed)
=============================================================================
