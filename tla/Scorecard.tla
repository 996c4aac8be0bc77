------------------------------ MODULE Scorecard ------------------------------
(***************************************************************************)
(* The Responsible AI scorecard of the fraud model: run_rai_scorecard.sh   *)
(* and ml/rai_bootstrap/register_submit.py both register the train and     *)
(* test sets and the model, and submit a pipeline that is given the        *)
(* model's name and version but takes the latest data when it starts.      *)
(***************************************************************************)
EXTENDS Naturals, Sequences

CONSTANTS
  Runners,        \* who may run one of the two
  FirstVersion    \* versions each asset has had

ASSUME ScorecardAssumption == FirstVersion \in Nat

VARIABLES
  registry,   \* of each asset: the runs its versions after FirstVersion came from
  scoring     \* of each runner: its run

scorecardVars == <<registry, scoring>>

Assets == {"train", "test", "model"}
Order == <<"train", "test", "model">>
NoRunYet == [by |-> "none", at |-> 0, version |-> 0, listed |-> TRUE, judged |-> <<>>,
             crossed |-> FALSE]

Latest(asset) == FirstVersion + Len(registry[asset])
OwnerOf(asset, version) ==
  IF version \in FirstVersion + 1 .. Latest(asset) THEN registry[asset][version - FirstVersion]
  ELSE "earlier"

ScorecardInit ==
  /\ registry = [a \in Assets |-> <<>>]
  /\ scoring = [r \in Runners |-> NoRunYet]

\* The artefacts are trained, or those of the last training taken; without them nothing starts.
StartScoring(r) ==
  /\ scoring[r] = NoRunYet
  /\ \E by \in {"script", "python"} : scoring' = [scoring EXCEPT ![r].by = by, ![r].at = 1]
  /\ UNCHANGED registry

\* The next asset is registered, as a new version; or the call fails, and the run with it.
Register(r) ==
  /\ scoring[r].at \in 1 .. 3
  /\ LET asset == Order[scoring[r].at]
     IN \/ /\ registry' = [registry EXCEPT ![asset] = Append(@, r)]
           /\ scoring' = [q \in Runners |->
                IF q = r THEN [scoring[r] EXCEPT !.at = @ + 1,
                                 !.version = IF asset = "model" THEN Latest("model") + 1 ELSE @]
                ELSE [scoring[q] EXCEPT !.crossed = @ \/ scoring[q].at > 1]]
        \/ /\ scoring' = [scoring EXCEPT ![r].at = 9]
           /\ UNCHANGED registry

\* Mutant of Listed: the versions are compared as text.
ListedAsText(versions) ==
  LET Text(v) == IF v < 10 THEN 10 * v ELSE v
  IN CHOOSE v \in versions : \A w \in versions : Text(w) <= Text(v)

\* The script takes the greatest version it is listed; 1 when the list cannot be had.
Listed(versions) == CHOOSE v \in versions : \A w \in versions : w <= v

\* The python one keeps the version it was told when it registered the model.
AskVersion(r) ==
  /\ scoring[r].at = 4
  /\ \E listed \in IF scoring[r].by = "script" THEN BOOLEAN ELSE {TRUE} :
       scoring' = [scoring EXCEPT ![r].at = 5, ![r].listed = listed,
         ![r].version = IF scoring[r].by = "python" THEN @
                        ELSE IF listed THEN Listed(1 .. Latest("model")) ELSE 1]
  /\ UNCHANGED registry

\* The job starts: model_info is the version it was given, model_input and the data the latest.
Submit(r) ==
  /\ scoring[r].at = 5
  /\ scoring' = [scoring EXCEPT ![r].at = 6,
       ![r].judged = [info |-> OwnerOf("model", scoring[r].version),
                      loaded |-> OwnerOf("model", Latest("model")),
                      train |-> OwnerOf("train", Latest("train")),
                      test |-> OwnerOf("test", Latest("test"))]]
  /\ UNCHANGED registry

ScorecardNext ==
  \E r \in Runners : StartScoring(r) \/ Register(r) \/ AskVersion(r) \/ Submit(r)
-----------------------------------------------------------------------------
\* The types.
ScorecardTypeOK ==
  /\ DOMAIN registry = Assets
  /\ \A r \in Runners : scoring[r].at \in 0 .. 6 \cup {9} /\ scoring[r].version <= Latest("model")

\* A scorecard bears the version its run registered, judges that model, and judges it on the
\* data of that run: unless another run registered something after this one's first data set.
\* The version alone is right even then, if it is not the script that ran; and the script's is
\* not if it could not list the versions.
ScorecardIsOfItsModel ==
  \A r \in Runners :
    LET run == scoring[r]
    IN run.at = 6 =>
         /\ ~run.crossed =>
              run.judged.loaded = r /\ run.judged.train = r /\ run.judged.test = r
         /\ run.listed /\ (run.by = "script" => ~run.crossed) => run.judged.info = r
=============================================================================
