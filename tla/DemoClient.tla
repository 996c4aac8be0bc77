------------------------------ MODULE DemoClient ------------------------------
(***************************************************************************)
(* The command line client of the demonstration (demo_client.py), which    *)
(* drives the deployed scoring API, and the transactions it makes.  The    *)
(* web console makes its own with the same helpers.                        *)
(***************************************************************************)
EXTENDS DemoScenarios

CONSTANTS
  Models,      \* states the model of the deployed service may be in
  RingSize,    \* --cards
  BurstSize    \* min(tps * duration, max)

ASSUME ClientAssumption == Models \subseteq ModelStates /\ RingSize \in Nat /\ BurstSize \in Nat \ {0}

VARIABLES
  model,   \* of the deployed service, with its seeded features
  cli      \* the client: commands still to run, requests sent and failed, and its exit code

clientVars == <<model, cli>>

Profiles == {"normal", "sca", "decline", "blocked", "ring"}

\* make_tx, with the features the service finds: cards it was not seeded with are unknown.
\* The cards of an injected ring are not those of the seed.
TxOf(profile) ==
  CASE profile = "normal" -> Features(250, UnknownCard, UnknownMerchant, NoAgg)
    [] profile = "sca" -> Features(550, RingCard, UnknownMerchant, SeededAgg(RingCard))
    [] profile = "decline" -> Features(700, RingCard, UnknownMerchant, SeededAgg(RingCard))
    [] profile = "blocked" -> Features(400, BlockedCard, FraudMerchant, SeededAgg(BlockedCard))
    [] profile = "ring" -> Features(6000, UnknownCard, UnknownMerchant, NoAgg)

\* What post_score may bring back: a decision, or no answer or no success.
LiveOutcomes(profile) == {a.decision : a \in Answers(model, TxOf(profile))} \cup {"ERROR"}

\* The profiles a burst of make_mixed_tx is drawn from.
MixProfiles == {"normal", "sca", "decline"}

CliPlan(command) ==
  IF command = "all" THEN <<"health", "score", "score", "scenario", "load", "inject">>
  ELSE <<command>>

\* The requests each command makes: two probes, one transaction, a burst, a ring, and none.
Requests(command) ==
  CASE command = "health" -> 2 [] command = "score" -> 1 [] command = "load" -> BurstSize
    [] command = "inject" -> RingSize [] command = "scenario" -> 0

NoCli == [todo |-> <<>>, sent |-> 0, failed |-> 0, code |-> 0]

ClientInit == model \in Models /\ cli = NoCli

\* main with one of its subcommands.
StartCli ==
  /\ cli = NoCli
  /\ \E command \in {"health", "score", "load", "inject", "scenario", "all"} :
       cli' = [cli EXCEPT !.todo = CliPlan(command)]
  /\ UNCHANGED model

\* One command: any of its requests may fail; it goes on to the end and returns 1 if one did,
\* and all of them are or-ed.
RunCommand ==
  /\ cli.todo # <<>>
  /\ \E failures \in 0 .. Requests(Head(cli.todo)) :
       cli' = [todo |-> Tail(cli.todo), sent |-> cli.sent + Requests(Head(cli.todo)),
               failed |-> cli.failed + failures,
               code |-> IF failures > 0 THEN 1 ELSE cli.code]
  /\ UNCHANGED model

ClientNext == StartCli \/ RunCommand
-----------------------------------------------------------------------------
\* The types; the blocked card is declined whatever the model; and the exit code tells whether
\* any request failed.
ClientTypeOK ==
  /\ model \in ModelStates
  /\ LiveOutcomes("blocked") = {"DECLINE", "ERROR"}
  /\ cli.code \in {0, 1} /\ cli.failed <= cli.sent
  /\ cli.code = 1 <=> cli.failed > 0
=============================================================================
