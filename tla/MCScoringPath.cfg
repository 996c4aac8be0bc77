CONSTANTS
  r1 = r1
  Requests = {r1}
  Inputs <- MCInputs
  Scores <- MCScores
  AlertDecisions = {"DECLINE", "SCA"}
  Configurations <- MCConfigurations
  Transaction <- MCTransaction
  Foreign <- MCForeign
  MaxDeliveries = 2
  CosmosEndpoint = TRUE
SPECIFICATION MCSpec
INVARIANTS
  AlertTypeOK
  BlockedCardIsNotApproved
  EventsMatchAnswer
  ExemptionIsLawful
  HigherScoreIsNotMilder
  CaseMatchesAnswer
PROPERTIES
  EveryRequestIsAnswered
  DeclineLeadsToCase
CHECK_DEADLOCK FALSE
