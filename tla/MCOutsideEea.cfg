\* What the optimiser says of countries outside the EEA.
CONSTANTS
  r1 = r1
  Requests = {r1}
  Inputs <- MCInputs
  Scores <- MCScores
  AlertDecisions = {"DECLINE"}
  Configurations <- MCConfigurations
  Transaction <- MCTransaction
  Foreign <- MCForeign
  MaxDeliveries = 2
  CosmosEndpoint = TRUE
SPECIFICATION MCSpec
INVARIANT ExemptionsStayInTheEea
CHECK_DEADLOCK FALSE
