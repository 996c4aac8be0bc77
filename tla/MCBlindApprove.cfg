\* What the hot path says of itself when a backend cannot be reached.
CONSTANTS
  r1 = r1
  Requests = {r1}
  Inputs <- MCInputs
  Scores <- MCScores
  AlertDecisions = {"DECLINE"}
  Configurations <- MCConfigurations
  Transaction <- MCTransaction
  Foreign <- MCForeign
  MaxDeliveries = 2
  CosmosEndpoint = TRUE
SPECIFICATION MCSpec
INVARIANT NeverBlindApproved
CHECK_DEADLOCK FALSE
