CONSTANTS
  Budgets <- MCBudgets
  MaxSteps = 20
  LLMNames <- MCLLMNames
  None = None
  EarlierCase = EarlierCase
  r1 = r1
  r2 = r2
  c1 = c1
  c2 = c2
  Replays = {r1, r2}
  Clients = {c1, c2}
  Length = 2
  SnapshotAt = 2
  Capacity = 2
SPECIFICATION MCSpec
INVARIANTS
  TypeOK
  VerdictJustified
  AcceptedCaseIsStoredComplete
  NeverCutShort
  HealthyCaseIsAccepted
  ArtefactsHaveAuthors
  LiveTypeOK
  FeedIsExact
  BlockedOnlyByCrowding
  QuietCaseIsFinished
PROPERTIES
  Termination
  ReviewIsImplemented
  AnsweredOrAbandoned
CHECK_DEADLOCK FALSE
