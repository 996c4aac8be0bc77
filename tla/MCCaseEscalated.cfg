\* The claim of the orchestrator's README on a spent reflection budget.
CONSTANTS
  Budgets <- MCBudgets
  MaxSteps = 20
  LLMNames <- MCLLMNames
  None = None
  EarlierCase = EarlierCase
SPECIFICATION Spec
INVARIANT ExhaustedCaseIsMarkedEscalated
CHECK_DEADLOCK FALSE
