--------------------------- MODULE MCCaseWorkflow ---------------------------
(* Constants of CaseWorkflow for TLC. *)
EXTENDS CaseWorkflow

\* No reflection, one, the default of the API, and one budget for which the step limit of
\* the planner is too small.
MCBudgets == {-1, 1, 2, 3}

\* What the LLM may answer: the agents on offer, and a name that is no agent at all.
MCLLMNames == PromptAgents \cup {"CustomerCareAgent"}
=============================================================================
