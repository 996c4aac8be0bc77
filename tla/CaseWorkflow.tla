---------------------------- MODULE CaseWorkflow ----------------------------
(***************************************************************************)
(* One fraud case in the agentic orchestrator, from the alert (or a        *)
(* replay) to the answer of the request:                                   *)
(* services/agentic-orchestrator/app/planner.py drives the agents of       *)
(* app/agents/ over one WorkflowState, and app/api.py stores the result.   *)
(*                                                                         *)
(* Every agent talks to an LLM, to the case store or to the graph, and any *)
(* of these may fail: Agent.run turns the exception into a result without  *)
(* a handoff.  The LLM's answers are nondeterministic: which class, which  *)
(* agent to run next, which of the two narratives.                         *)
(***************************************************************************)
EXTENDS Integers, FiniteSets

CONSTANTS
  Budgets,      \* reflection budgets a request may carry (any integer)
  MaxSteps,     \* Planner.MAX_STEPS
  LLMNames,     \* what the LLM may name as the next agent
  None,         \* Python's None
  EarlierCase   \* the record an earlier run of the same case left behind

Triage == "TriageAgent"
Graph == "GraphAnalystAgent"
Policy == "PolicyAgent"
Narrative == "NarrativeAgent"
CaseManager == "CaseManagerAgent"
Reflector == "ReflectorAgent"

Agents == {Triage, Graph, Policy, Narrative, CaseManager, Reflector}

\* The agents the triage prompt offers the LLM for its plan.
PromptAgents == {Graph, Policy, Narrative}

Classes == {"suspected_fraud_ring", "account_takeover", "card_present_fraud",
            "false_positive_candidate", "dispute", "unknown"}

Artefacts == {"graph", "policy", "sar", "eba"}

Verdicts == {"accept", "replan", "escalate"}

ASSUME ConstantsOK ==
  /\ Budgets \subseteq Int
  /\ MaxSteps \in Nat
  /\ None \notin Agents \cup LLMNames \cup Verdicts

VARIABLES
  budget,          \* state.reflection_budget
  classification,  \* state.classification
  artefacts,       \* state.graph, .policy, .narrative_sar, .narrative_eba: those present
  visited,         \* the agents in state.visited
  current,         \* state.visited[-1]
  verdict,         \* state.reflection_verdict
  used,            \* state.reflections_used
  done,            \* state.done
  handoff,         \* last.next_agent
  steps,           \* steps of Planner.stream
  phase,           \* where the request is: "loop", "ended", "answered", "failed"
  stored,          \* the document of this case in the case store
  mishaps          \* history: "fault" when an agent failed or delivered less than
                   \* it should, "stray" when the LLM named an agent not on offer

work == <<classification, artefacts>>
review == <<verdict, used, done>>
vars == <<budget, work, visited, current, review, handoff, steps, phase, stored, mishaps>>

-----------------------------------------------------------------------------
(* Tables of the planner and the reflector.                                *)

\* EDGES["TriageAgent"]; _default_plan starts with the same agent.
ByClass(c) ==
  CASE c \in {"suspected_fraud_ring", "account_takeover"} -> Graph
    [] c \in {"card_present_fraud", "false_positive_candidate"} -> Policy
    [] OTHER -> Narrative

RequiredByClass(c) ==
  CASE c \in {"suspected_fraud_ring", "account_takeover"} -> {Graph, Policy, Narrative}
    [] c = "card_present_fraud" -> {Policy, Narrative}
    [] c = "false_positive_candidate" -> {Policy}
    [] c = "dispute" -> {Narrative}
    [] OTHER -> {}

\* The artefact by which the reflector recognises that an agent has delivered.
ArtefactOf(a) ==
  CASE a = Graph -> "graph" [] a = Policy -> "policy" [] OTHER -> "sar"

\* EDGES[a] for a handoff that did not happen.  A reflector that failed after an
\* earlier verdict "replan" finds no edge for it.
EdgeFrom(a) ==
  CASE a = None -> Triage
    [] a = Triage -> ByClass(classification)
    [] a = Graph -> Policy
    [] a = Policy -> Narrative
    [] a = Narrative -> CaseManager
    [] a = CaseManager -> Reflector
    [] OTHER -> None

\* decide_next: a handoff wins, then a final verdict, then the edges.
DecideNext ==
  IF handoff # None THEN handoff
  ELSE IF verdict \in {"accept", "escalate"} THEN None
  ELSE EdgeFrom(current)

\* state.to_case()
ToCase == [status |-> IF done THEN "closed" ELSE "open",
           classification |-> classification,
           artefacts |-> artefacts]

-----------------------------------------------------------------------------
Init ==
  /\ budget \in Budgets
  /\ classification = "unknown"
  /\ artefacts = {}
  /\ visited = {}
  /\ current = None
  /\ verdict = None
  /\ used = 0
  /\ done = FALSE
  /\ handoff = None
  /\ steps = 0
  /\ phase = "loop"
  /\ stored \in {None, EarlierCase}
  /\ mishaps = {}

\* Mutant of Looping: the step limit is off by one.
LoopingOneMore == phase = "loop" /\ ~done /\ steps <= MaxSteps

\* The loop condition of Planner.stream.
Looping == phase = "loop" /\ ~done /\ steps < MaxSteps

\* Mutant of Run: visited is replaced instead of extended.
RunForgetting(a, h) ==
  /\ Looping
  /\ DecideNext = a
  /\ visited' = {a}
  /\ current' = a
  /\ handoff' = h
  /\ steps' = steps + 1
  /\ UNCHANGED <<budget, phase>>

\* One pass of the loop: Agent.run of the chosen agent a, which always adds itself
\* to visited, and returns the handoff h.
Run(a, h) ==
  /\ Looping
  /\ DecideNext = a
  /\ visited' = visited \cup {a}
  /\ current' = a
  /\ handoff' = h
  /\ steps' = steps + 1
  /\ UNCHANGED <<budget, phase>>

Mishap(S) == mishaps' = mishaps \cup S

\* What a name chosen by the LLM says about the LLM.
Straying(h) == IF h \in PromptAgents THEN {} ELSE {"stray"}

\* Any agent: its LLM, store or graph raises before the state is touched.
AgentFails(a) ==
  /\ Run(a, None)
  /\ Mishap({"fault"})
  /\ UNCHANGED <<work, review, stored>>

\* The LLM classifies and recommends agents, of which the first is handed to; without
\* a recommendation the default plan is used.
TriageClassifies(c, h) ==
  /\ Run(Triage, h)
  /\ classification' = c
  /\ Mishap(IF h = None THEN {"fault"} ELSE Straying(h))
  /\ UNCHANGED <<artefacts, review, stored>>

\* A recommendation that is not a list of names leaves the class set and the handoff empty.
RunTriage ==
  \E c \in Classes : \E h \in LLMNames \cup {ByClass(c), None} : TriageClassifies(c, h)

RunGraphAnalyst ==
  /\ Run(Graph, Policy)
  /\ artefacts' = artefacts \cup {"graph"}
  /\ Mishap({})
  /\ UNCHANGED <<classification, review, stored>>

RunPolicy ==
  /\ Run(Policy, Narrative)
  /\ artefacts' = artefacts \cup {"policy"}
  /\ Mishap({})
  /\ UNCHANGED <<classification, review, stored>>

\* Both narratives are replaced; the one the LLM's answer does not hold is left empty.
RunNarrative ==
  \E written \in SUBSET {"sar", "eba"} :
    /\ Run(Narrative, CaseManager)
    /\ artefacts' = (artefacts \ {"sar", "eba"}) \cup written
    /\ Mishap(IF written = {"sar", "eba"} THEN {} ELSE {"fault"})
    /\ UNCHANGED <<classification, review, stored>>

RunCaseManager ==
  /\ Run(CaseManager, Reflector)
  /\ stored' = ToCase
  /\ Mishap({})
  /\ UNCHANGED <<work, review>>

\* The upsert reaches the store and its answer is lost.
CaseManagerTimesOut ==
  /\ Run(CaseManager, None)
  /\ stored' = ToCase
  /\ Mishap({"fault"})
  /\ UNCHANGED <<work, review>>

-----------------------------------------------------------------------------
(* The reflector.                                                          *)

Required == RequiredByClass(classification)

\* missing: required agents that never ran.  (The reflector's own visit is appended
\* only after it has looked.)
MissingAgents == Required \ visited

\* artefact_gaps: required agents whose artefact is not on the state.
GapAgents == {a \in Required : ArtefactOf(a) \notin artefacts}

\* Mutant of Incomplete: a visit counts as a delivery.
IncompleteByVisits == MissingAgents # {}

Incomplete == MissingAgents # {} \/ GapAgents # {}

\* Mutant of WithinBudget: off by one.
WithinBudgetInclusive == used <= budget

WithinBudget == used < budget

\* Mutant of ReplanTarget: the last missing agent first.
ReplanTargetLast ==
  IF Narrative \in GapAgents THEN Narrative ELSE IF Policy \in GapAgents THEN Policy ELSE Graph

\* missing is sorted by name, artefact_gaps is in pipeline order.
ReplanTarget ==
  LET First(S, second, third) ==
        IF Graph \in S THEN Graph ELSE IF second \in S THEN second ELSE third
  IN  IF MissingAgents # {} THEN First(MissingAgents, Narrative, Policy)
      ELSE First(GapAgents, Policy, Narrative)

ReflectReplan ==
  /\ Incomplete /\ WithinBudget
  /\ Run(Reflector, ReplanTarget)
  /\ verdict' = "replan"
  /\ used' = used + 1
  /\ Mishap({})
  /\ UNCHANGED <<work, done, stored>>

ReflectEscalate ==
  /\ Incomplete /\ ~WithinBudget
  /\ Run(Reflector, None)
  /\ verdict' = "escalate"
  /\ done' = TRUE
  /\ Mishap({})
  /\ UNCHANGED <<work, used, stored>>

\* Nothing is missing, and whatever the LLM says short of a replan is an accept.
ReflectAccept ==
  /\ ~Incomplete
  /\ Run(Reflector, None)
  /\ verdict' = "accept"
  /\ done' = TRUE
  /\ Mishap({})
  /\ UNCHANGED <<work, used, stored>>

\* Mutant of ReflectHonourReplan: the LLM's replans are not counted.
HonourReplanForFree(h) ==
  /\ ~Incomplete /\ WithinBudget
  /\ Run(Reflector, h)
  /\ verdict' = "replan"
  /\ Mishap(IF h = None THEN {"fault"} ELSE Straying(h))
  /\ UNCHANGED <<work, used, done, stored>>

\* Nothing is missing, but the LLM asks for another pass, by default of the narratives.
\* A name that is no string makes the result invalid after the state was changed.
ReflectHonourReplan(h) ==
  /\ ~Incomplete /\ WithinBudget
  /\ Run(Reflector, h)
  /\ verdict' = "replan"
  /\ used' = used + 1
  /\ Mishap(IF h = None THEN {"fault"} ELSE Straying(h))
  /\ UNCHANGED <<work, done, stored>>

RunReflector ==
  \/ ReflectReplan
  \/ ReflectEscalate
  \/ ReflectAccept
  \/ \E h \in LLMNames \cup {Narrative, None} : ReflectHonourReplan(h)

-----------------------------------------------------------------------------
(* The end of the loop and of the request.                                 *)

\* Mutant of NobodyLeft: a name that is no agent is not looked for.
NobodyLeftButUnknown ==
  /\ Looping
  /\ DecideNext = None
  /\ done' = TRUE
  /\ phase' = "ended"
  /\ UNCHANGED <<budget, work, visited, current, verdict, used, handoff, steps, stored, mishaps>>

\* There is no agent to run: the planner declares the case done.
NobodyLeft ==
  /\ Looping
  /\ DecideNext \notin Agents
  /\ done' = TRUE
  /\ phase' = "ended"
  /\ UNCHANGED <<budget, work, visited, current, verdict, used, handoff, steps, stored, mishaps>>

\* An agent set done, or the step limit was reached.
LoopEnds ==
  /\ phase = "loop"
  /\ done \/ steps >= MaxSteps
  /\ phase' = "ended"
  /\ UNCHANGED <<budget, work, visited, current, review, handoff, steps, stored, mishaps>>

\* Mutant of Answer: a case that the CaseManagerAgent has saved is not saved again.
AnswerSavedOnce ==
  /\ phase = "ended"
  /\ phase' = "answered"
  /\ stored' = IF stored \in {None, EarlierCase} THEN ToCase ELSE stored
  /\ UNCHANGED <<budget, work, visited, current, review, handoff, steps, mishaps>>

\* The final upsert of post_alert and replay_case, and the response.
Answer ==
  /\ phase = "ended"
  /\ phase' = "answered"
  /\ stored' = ToCase
  /\ UNCHANGED <<budget, work, visited, current, review, handoff, steps, mishaps>>

\* The final upsert raises, with or without having reached the store: HTTP 500.
AnswerFails ==
  /\ phase = "ended"
  /\ phase' = "failed"
  /\ stored' \in {stored, ToCase}
  /\ UNCHANGED <<budget, work, visited, current, review, handoff, steps, mishaps>>

AgentStep ==
  \/ \E a \in Agents : AgentFails(a)
  \/ RunTriage
  \/ RunGraphAnalyst
  \/ RunPolicy
  \/ RunNarrative
  \/ RunCaseManager
  \/ CaseManagerTimesOut
  \/ RunReflector

RequestOver == phase \in {"answered", "failed"}

Next ==
  \/ AgentStep
  \/ NobodyLeft
  \/ LoopEnds
  \/ Answer
  \/ AnswerFails

\* The loop is one coroutine that is resumed until it returns, and every LLM and store
\* call ends (by an answer, an error or the HTTP timeout).
Spec == Init /\ [][Next]_vars /\ WF_vars(Next)
-----------------------------------------------------------------------------
(* Invariants and properties.                                              *)

\* The types of the variables.
TypeOK ==
  /\ budget \in Budgets
  /\ classification \in Classes
  /\ artefacts \subseteq Artefacts
  /\ visited \subseteq Agents
  /\ current \in Agents \cup {None}
  /\ verdict \in Verdicts \cup {None}
  /\ used \in Nat
  /\ done \in BOOLEAN
  /\ handoff \in Agents \cup LLMNames \cup {None}
  /\ steps \in 0..MaxSteps
  /\ phase \in {"loop", "ended", "answered", "failed"}
  /\ stored \in {None, EarlierCase}
              \cup [status: {"open", "closed"}, classification: Classes,
                    artefacts: SUBSET Artefacts]
  /\ mishaps \subseteq {"fault", "stray"}

\* What a request says of reflections: none for a negative budget.
Allowance == IF budget > 0 THEN budget ELSE 0

\* A final verdict agrees with the case it was given on: an accepted case has every
\* artefact its class requires, an escalated one lacks some and has no reflection left.
VerdictJustified ==
  /\ verdict = "accept" => GapAgents = {}
  /\ verdict = "escalate" => GapAgents # {} /\ used >= budget
  /\ used <= Allowance

\* The document a client reads after an accepted request is that complete case, closed.
AcceptedCaseIsStoredComplete ==
  phase = "answered" /\ verdict = "accept" =>
    /\ stored.status = "closed"
    /\ \A a \in RequiredByClass(stored.classification) : ArtefactOf(a) \in stored.artefacts

\* MAX_STEPS never cuts a case short, leaving it open with no one working on it, as long
\* as the LLM names agents it was offered and the budget is small enough: a pass through
\* the pipeline costs five steps.  (The default budget 2 is, a replay's 3 is not.  The
\* limit must not be reached even when the last step is a reflector that fails: the loop
\* then needs one more look at decide_next to set done.)
FitsStepLimit == 6 + 5 * Allowance < MaxSteps

NeverCutShort ==
  phase # "loop" /\ "stray" \notin mishaps /\ FitsStepLimit => done

\* Without any mishap one reflection is enough: whatever plan the LLM starts with and
\* however often it asks for another pass, the case ends accepted.
HealthyCaseIsAccepted ==
  phase # "loop" /\ mishaps = {} /\ FitsStepLimit /\ budget >= 1 => verdict = "accept"

\* No artefact without its author: what the reflector looks for on the state was put there
\* by an agent that is among those visited, so a missing agent always is a gap as well.
ArtefactsHaveAuthors ==
  /\ \A a \in PromptAgents : ArtefactOf(a) \in artefacts => a \in visited
  /\ current # None => current \in visited

\* The workflow implements the abstract review of a case.
Review == INSTANCE CaseReview WITH
  Parts <- PromptAgents,
  left <- Allowance - used,
  gaps <- GapAgents,
  outcome <- IF verdict \in {"accept", "escalate"} THEN verdict
             ELSE IF phase = "loop" THEN "pending" ELSE "abandoned"

ReviewIsImplemented == Review!Spec

\* README.md:45-46 of the orchestrator: a case whose reflection budget is exhausted is
\* marked escalated, so that a human reviewer can pick it up.
ExhaustedCaseIsMarkedEscalated ==
  phase = "answered" /\ verdict = "escalate" => stored.status = "escalated"
=============================================================================
