------------------------ MODULE CaseWorkflow_proofs -------------------------
(***************************************************************************)
(* What TLAPS proves of CaseWorkflow, for every set of budgets, every step *)
(* limit and every set of names the LLM may answer with.                   *)
(***************************************************************************)
EXTENDS CaseWorkflow, TLAPS

-----------------------------------------------------------------------------
(* Facts about the tables.                                                 *)

\* The reflector never requires an agent outside the pipeline, and triage starts there too.
LEMMA TablesInPipeline ==
  ASSUME NEW c \in Classes
  PROVE  /\ RequiredByClass(c) \subseteq PromptAgents
         /\ ByClass(c) \in PromptAgents
BY DEF Classes, RequiredByClass, ByClass, PromptAgents

\* A required agent that never ran has left a gap: looking at the artefacts is enough.
LEMMA IncompleteIsGap ==
  ASSUME TypeOK, ArtefactsHaveAuthors
  PROVE  Incomplete <=> GapAgents # {}
<1>1. Required \subseteq PromptAgents
  BY TablesInPipeline DEF Required, TypeOK
<1>2. MissingAgents \subseteq GapAgents
  BY <1>1 DEF MissingAgents, GapAgents, ArtefactsHaveAuthors
<1> QED
  BY <1>2 DEF Incomplete

\* The reflector sends a case back only to an agent of the pipeline.
LEMMA ReplanTargetInPipeline == ReplanTarget \in PromptAgents
BY DEF ReplanTarget, PromptAgents

-----------------------------------------------------------------------------
(* Type correctness.                                                       *)

\* The types of what one pass of the loop sets, whichever agent runs.
LEMMA RunTypes ==
  ASSUME TypeOK, NEW a, NEW h, Run(a, h), a \in Agents,
         h \in Agents \cup LLMNames \cup {None}
  PROVE  /\ budget' \in Budgets
         /\ visited' \subseteq Agents
         /\ current' \in Agents \cup {None}
         /\ handoff' \in Agents \cup LLMNames \cup {None}
         /\ steps' \in 0..MaxSteps
         /\ phase' \in {"loop", "ended", "answered", "failed"}
BY ConstantsOK DEF TypeOK, Run, Looping

\* A stored case has the fields of a case document.
LEMMA ToCaseType ==
  ASSUME TypeOK
  PROVE  ToCase \in [status: {"open", "closed"}, classification: Classes,
                     artefacts: SUBSET Artefacts]
BY DEF TypeOK, ToCase

\* The variables keep their types.
THEOREM TypeCorrect == Spec => []TypeOK
<1>1. Init => TypeOK
  <2> SUFFICES ASSUME Init PROVE TypeOK
    OBVIOUS
  <2>1. steps \in 0..MaxSteps /\ used \in Nat
    BY ConstantsOK DEF Init
  <2>2. classification \in Classes
    BY DEF Init, Classes
  <2>3. stored \in {None, EarlierCase}
    BY DEF Init
  <2> QED
    BY <2>1, <2>2, <2>3 DEF Init, TypeOK
<1>2. TypeOK /\ [Next]_vars => TypeOK'
  <2> SUFFICES ASSUME TypeOK, [Next]_vars PROVE TypeOK'
    OBVIOUS
  <2> USE DEF Mishap, Verdicts
  <2>1. ASSUME NEW a \in Agents, AgentFails(a) PROVE TypeOK'
    <3>1. Run(a, None) BY <2>1 DEF AgentFails
    <3> QED BY <2>1, <3>1, RunTypes DEF AgentFails, TypeOK, work, review
  <2>2. ASSUME NEW c \in Classes, NEW h \in LLMNames \cup {ByClass(c), None},
               TriageClassifies(c, h)
        PROVE  TypeOK'
    <3>1. Run(Triage, h) BY <2>2 DEF TriageClassifies
    <3>2. Triage \in Agents /\ h \in Agents \cup LLMNames \cup {None}
      BY TablesInPipeline DEF Agents, PromptAgents
    <3> QED BY <2>2, <3>1, <3>2, RunTypes DEF TriageClassifies, TypeOK, review, Straying
  <2>3. CASE RunGraphAnalyst
    <3>1. Run(Graph, Policy) /\ Graph \in Agents /\ Policy \in Agents
      BY <2>3 DEF RunGraphAnalyst, Agents
    <3> QED BY <2>3, <3>1, RunTypes DEF RunGraphAnalyst, TypeOK, review, Artefacts
  <2>4. CASE RunPolicy
    <3>1. Run(Policy, Narrative) /\ Policy \in Agents /\ Narrative \in Agents
      BY <2>4 DEF RunPolicy, Agents
    <3> QED BY <2>4, <3>1, RunTypes DEF RunPolicy, TypeOK, review, Artefacts
  <2>5. CASE RunNarrative
    <3>1. Run(Narrative, CaseManager) /\ Narrative \in Agents /\ CaseManager \in Agents
      BY <2>5 DEF RunNarrative, Agents
    <3> QED BY <2>5, <3>1, RunTypes DEF RunNarrative, TypeOK, review, Artefacts
  <2>6. CASE RunCaseManager
    <3>1. Run(CaseManager, Reflector) /\ CaseManager \in Agents /\ Reflector \in Agents
      BY <2>6 DEF RunCaseManager, Agents
    <3> QED BY <2>6, <3>1, RunTypes, ToCaseType DEF RunCaseManager, TypeOK, review, work
  <2>7. CASE CaseManagerTimesOut
    <3>1. Run(CaseManager, None) /\ CaseManager \in Agents
      BY <2>7 DEF CaseManagerTimesOut, Agents
    <3> QED BY <2>7, <3>1, RunTypes, ToCaseType DEF CaseManagerTimesOut, TypeOK, review, work
  <2>8. CASE RunReflector
    <3>1. Reflector \in Agents /\ Narrative \in Agents /\ PromptAgents \subseteq Agents
      BY DEF Agents, PromptAgents
    <3>2. CASE ReflectReplan
      <4>1. Run(Reflector, ReplanTarget) BY <3>2 DEF ReflectReplan
      <4> QED BY <3>1, <3>2, <4>1, RunTypes, ReplanTargetInPipeline
              DEF ReflectReplan, TypeOK, work
    <3>3. CASE ReflectEscalate
      <4>1. Run(Reflector, None) BY <3>3 DEF ReflectEscalate
      <4> QED BY <3>1, <3>3, <4>1, RunTypes DEF ReflectEscalate, TypeOK, work
    <3>4. CASE ReflectAccept
      <4>1. Run(Reflector, None) BY <3>4 DEF ReflectAccept
      <4> QED BY <3>1, <3>4, <4>1, RunTypes DEF ReflectAccept, TypeOK, work
    <3>5. ASSUME NEW h \in LLMNames \cup {Narrative, None}, ReflectHonourReplan(h)
          PROVE  TypeOK'
      <4>1. Run(Reflector, h) BY <3>5 DEF ReflectHonourReplan
      <4> QED BY <3>1, <3>5, <4>1, RunTypes DEF ReflectHonourReplan, TypeOK, work, Straying
    <3> QED BY <2>8, <3>2, <3>3, <3>4, <3>5 DEF RunReflector
  <2>9. CASE NobodyLeft
    BY <2>9 DEF NobodyLeft, TypeOK, work
  <2>10. CASE LoopEnds
    BY <2>10 DEF LoopEnds, TypeOK, work, review
  <2>11. CASE Answer
    BY <2>11, ToCaseType DEF Answer, TypeOK, work, review
  <2>12. CASE AnswerFails
    BY <2>12, ToCaseType DEF AnswerFails, TypeOK, work, review
  <2>13. CASE UNCHANGED vars
    BY <2>13 DEF TypeOK, vars, work, review
  <2> QED
    BY <2>1, <2>2, <2>3, <2>4, <2>5, <2>6, <2>7, <2>8, <2>9, <2>10, <2>11, <2>12, <2>13
       DEF Next, AgentStep, RunTriage
<1> QED
  BY <1>1, <1>2, PTL DEF Spec
-----------------------------------------------------------------------------
(* The verdict and the stored case.                                        *)

\* A final verdict ends the loop, and the answered case is the one that is stored.
Finality ==
  /\ verdict \in {"accept", "escalate"} => done
  /\ phase = "answered" => stored = ToCase

\* The inductive invariant behind the verdicts.  ArtefactsHaveAuthors is what makes the
\* reflector's two analyses agree; Finality is what keeps the agents off a judged case.
ReviewInv == ArtefactsHaveAuthors /\ VerdictJustified /\ Finality

\* In each pass of the loop the agent that ran is among those visited.
LEMMA AuthorsStep ==
  ASSUME TypeOK, ArtefactsHaveAuthors, [Next]_vars
  PROVE  ArtefactsHaveAuthors'
<1> USE DEF ArtefactsHaveAuthors, ArtefactOf, PromptAgents, Graph, Policy, Narrative
<1>1. ASSUME NEW a \in Agents, AgentFails(a) PROVE ArtefactsHaveAuthors'
  BY <1>1 DEF AgentFails, Run, work
<1>2. ASSUME NEW c, NEW h, TriageClassifies(c, h) PROVE ArtefactsHaveAuthors'
  BY <1>2 DEF TriageClassifies, Run
<1>3. CASE RunGraphAnalyst
  BY <1>3 DEF RunGraphAnalyst, Run
<1>4. CASE RunPolicy
  BY <1>4 DEF RunPolicy, Run
<1>5. CASE RunNarrative
  BY <1>5 DEF RunNarrative, Run
<1>6. CASE RunCaseManager \/ CaseManagerTimesOut
  BY <1>6 DEF RunCaseManager, CaseManagerTimesOut, Run, work
<1>7. CASE RunReflector
  BY <1>7 DEF RunReflector, ReflectReplan, ReflectEscalate, ReflectAccept,
              ReflectHonourReplan, Run, work
<1>8. CASE NobodyLeft \/ LoopEnds \/ Answer \/ AnswerFails
  BY <1>8 DEF NobodyLeft, LoopEnds, Answer, AnswerFails, work
<1>9. CASE UNCHANGED vars
  BY <1>9 DEF vars, work
<1> QED
  BY <1>1, <1>2, <1>3, <1>4, <1>5, <1>6, <1>7, <1>8, <1>9 DEF Next, AgentStep, RunTriage

\* As long as the loop runs there is no final verdict to contradict.
LEMMA LoopingIsPending ==
  ASSUME TypeOK, Finality, Looping
  PROVE  verdict \in {None, "replan"}
BY DEF TypeOK, Finality, Looping, Verdicts

\* A step of an agent that leaves the review alone leaves its facts alone too.
LEMMA UnjudgedStep ==
  ASSUME TypeOK, VerdictJustified, Finality, Looping, UNCHANGED <<budget, review>>,
         phase' = "loop"
  PROVE  VerdictJustified' /\ Finality'
BY LoopingIsPending, ConstantsOK DEF VerdictJustified, Finality, Allowance, review, Verdicts

\* Every step keeps the final verdict in agreement with the case.
LEMMA VerdictStep ==
  ASSUME TypeOK, ReviewInv, [Next]_vars
  PROVE  VerdictJustified' /\ Finality'
<1> USE DEF ReviewInv
<1>1. ASSUME NEW a \in Agents, AgentFails(a) PROVE VerdictJustified' /\ Finality'
  BY <1>1, UnjudgedStep DEF AgentFails, Run, Looping
<1>2. ASSUME NEW c, NEW h, TriageClassifies(c, h) PROVE VerdictJustified' /\ Finality'
  BY <1>2, UnjudgedStep DEF TriageClassifies, Run, Looping
<1>3. CASE RunGraphAnalyst \/ RunPolicy \/ RunNarrative
  BY <1>3, UnjudgedStep DEF RunGraphAnalyst, RunPolicy, RunNarrative, Run, Looping
<1>4. CASE RunCaseManager \/ CaseManagerTimesOut
  BY <1>4, UnjudgedStep DEF RunCaseManager, CaseManagerTimesOut, Run, Looping
<1>5. CASE RunReflector
  <2>1. GapAgents' = GapAgents
    BY <1>5 DEF RunReflector, ReflectReplan, ReflectEscalate, ReflectAccept,
                ReflectHonourReplan, work, GapAgents, Required
  <2>2. Allowance' = Allowance /\ phase' = "loop"
    BY <1>5 DEF RunReflector, ReflectReplan, ReflectEscalate, ReflectAccept,
                ReflectHonourReplan, Run, Looping, Allowance
  <2>3. budget \in Int /\ used \in Nat /\ budget' = budget
    BY <1>5, ConstantsOK DEF TypeOK, RunReflector, ReflectReplan, ReflectEscalate,
                ReflectAccept, ReflectHonourReplan, Run
  <2>4. CASE ReflectReplan \/ \E h \in LLMNames \cup {Narrative, None} : ReflectHonourReplan(h)
    <3>1. verdict' = "replan" /\ used' = used + 1 /\ used < budget
      BY <2>4 DEF ReflectReplan, ReflectHonourReplan, WithinBudget
    <3> QED
      BY <3>1, <2>2, <2>3 DEF VerdictJustified, Finality, Allowance
  <2>5. CASE ReflectEscalate
    BY <2>5, <2>1, <2>2, <2>3, IncompleteIsGap
       DEF ReflectEscalate, WithinBudget, VerdictJustified, Finality
  <2>6. CASE ReflectAccept
    BY <2>6, <2>1, <2>2, <2>3, IncompleteIsGap
       DEF ReflectAccept, VerdictJustified, Finality
  <2> QED
    BY <1>5, <2>4, <2>5, <2>6 DEF RunReflector
<1>6. CASE NobodyLeft
  BY <1>6 DEF NobodyLeft, work, VerdictJustified, Finality, Allowance, GapAgents, Required
<1>7. CASE LoopEnds
  BY <1>7 DEF LoopEnds, work, review, VerdictJustified, Finality, Allowance, GapAgents, Required
<1>8. CASE Answer \/ AnswerFails
  BY <1>8 DEF Answer, AnswerFails, work, review, VerdictJustified, Finality, Allowance,
              GapAgents, Required, ToCase
<1>9. CASE UNCHANGED vars
  BY <1>9 DEF vars, work, review, VerdictJustified, Finality, Allowance, GapAgents,
              Required, ToCase
<1> QED
  BY <1>1, <1>2, <1>3, <1>4, <1>5, <1>6, <1>7, <1>8, <1>9 DEF Next, AgentStep, RunTriage
\* The three parts of the inductive invariant hold of every reachable state.
THEOREM ReviewInvariant == Spec => []ReviewInv
<1>1. Init => ReviewInv
  <2> SUFFICES ASSUME Init PROVE ReviewInv
    OBVIOUS
  <2>1. ArtefactsHaveAuthors
    BY DEF Init, ArtefactsHaveAuthors
  <2>2. VerdictJustified /\ Finality
    BY ConstantsOK DEF Init, VerdictJustified, Finality, Allowance, Verdicts
  <2> QED
    BY <2>1, <2>2 DEF ReviewInv
<1>2. TypeOK /\ ReviewInv /\ [Next]_vars => ReviewInv'
  BY AuthorsStep, VerdictStep DEF ReviewInv
<1> QED
  BY <1>1, <1>2, TypeCorrect, PTL DEF Spec

\* A final verdict agrees with the case it was given on.
THEOREM VerdictsAreJustified == Spec => []VerdictJustified
<1>1. ReviewInv => VerdictJustified
  BY DEF ReviewInv
<1> QED
  BY <1>1, ReviewInvariant, PTL

\* No artefact is on the state without its author among the visited agents.
THEOREM AuthorsAreVisited == Spec => []ArtefactsHaveAuthors
<1>1. ReviewInv => ArtefactsHaveAuthors
  BY DEF ReviewInv
<1> QED
  BY <1>1, ReviewInvariant, PTL

\* What a client reads after an accepted request is the complete case, closed.
THEOREM AcceptedCaseIsComplete == Spec => []AcceptedCaseIsStoredComplete
<1>1. ReviewInv => AcceptedCaseIsStoredComplete
  <2> SUFFICES ASSUME ReviewInv, phase = "answered", verdict = "accept"
               PROVE  /\ stored.status = "closed"
                      /\ \A a \in RequiredByClass(stored.classification) :
                           ArtefactOf(a) \in stored.artefacts
    BY DEF AcceptedCaseIsStoredComplete
  <2>1. stored = ToCase /\ done /\ GapAgents = {}
    BY DEF ReviewInv, Finality, VerdictJustified
  <2>2. /\ stored.status = "closed"
        /\ stored.classification = classification
        /\ stored.artefacts = artefacts
    BY <2>1 DEF ToCase
  <2> QED
    BY <2>1, <2>2 DEF GapAgents, Required
<1> QED
  BY <1>1, ReviewInvariant, PTL

-----------------------------------------------------------------------------
(* The step limit.                                                         *)

\* How many steps the pipeline still needs from agent a to the end of a pass.
Remaining(a) ==
  CASE a = Triage -> 6 [] a = Graph -> 5 [] a = Policy -> 4 [] a = Narrative -> 3
    [] a = CaseManager -> 2 [] a = Reflector -> 1 [] OTHER -> 0

\* Each reflection pays for one more pass of at most five steps.  A loop that ended
\* without done has run into the limit.
StepBudget ==
  /\ ~done /\ "stray" \notin mishaps => steps + Remaining(DecideNext) <= 6 + 5 * used
  /\ ~done /\ phase # "loop" => steps >= MaxSteps

\* The steps left after a handoff are a number, and at most one pass of the pipeline.
LEMMA RemainingBounds ==
  ASSUME NEW a
  PROVE  /\ Remaining(a) \in Nat
         /\ a \in PromptAgents => Remaining(a) <= 5
BY DEF Remaining, PromptAgents, Triage, Graph, Policy, Narrative, CaseManager, Reflector

\* A pass of the loop that shortens the way, or that uses a reflection to lengthen it by
\* less than a pass of the pipeline, keeps the step budget.
LEMMA StepBudgetKept ==
  ASSUME TypeOK, StepBudget, NEW a, NEW h, Run(a, h), NEW k \in {0, 1}, used' = used + k,
         "stray" \notin mishaps' => /\ "stray" \notin mishaps
                                    /\ Remaining(DecideNext') + 1 <= Remaining(a) + 5 * k
  PROVE  StepBudget'
<1>1. ~done /\ DecideNext = a /\ steps' = steps + 1 /\ phase' = "loop"
  BY DEF Run, Looping
<1>2. steps \in Nat /\ used \in Nat
  BY ConstantsOK DEF TypeOK
<1>3. Remaining(a) \in Nat /\ Remaining(DecideNext') \in Nat
  BY RemainingBounds
<1>4. (Remaining(DecideNext))' = Remaining(DecideNext')
  BY DEF Remaining
<1> QED
  BY <1>1, <1>2, <1>3, <1>4 DEF StepBudget

\* The same for k = 0: the step brings the end of the pipeline nearer.
LEMMA StepBudgetUnspent ==
  ASSUME TypeOK, StepBudget, NEW a, NEW h, Run(a, h), used' = used,
         "stray" \notin mishaps' => /\ "stray" \notin mishaps
                                    /\ Remaining(DecideNext') + 1 <= Remaining(a)
  PROVE  StepBudget'
<1>1. used' = used + 0 /\ Remaining(a) = Remaining(a) + 5 * 0
  BY RemainingBounds, ConstantsOK DEF TypeOK
<1> QED
  BY <1>1, StepBudgetKept

\* The same for k = 1: a reflection pays for another pass.
LEMMA StepBudgetSpent ==
  ASSUME TypeOK, StepBudget, NEW a, NEW h, Run(a, h), used' = used + 1,
         "stray" \notin mishaps' => /\ "stray" \notin mishaps
                                    /\ Remaining(DecideNext') + 1 <= Remaining(a) + 5
  PROVE  StepBudget'
<1>1. Remaining(a) + 5 = Remaining(a) + 5 * 1
  BY RemainingBounds
<1> QED
  BY <1>1, StepBudgetKept

\* Where the planner goes after a handoff, and where without one.
LEMMA NextAfterRun ==
  ASSUME TypeOK, Finality, NEW a \in Agents, NEW h, Run(a, h), UNCHANGED verdict
  PROVE  /\ h # None => DecideNext' = h
         /\ h = None => DecideNext' = CASE a = Triage -> ByClass(classification')
                                        [] a = Graph -> Policy
                                        [] a = Policy -> Narrative
                                        [] a = Narrative -> CaseManager
                                        [] a = CaseManager -> Reflector
                                        [] OTHER -> None
<1>1. verdict \in {None, "replan"} /\ current' = a /\ handoff' = h
  BY LoopingIsPending DEF Run
<1>2. a # None /\ None \notin Verdicts
  BY ConstantsOK
<1>3. verdict' \notin {"accept", "escalate"}
  BY <1>1, <1>2 DEF Verdicts
<1> QED
  BY <1>1, <1>2, <1>3 DEF DecideNext, EdgeFrom

\* Every step of the workflow stays within the budget of steps.
LEMMA StepBudgetStep ==
  ASSUME TypeOK, Finality, StepBudget, [Next]_vars
  PROVE  StepBudget'
<1> USE DEF Agents, PromptAgents, Triage, Graph, Policy, Narrative, CaseManager, Reflector
<1>0. used \in Nat /\ steps \in Nat /\ None \notin Agents
  BY ConstantsOK DEF TypeOK
<1>1. ASSUME NEW a \in Agents, AgentFails(a) PROVE StepBudget'
  <2>1. Run(a, None) /\ used' = used /\ UNCHANGED <<verdict, classification>>
    BY <1>1 DEF AgentFails, review, work
  <2>2. ByClass(classification') \in PromptAgents
    BY <2>1, TablesInPipeline DEF TypeOK
  <2>3. Remaining(DecideNext') + 1 <= Remaining(a)
    BY <2>1, <2>2, <1>0, NextAfterRun DEF Remaining
  <2>4. "stray" \notin mishaps' => "stray" \notin mishaps
    BY <1>1 DEF AgentFails, Mishap
  <2> QED
    BY <2>1, <2>3, <2>4, <1>0, StepBudgetUnspent
<1>2. ASSUME NEW c \in Classes, NEW h \in LLMNames \cup {ByClass(c), None},
             TriageClassifies(c, h)
      PROVE  StepBudget'
  <2>1. Run(Triage, h) /\ used' = used /\ UNCHANGED verdict /\ classification' = c
    BY <1>2 DEF TriageClassifies, review
  <2>2. ByClass(c) \in PromptAgents
    BY TablesInPipeline
  <2>3. "stray" \notin mishaps' => "stray" \notin mishaps /\ h \in PromptAgents \cup {None}
    BY <1>2 DEF TriageClassifies, Mishap, Straying
  <2>4. h \in PromptAgents \cup {None} => DecideNext' \in PromptAgents
    BY <2>1, <2>2, <1>0, NextAfterRun
  <2>5. "stray" \notin mishaps' => Remaining(DecideNext') + 1 <= Remaining(Triage)
    BY <2>3, <2>4, RemainingBounds DEF Remaining
  <2> QED
    BY <2>1, <2>3, <2>5, <1>0, StepBudgetUnspent
<1>3. CASE RunGraphAnalyst
  <2>1. Run(Graph, Policy) /\ used' = used /\ UNCHANGED verdict /\ mishaps' = mishaps
    BY <1>3 DEF RunGraphAnalyst, review, Mishap
  <2>2. DecideNext' = Policy
    BY <2>1, <1>0, NextAfterRun
  <2> QED
    BY <2>1, <2>2, <1>0, StepBudgetUnspent DEF Remaining
<1>4. CASE RunPolicy
  <2>1. Run(Policy, Narrative) /\ used' = used /\ UNCHANGED verdict /\ mishaps' = mishaps
    BY <1>4 DEF RunPolicy, review, Mishap
  <2>2. DecideNext' = Narrative
    BY <2>1, <1>0, NextAfterRun
  <2> QED
    BY <2>1, <2>2, <1>0, StepBudgetUnspent DEF Remaining
<1>5. CASE RunNarrative
  <2>1. /\ Run(Narrative, CaseManager) /\ used' = used /\ UNCHANGED verdict
        /\ "stray" \notin mishaps' => "stray" \notin mishaps
    BY <1>5 DEF RunNarrative, review, Mishap
  <2>2. DecideNext' = CaseManager
    BY <2>1, <1>0, NextAfterRun
  <2>3. Remaining(DecideNext') + 1 <= Remaining(Narrative)
    BY <2>2 DEF Remaining
  <2> QED
    BY <2>1, <2>3, <1>0, StepBudgetUnspent
<1>6. CASE RunCaseManager \/ CaseManagerTimesOut
  <2>1. PICK h \in {Reflector, None} :
          /\ Run(CaseManager, h) /\ used' = used /\ UNCHANGED verdict
          /\ "stray" \notin mishaps' => "stray" \notin mishaps
    BY <1>6 DEF RunCaseManager, CaseManagerTimesOut, review, Mishap
  <2>2. DecideNext' = Reflector
    BY <2>1, <1>0, NextAfterRun
  <2>3. Remaining(DecideNext') + 1 <= Remaining(CaseManager)
    BY <2>2 DEF Remaining
  <2> QED
    BY <2>1, <2>3, <1>0, StepBudgetUnspent
<1>7. CASE ReflectReplan
  <2>1. Run(Reflector, ReplanTarget) /\ used' = used + 1 /\ mishaps' = mishaps
    BY <1>7 DEF ReflectReplan, Mishap
  <2>2. DecideNext' = ReplanTarget
    BY <2>1, <1>0, ReplanTargetInPipeline DEF DecideNext, Run
  <2>3. Remaining(DecideNext') + 1 <= Remaining(Reflector) + 5
    BY <2>2, RemainingBounds, ReplanTargetInPipeline DEF Remaining
  <2> QED
    BY <2>1, <2>3, <1>0, StepBudgetSpent
<1>8. CASE ReflectEscalate \/ ReflectAccept
  BY <1>8 DEF ReflectEscalate, ReflectAccept, StepBudget
<1>9. ASSUME NEW h \in LLMNames \cup {Narrative, None}, ReflectHonourReplan(h)
      PROVE  StepBudget'
  <2>1. Run(Reflector, h) /\ used' = used + 1 /\ verdict' = "replan"
    BY <1>9 DEF ReflectHonourReplan
  <2>2. "stray" \notin mishaps' => "stray" \notin mishaps /\ h \in PromptAgents \cup {None}
    BY <1>9 DEF ReflectHonourReplan, Mishap, Straying
  <2>3. h \in PromptAgents \cup {None} => DecideNext' \in PromptAgents \cup {None}
    BY <2>1, <1>0 DEF DecideNext, Run, EdgeFrom
  <2>4. Remaining(None) = 0
    BY <1>0 DEF Remaining
  <2>5. "stray" \notin mishaps' => Remaining(DecideNext') + 1 <= Remaining(Reflector) + 5
    BY <2>2, <2>3, <2>4, RemainingBounds DEF Remaining
  <2> QED
    BY <2>1, <2>2, <2>5, <1>0, StepBudgetSpent
<1>10. CASE NobodyLeft
  BY <1>10 DEF NobodyLeft, StepBudget
<1>11. CASE LoopEnds \/ Answer \/ AnswerFails \/ UNCHANGED vars
  <2>1. /\ UNCHANGED <<done, mishaps, steps, used, handoff, verdict, current, classification>>
        /\ phase' # "loop" => done \/ steps >= MaxSteps
    BY <1>11 DEF LoopEnds, Answer, AnswerFails, vars, work, review, StepBudget
  <2>2. DecideNext' = DecideNext
    BY <2>1 DEF DecideNext, EdgeFrom
  <2> QED
    BY <2>1, <2>2 DEF StepBudget, Remaining
<1> QED
  BY <1>1, <1>2, <1>3, <1>4, <1>5, <1>6, <1>7, <1>8, <1>9, <1>10, <1>11
     DEF Next, AgentStep, RunTriage, RunReflector

\* The step limit never cuts a case short while the LLM names agents it was offered and
\* the reflection budget fits the limit.
THEOREM NeverCutShortHolds == Spec => []NeverCutShort
<1>1. Init => StepBudget
  <2> SUFFICES ASSUME Init PROVE StepBudget
    OBVIOUS
  <2>1. DecideNext = Triage
    BY ConstantsOK DEF Init, DecideNext, EdgeFrom, Verdicts, Agents, Triage, Graph, Policy,
                         Narrative, CaseManager, Reflector
  <2> QED
    BY <2>1 DEF Init, StepBudget, Remaining
<1>2. TypeOK /\ ReviewInv /\ StepBudget /\ [Next]_vars => StepBudget'
  BY StepBudgetStep DEF ReviewInv
<1>3. TypeOK /\ ReviewInv /\ StepBudget => NeverCutShort
  <2> SUFFICES ASSUME TypeOK, ReviewInv, StepBudget, ~done, phase # "loop",
                      "stray" \notin mishaps
               PROVE  ~FitsStepLimit
    BY DEF NeverCutShort
  <2>1. steps >= MaxSteps /\ steps + Remaining(DecideNext) <= 6 + 5 * used
    BY DEF StepBudget
  <2>2. used \in Nat /\ steps \in Nat /\ Remaining(DecideNext) \in Nat
    BY RemainingBounds, ConstantsOK DEF TypeOK
  <2>3. used <= Allowance /\ Allowance \in Int /\ MaxSteps \in Int
    BY ConstantsOK DEF ReviewInv, VerdictJustified, Allowance, TypeOK
  <2> QED
    BY <2>1, <2>2, <2>3 DEF FitsStepLimit
<1> QED
  BY <1>1, <1>2, <1>3, TypeCorrect, ReviewInvariant, PTL DEF Spec
-----------------------------------------------------------------------------
(* A healthy case is accepted.                                             *)

\* The agents of the pipeline that have run and left their artefact.
Delivered == {a \in PromptAgents : a \in visited /\ ArtefactOf(a) \in artefacts}

\* The agents of the pipeline that run before the next reflection when h runs next.
Ahead(h) ==
  CASE h = Graph -> PromptAgents [] h = Policy -> {Policy, Narrative}
    [] h = Narrative -> {Narrative} [] OTHER -> {}

\* No agent has run yet.
AtStart ==
  /\ ~done /\ current = None /\ handoff = None /\ verdict = None /\ used = 0
  /\ visited = {}

\* Who has run has delivered, and a pass is under way that ends with a narrative and, once
\* there was a reflection, with everything the class requires.
Underway ==
  /\ ~done
  /\ handoff \in PromptAgents \cup {CaseManager, Reflector}
  /\ visited \cap PromptAgents \subseteq Delivered
  /\ Narrative \in Delivered \cup Ahead(handoff)
  /\ used >= 1 => Required \subseteq Delivered \cup Ahead(handoff)

\* The inductive invariant behind HealthyCaseIsAccepted.
OnCourse == mishaps = {} /\ budget >= 1 => AtStart \/ Underway \/ verdict = "accept"

\* What a healthy agent of the pipeline finds: it was handed the case, which is under way.
LEMMA HealthyRun ==
  ASSUME TypeOK, Finality, OnCourse, mishaps = {}, budget >= 1, NEW a \in Agents, NEW h, Run(a, h)
  PROVE  /\ a = Triage => AtStart
         /\ a # Triage => Underway /\ handoff = a
<1>1. verdict \in {None, "replan"} /\ None \notin Agents /\ None \notin Verdicts /\ ~done
  BY LoopingIsPending, ConstantsOK DEF Run, Looping
<1>2. AtStart \/ Underway
  BY <1>1 DEF OnCourse, Verdicts
<1>3. DecideNext = a
  BY DEF Run
<1>4. CASE AtStart
  BY <1>1, <1>3, <1>4 DEF AtStart, DecideNext, EdgeFrom, Verdicts, Agents
<1>5. CASE Underway
  <2>1. handoff \in Agents /\ handoff # Triage
    BY <1>5 DEF Underway, PromptAgents, Agents, Triage, Graph, Policy, Narrative, CaseManager,
                Reflector
  <2> QED
    BY <1>1, <1>3, <1>5, <2>1 DEF DecideNext
<1> QED
  BY <1>2, <1>4, <1>5

\* An agent that delivers keeps the case under way: it adds itself to what is delivered, and
\* the agents ahead of it are it and those ahead of the one it hands to.
LEMMA DeliveryKeepsCourse ==
  ASSUME Underway, NEW h \in PromptAgents \cup {CaseManager, Reflector},
         ~done', handoff' = h, used' = used, classification' = classification,
         visited' = visited \cup {handoff}, handoff \in PromptAgents => handoff \in Delivered',
         Delivered \subseteq Delivered', Ahead(handoff) \subseteq Delivered' \cup Ahead(h)
  PROVE  Underway'
BY DEF Underway, Required

\* Without mishaps, each step keeps the case on course.
LEMMA OnCourseStep ==
  ASSUME TypeOK, ReviewInv, OnCourse, [Next]_vars
  PROVE  OnCourse'
<1> SUFFICES ASSUME mishaps' = {}, budget' >= 1 PROVE (AtStart \/ Underway \/ verdict = "accept")'
  BY DEF OnCourse
<1>0. Finality /\ ArtefactsHaveAuthors /\ used \in Nat /\ None \notin Agents \cup LLMNames
  BY ConstantsOK DEF ReviewInv, TypeOK
<1>1. CASE LoopEnds \/ Answer \/ AnswerFails \/ UNCHANGED vars
  <2>1. /\ UNCHANGED <<done, mishaps, budget, used, handoff, verdict, current, classification>>
        /\ UNCHANGED <<visited, artefacts>>
    BY <1>1 DEF LoopEnds, Answer, AnswerFails, vars, work, review
  <2> QED
    BY <2>1 DEF OnCourse, AtStart, Underway, Delivered, Required
<1>2. ASSUME NobodyLeft \/ AgentStep PROVE budget' = budget /\ mishaps = {} /\ budget >= 1
  BY <1>2 DEF NobodyLeft, AgentStep, AgentFails, RunTriage, TriageClassifies, RunGraphAnalyst,
              RunPolicy, RunNarrative, RunCaseManager, CaseManagerTimesOut, RunReflector,
              ReflectReplan, ReflectEscalate, ReflectAccept, ReflectHonourReplan, Run, Mishap
<1>3. CASE NobodyLeft
  <2>1. verdict \in {None, "replan"} /\ None \notin Verdicts /\ ~done /\ DecideNext \notin Agents
    BY <1>0, <1>3, LoopingIsPending, ConstantsOK DEF NobodyLeft, Looping
  <2>2. AtStart \/ Underway
    BY <1>2, <1>3, <2>1 DEF OnCourse, Verdicts
  <2>3. AtStart => DecideNext = Triage
    BY <1>0, <2>1 DEF AtStart, DecideNext, EdgeFrom, Verdicts, Agents
  <2>4. Underway => DecideNext \in Agents
    BY <1>0 DEF Underway, DecideNext, PromptAgents, Agents
  <2> QED
    BY <2>1, <2>2, <2>3, <2>4 DEF Agents
<1>4. ~CaseManagerTimesOut /\ \A a \in Agents : ~AgentFails(a)
  BY DEF AgentFails, CaseManagerTimesOut, Mishap
<1>5. ASSUME NEW c \in Classes, NEW h \in LLMNames \cup {ByClass(c), None},
             TriageClassifies(c, h)
      PROVE  Underway'
  <2>1. /\ Run(Triage, h) /\ used' = used /\ done' = done /\ handoff' = h
        /\ Triage \in Agents
    BY <1>5 DEF TriageClassifies, review, Run, Agents
  <2>2. h \in PromptAgents
    BY <1>5 DEF TriageClassifies, Mishap, Straying
  <2>3. AtStart
    BY <1>0, <1>2, <1>5, <2>1, HealthyRun DEF AgentStep, RunTriage
  <2>4. Narrative \in Ahead(h) /\ Triage \notin PromptAgents
    BY <2>2 DEF Ahead, PromptAgents, Graph, Policy, Narrative, Triage
  <2>5. visited' = {Triage}
    BY <2>1, <2>3 DEF Run, AtStart
  <2> QED
    BY <2>1, <2>2, <2>3, <2>4, <2>5 DEF AtStart, Underway
<1>6. CASE RunGraphAnalyst
  <2>1. /\ Run(Graph, Policy) /\ Graph \in Agents /\ Graph # Triage
        /\ ~done' /\ handoff' = Policy /\ used' = used /\ classification' = classification
        /\ visited' = visited \cup {Graph} /\ artefacts' = artefacts \cup {"graph"}
    BY <1>6 DEF RunGraphAnalyst, review, Run, Looping, Agents, Graph, Triage
  <2>2. Underway /\ handoff = Graph
    BY <1>0, <1>2, <1>6, <2>1, HealthyRun DEF AgentStep
  <2>3. Delivered \subseteq Delivered' /\ Graph \in Delivered'
    BY <2>1 DEF Delivered, PromptAgents, ArtefactOf, Graph, Policy, Narrative
  <2>4. Ahead(Graph) \subseteq {Graph} \cup Ahead(Policy) /\ Policy \in PromptAgents
    BY DEF Ahead, PromptAgents, Graph, Policy, Narrative
  <2> QED
    BY <2>1, <2>2, <2>3, <2>4, DeliveryKeepsCourse
<1>7. CASE RunPolicy
  <2>1. /\ Run(Policy, Narrative) /\ Policy \in Agents /\ Policy # Triage
        /\ ~done' /\ handoff' = Narrative /\ used' = used /\ classification' = classification
        /\ visited' = visited \cup {Policy} /\ artefacts' = artefacts \cup {"policy"}
    BY <1>7 DEF RunPolicy, review, Run, Looping, Agents, Policy, Triage
  <2>2. Underway /\ handoff = Policy
    BY <1>0, <1>2, <1>7, <2>1, HealthyRun DEF AgentStep
  <2>3. Delivered \subseteq Delivered' /\ Policy \in Delivered'
    BY <2>1 DEF Delivered, PromptAgents, ArtefactOf, Graph, Policy
  <2>4. Ahead(Policy) \subseteq {Policy} \cup Ahead(Narrative) /\ Narrative \in PromptAgents
    BY DEF Ahead, PromptAgents, Graph, Policy, Narrative
  <2> QED
    BY <2>1, <2>2, <2>3, <2>4, DeliveryKeepsCourse
<1>8. CASE RunNarrative
  <2>1. PICK written \in SUBSET {"sar", "eba"} :
          /\ Run(Narrative, CaseManager)
          /\ artefacts' = (artefacts \ {"sar", "eba"}) \cup written
          /\ Mishap(IF written = {"sar", "eba"} THEN {} ELSE {"fault"})
          /\ UNCHANGED <<classification, review, stored>>
    BY <1>8 DEF RunNarrative
  <2>2. written = {"sar", "eba"}
    BY <2>1 DEF Mishap
  <2>3. /\ Narrative \in Agents /\ Narrative # Triage
        /\ ~done' /\ handoff' = CaseManager /\ used' = used /\ classification' = classification
        /\ visited' = visited \cup {Narrative} /\ artefacts' = artefacts \cup {"sar", "eba"}
    BY <2>1, <2>2 DEF review, Run, Looping, Agents, Narrative, Triage
  <2>4. Underway /\ handoff = Narrative
    BY <1>0, <1>2, <1>8, <2>1, <2>3, HealthyRun DEF AgentStep
  <2>5. Delivered \subseteq Delivered' /\ Narrative \in Delivered'
    BY <2>3 DEF Delivered, PromptAgents, ArtefactOf, Graph, Policy, Narrative
  <2>6. Ahead(Narrative) \subseteq {Narrative}
    BY DEF Ahead, Graph, Policy, Narrative
  <2> QED
    BY <2>3, <2>4, <2>5, <2>6, DeliveryKeepsCourse
<1>9. CASE RunCaseManager
  <2>1. /\ Run(CaseManager, Reflector) /\ CaseManager \in Agents /\ CaseManager # Triage
        /\ ~done' /\ handoff' = Reflector /\ used' = used /\ classification' = classification
        /\ visited' = visited \cup {CaseManager} /\ artefacts' = artefacts
    BY <1>9 DEF RunCaseManager, work, review, Run, Looping, Agents, CaseManager, Triage
  <2>2. Underway /\ handoff = CaseManager
    BY <1>0, <1>2, <1>9, <2>1, HealthyRun DEF AgentStep
  <2>3. Delivered \subseteq Delivered' /\ Ahead(CaseManager) = {} /\ CaseManager \notin PromptAgents
    BY <2>1 DEF Delivered, Ahead, PromptAgents, Graph, Policy, Narrative, CaseManager
  <2> QED
    BY <2>1, <2>2, <2>3, DeliveryKeepsCourse
<1>10. CASE RunReflector
  <2>1. PICK h : Run(Reflector, h)
    BY <1>10 DEF RunReflector, ReflectReplan, ReflectEscalate, ReflectAccept, ReflectHonourReplan
  <2>2. Underway /\ handoff = Reflector
    <3>1. Reflector \in Agents /\ Reflector # Triage
      BY DEF Agents, Reflector, Triage
    <3> QED
      BY <1>0, <1>2, <1>10, <2>1, <3>1, HealthyRun DEF AgentStep
  <2>3. Ahead(Reflector) = {}
    BY DEF Ahead, Graph, Policy, Narrative, Reflector
  <2>4. Narrative \in Delivered /\ (used >= 1 => Required \subseteq Delivered) /\ ~done
    BY <2>2, <2>3 DEF Underway
  <2>5. Required \subseteq PromptAgents
    BY TablesInPipeline DEF Required, TypeOK
  <2>6. Incomplete => ~(Required \subseteq Delivered)
    BY DEF Incomplete, MissingAgents, GapAgents, Delivered
  <2>7. budget \in Int
    BY ConstantsOK DEF TypeOK
  <2>8. Reflector \notin PromptAgents
    BY DEF Reflector, PromptAgents, Graph, Policy, Narrative
  <2>9. CASE ReflectReplan
    <3>1. ReplanTarget \in PromptAgents
      BY ReplanTargetInPipeline
    <3>2. Required \subseteq Delivered \cup Ahead(ReplanTarget)
      <4>1. MissingAgents = Required \ visited
        BY DEF MissingAgents
      <4>2. Narrative \notin MissingAgents /\ Narrative \notin GapAgents
        BY <2>4 DEF MissingAgents, GapAgents, Delivered
      <4>3. MissingAgents \cup GapAgents # {} /\ MissingAgents \cup GapAgents \subseteq {Graph, Policy}
        BY <2>5, <2>9, <4>2 DEF ReflectReplan, Incomplete, MissingAgents, GapAgents, PromptAgents
      <4>4. Required \subseteq Delivered \cup MissingAgents \cup GapAgents
        BY <2>5 DEF MissingAgents, GapAgents, Delivered
      <4>5. MissingAgents = GapAgents
        BY <1>0, <2>2, <2>5 DEF MissingAgents, GapAgents, ArtefactsHaveAuthors, Underway, Delivered
      <4>6. ReplanTarget = IF Graph \in GapAgents THEN Graph ELSE Policy
        BY <4>2, <4>3, <4>5 DEF ReplanTarget
      <4>7. /\ Ahead(Graph) = PromptAgents
            /\ Policy \in Ahead(Policy)
        BY DEF Ahead, PromptAgents, Graph, Policy, Narrative
      <4> QED
        BY <2>5, <4>3, <4>4, <4>5, <4>6, <4>7
    <3>3. handoff' = ReplanTarget /\ visited' = visited \cup {Reflector} /\ done' = done
      BY <2>9 DEF ReflectReplan, Run
    <3>4. artefacts' = artefacts /\ classification' = classification
      BY <2>9 DEF ReflectReplan, work
    <3> QED
      BY <2>2, <2>4, <2>8, <3>1, <3>2, <3>3, <3>4 DEF Underway, Required, Delivered
  <2>10. ASSUME NEW k \in LLMNames \cup {Narrative, None}, ReflectHonourReplan(k) PROVE Underway'
    <3>1. k \in PromptAgents
      BY <2>10 DEF ReflectHonourReplan, Mishap, Straying
    <3>2. Required \subseteq Delivered
      BY <2>2, <2>5, <2>10 DEF ReflectHonourReplan, Incomplete, MissingAgents, GapAgents, Delivered
    <3>3. handoff' = k /\ visited' = visited \cup {Reflector} /\ done' = done
      BY <2>10 DEF ReflectHonourReplan, Run
    <3>4. artefacts' = artefacts /\ classification' = classification
      BY <2>10 DEF ReflectHonourReplan, work
    <3> QED
      BY <2>8, <2>2, <2>4, <3>1, <3>2, <3>3, <3>4 DEF Underway, Required, Delivered
  <2>11. ASSUME ReflectEscalate PROVE FALSE
    <3>1. Incomplete /\ ~(used < budget)
      BY <2>11 DEF ReflectEscalate, WithinBudget
    <3>2. budget >= 1
      BY <1>2, <1>10 DEF AgentStep
    <3>3. used >= 1
      BY <1>0, <2>7, <3>1, <3>2
    <3> QED
      BY <2>4, <2>6, <3>1, <3>3
  <2>12. CASE ReflectAccept
    BY <2>12 DEF ReflectAccept
  <2> QED
    BY <1>10, <2>9, <2>10, <2>11, <2>12 DEF RunReflector
<1> QED
  BY <1>1, <1>3, <1>4, <1>5, <1>6, <1>7, <1>8, <1>9, <1>10 DEF Next, AgentStep, RunTriage

\* Without any mishap, and with at least one reflection, a case ends accepted: whatever plan
\* the LLM starts with, and however often it asks for another pass.
THEOREM HealthyCasesAreAccepted == Spec => []HealthyCaseIsAccepted
<1>1. Init => OnCourse
  BY DEF Init, OnCourse, AtStart
<1>2. TypeOK /\ ReviewInv /\ OnCourse /\ [Next]_vars => OnCourse'
  BY OnCourseStep
<1>3. OnCourse /\ NeverCutShort => HealthyCaseIsAccepted
  BY DEF OnCourse, AtStart, Underway, NeverCutShort, HealthyCaseIsAccepted
<1> QED
  BY <1>1, <1>2, <1>3, TypeCorrect, ReviewInvariant, NeverCutShortHolds, PTL DEF Spec

-----------------------------------------------------------------------------
(* The workflow implements the abstract review.                            *)

\* The outcome of the review, as the refinement mapping reads it off the workflow.
Outcome == IF verdict \in {"accept", "escalate"} THEN verdict
           ELSE IF phase = "loop" THEN "pending" ELSE "abandoned"

\* What the reviewer may find missing is an artefact of the pipeline.
LEMMA GapsInPipeline ==
  ASSUME TypeOK
  PROVE  GapAgents \subseteq PromptAgents
BY TablesInPipeline DEF GapAgents, Required, TypeOK

\* An agent that only works on the case is a Work step of the review.
LEMMA WorkStep ==
  ASSUME TypeOK, TypeOK', Finality, Looping, UNCHANGED <<budget, review>>, phase' = "loop"
  PROVE  Review!Work
<1>1. verdict \in {None, "replan"} /\ None \notin Verdicts /\ phase = "loop"
  BY LoopingIsPending, ConstantsOK DEF Looping
<1>2. Outcome = "pending" /\ Outcome' = "pending"
  BY <1>1 DEF Outcome, Verdicts, review
<1>3. GapAgents' \subseteq PromptAgents
  <2>1. Required' \subseteq PromptAgents
    BY TablesInPipeline DEF Required, TypeOK
  <2> QED
    BY <2>1 DEF GapAgents
<1>4. Allowance' - used' = Allowance - used
  BY DEF Allowance, review
<1> QED
  BY <1>2, <1>3, <1>4 DEF Review!Work, Outcome

\* Every step of the workflow is a step of the abstract review, or none.
LEMMA ReviewStep ==
  ASSUME TypeOK, TypeOK', ReviewInv, [Next]_vars
  PROVE  Review!Next \/ UNCHANGED Review!vars
<1> USE DEF ReviewInv
<1>0. Review!Work => Review!Next
  BY DEF Review!Next
<1>1. ASSUME NEW a \in Agents, AgentFails(a) PROVE Review!Work
  BY <1>1, WorkStep DEF AgentFails, Run, Looping
<1>2. ASSUME NEW c \in Classes, NEW h \in LLMNames \cup {ByClass(c), None},
             TriageClassifies(c, h)
      PROVE  Review!Work
  BY <1>2, WorkStep DEF TriageClassifies, Run, Looping
<1>3. CASE RunGraphAnalyst \/ RunPolicy \/ RunNarrative \/ RunCaseManager \/ CaseManagerTimesOut
  BY <1>3, <1>0, WorkStep DEF RunGraphAnalyst, RunPolicy, RunNarrative, RunCaseManager,
                        CaseManagerTimesOut, Run, Looping
<1>4. CASE RunReflector
  <2>1. GapAgents' = GapAgents /\ Allowance' = Allowance /\ phase = "loop" /\ phase' = "loop"
    BY <1>4 DEF RunReflector, ReflectReplan, ReflectEscalate, ReflectAccept,
                ReflectHonourReplan, work, GapAgents, Required, Run, Looping, Allowance
  <2>2. verdict \in {None, "replan"} /\ None \notin Verdicts
    BY <1>4, LoopingIsPending, ConstantsOK
       DEF RunReflector, ReflectReplan, ReflectEscalate, ReflectAccept, ReflectHonourReplan, Run
  <2>3. Outcome = "pending"
    BY <2>1, <2>2 DEF Outcome, Verdicts
  <2>4. budget \in Int /\ used \in Nat /\ Allowance \in Int /\ used <= Allowance
    BY ConstantsOK DEF TypeOK, VerdictJustified, Allowance
  <2>5. CASE ReflectReplan \/ \E h \in LLMNames \cup {Narrative, None} : ReflectHonourReplan(h)
    <3>1. verdict' = "replan" /\ used' = used + 1 /\ used < budget
      BY <2>5 DEF ReflectReplan, ReflectHonourReplan, WithinBudget
    <3>2. Outcome' = "pending"
      BY <3>1, <2>1 DEF Outcome
    <3>3. Allowance - used > 0 /\ Allowance - used' = (Allowance - used) - 1
      BY <3>1, <2>4 DEF Allowance
    <3> QED
      BY <2>1, <2>3, <3>2, <3>3 DEF Review!Next, Review!SendBack, Outcome
  <2>6. CASE ReflectEscalate
    <3>1. verdict' = "escalate" /\ used' = used /\ ~(used < budget) /\ GapAgents # {}
      BY <2>6, IncompleteIsGap DEF ReflectEscalate, WithinBudget
    <3>2. Allowance - used = 0
      BY <3>1, <2>4 DEF Allowance
    <3> QED
      BY <2>1, <2>3, <3>1, <3>2 DEF Review!Next, Review!Escalate, Outcome
  <2>7. CASE ReflectAccept
    <3>1. verdict' = "accept" /\ used' = used /\ GapAgents = {}
      BY <2>7, IncompleteIsGap DEF ReflectAccept
    <3> QED
      BY <2>1, <2>3, <3>1 DEF Review!Next, Review!Accept, Outcome
  <2> QED
    BY <1>4, <2>5, <2>6, <2>7 DEF RunReflector
<1>5. CASE NobodyLeft
  <2>1. /\ GapAgents' = GapAgents /\ Allowance' = Allowance /\ used' = used
        /\ verdict' = verdict /\ phase = "loop" /\ phase' = "ended"
    BY <1>5 DEF NobodyLeft, work, GapAgents, Required, Allowance, Looping
  <2>2. verdict \in {None, "replan"} /\ None \notin Verdicts
    BY <1>5, LoopingIsPending, ConstantsOK DEF NobodyLeft
  <2>3. Outcome = "pending" /\ Outcome' = "abandoned"
    BY <2>1, <2>2 DEF Outcome, Verdicts
  <2> QED
    BY <2>1, <2>3 DEF Review!Next, Review!Abandon, Outcome
<1>6. CASE LoopEnds
  <2>1. /\ GapAgents' = GapAgents /\ Allowance' = Allowance /\ used' = used
        /\ verdict' = verdict /\ phase = "loop" /\ phase' = "ended"
    BY <1>6 DEF LoopEnds, work, review, GapAgents, Required, Allowance
  <2>2. Outcome' = Outcome \/ (Outcome = "pending" /\ Outcome' = "abandoned")
    BY <2>1 DEF Outcome
  <2> QED
    BY <2>1, <2>2 DEF Review!Next, Review!Abandon, Review!vars, Outcome
<1>7. CASE Answer \/ AnswerFails \/ UNCHANGED vars
  <2>1. /\ GapAgents' = GapAgents /\ Allowance' = Allowance /\ used' = used
        /\ verdict' = verdict /\ (phase' = "loop" <=> phase = "loop")
    BY <1>7 DEF Answer, AnswerFails, vars, work, review, GapAgents, Required, Allowance
  <2>2. Outcome' = Outcome
    BY <2>1 DEF Outcome
  <2> QED
    BY <2>1, <2>2 DEF Review!vars, Outcome
<1>8. CASE AgentStep
  BY <1>0, <1>1, <1>2, <1>3, <1>4, <1>8 DEF AgentStep, RunTriage
<1> QED
  BY <1>5, <1>6, <1>7, <1>8 DEF Next

\* Every behaviour of the workflow is a behaviour of the abstract review: sent back only
\* within the budget, accepted only without gaps, escalated only with gaps and an empty
\* budget, and not touched once the outcome is known.
THEOREM WorkflowImplementsReview == Spec => ReviewIsImplemented
<1>1. Init => Review!Init
  <2> SUFFICES ASSUME Init PROVE Review!Init
    OBVIOUS
  <2>1. Allowance - used = Review!Allowance(budget) /\ budget \in Budgets
    BY ConstantsOK DEF Init, Allowance, Review!Allowance
  <2>2. GapAgents \subseteq PromptAgents
    BY TablesInPipeline DEF Init, GapAgents, Required, Classes
  <2>3. Outcome = "pending"
    BY ConstantsOK DEF Init, Outcome, Verdicts
  <2> QED
    BY <2>1, <2>2, <2>3 DEF Review!Init, Outcome
<1>2. TypeOK /\ TypeOK' /\ ReviewInv /\ [Next]_vars => [Review!Next]_(Review!vars)
  BY ReviewStep
<1> QED
  BY <1>1, <1>2, TypeCorrect, ReviewInvariant, PTL DEF Spec, ReviewIsImplemented, Review!Spec
=============================================================================
