----------------------------- MODULE CaseReview -----------------------------
(***************************************************************************)
(* What the review of a fraud case promises, whatever agents work on it    *)
(* and in whatever order: the reviewer may send a case back only while     *)
(* its reflection budget lasts, accepts only a case without gaps, and      *)
(* escalates only a case that still has gaps once the budget is spent.     *)
(* The review reaches exactly one outcome, and from then on the case under *)
(* review no longer changes.  CaseWorkflow is shown to implement it.       *)
(***************************************************************************)
EXTENDS Integers

CONSTANTS
  Budgets,   \* the reflection budgets a review may start with, integers
  Parts      \* the artefacts a reviewer may find missing

VARIABLES
  left,      \* how often the case may still be sent back
  gaps,      \* the artefacts the case still lacks
  outcome    \* "pending" until the review is over

vars == <<left, gaps, outcome>>

Outcomes == {"pending", "accept", "escalate", "abandoned"}

\* A request may carry a negative budget: it allows no reflection at all.
Allowance(b) == IF b > 0 THEN b ELSE 0

Init ==
  /\ left \in {Allowance(b) : b \in Budgets}
  /\ gaps \in SUBSET Parts
  /\ outcome = "pending"

\* Agents add to the case, or lose some of it again.
Work ==
  /\ outcome = "pending"
  /\ gaps' \in SUBSET Parts
  /\ UNCHANGED <<left, outcome>>

\* The reviewer sends the case back, which uses up one reflection.
SendBack ==
  /\ outcome = "pending"
  /\ left > 0
  /\ left' = left - 1
  /\ UNCHANGED <<gaps, outcome>>

Accept ==
  /\ outcome = "pending"
  /\ gaps = {}
  /\ outcome' = "accept"
  /\ UNCHANGED <<left, gaps>>

Escalate ==
  /\ outcome = "pending"
  /\ gaps # {}
  /\ left = 0
  /\ outcome' = "escalate"
  /\ UNCHANGED <<left, gaps>>

\* The review stops without a verdict: nobody is left to hand the case to.
Abandon ==
  /\ outcome = "pending"
  /\ outcome' = "abandoned"
  /\ UNCHANGED <<left, gaps>>

Next == Work \/ SendBack \/ Accept \/ Escalate \/ Abandon

Spec == Init /\ [][Next]_vars
=============================================================================
