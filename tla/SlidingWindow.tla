--------------------------- MODULE SlidingWindow ---------------------------
(***************************************************************************)
(* The sliding-window aggregator of the feature builder                    *)
(* (services/feature-builder/features_core.py): the state document of one  *)
(* card or merchant, into which transaction events are folded one by one,  *)
(* in any order of their timestamps.                                       *)
(*                                                                         *)
(* A count, an amount or a number of merchants of a window is a function   *)
(* of the set of events counted in it, so a window stands for that set.    *)
(* The retained log is a set as well: the code keeps it sorted by time,    *)
(* and only which events a full log drops depends on the order.            *)
(***************************************************************************)
EXTENDS Integers, FiniteSets

CONSTANTS
  Ids,           \* the deliveries of events for this entity
  Times,         \* their timestamps, in seconds
  Spans,         \* the lengths in WINDOWS_S
  Day,           \* WINDOWS_S["24h"], the longest of them
  MaxRetained,   \* MAX_RETAINED_EVENTS
  None           \* no event yet

Events == [id : Ids, time : Times]

ASSUME WindowConstantsOK ==
  /\ Times \subseteq Int
  /\ Day \in Nat
  /\ Spans \subseteq 0..Day
  /\ MaxRetained \in Nat
  /\ None \notin Events

VARIABLES
  events,    \* state.events: the retained log
  last,      \* the event folded last, whose timestamp is state.last_seen_iso
  windows,   \* doc["features"]: for each span the events counted
  folded     \* history: every event folded so far

windowVars == <<events, last, windows, folded>>

WindowInit ==
  /\ events = {}
  /\ last = None
  /\ windows = [s \in Spans |-> {}]
  /\ folded = {}

\* Mutant of Retained: an event exactly one day old is cut off.
RetainedYounger(S, now) == {x \in S : x.time > now - Day}

\* _prune, by time: what is not older than a day before the event being folded.
Retained(S, now) == {x \in S : x.time >= now - Day}

\* Mutant of Pruned: the log is not bounded.
PrunedByTime(S, now) == {Retained(S, now)}

\* Mutant of Pruned: a full log keeps its oldest events.
PrunedFromTheEnd(S, now) ==
  LET R == Retained(S, now)
  IN  IF Cardinality(R) <= MaxRetained THEN {R}
      ELSE {K \in SUBSET R : /\ Cardinality(K) = MaxRetained
                             /\ \A k \in K, x \in R \ K : k.time <= x.time}

\* _prune: of a log that is too long the newest events stay.  Events of the same second
\* stay in the order of their arrival, which the set leaves open.
Pruned(S, now) ==
  LET R == Retained(S, now)
  IN  IF Cardinality(R) <= MaxRetained THEN {R}
      ELSE {K \in SUBSET R : /\ Cardinality(K) = MaxRetained
                             /\ \A k \in K, x \in R \ K : x.time <= k.time}

\* Mutant of Counted: an event exactly as old as the window is long is left out.
CountedYounger(S, now, span) == {x \in S : x.time > now - span}

\* compute_features: a window has a lower end and no upper one.
Counted(S, now, span) == {x \in S : x.time >= now - span}

\* fold_event: update_state, then compute_features at the time of the event.
Fold(e) ==
  /\ \A x \in folded : x.id # e.id
  /\ events' \in Pruned(events \cup {e}, e.time)
  /\ last' = e
  /\ windows' = [s \in Spans |-> Counted(events', e.time, s)]
  /\ folded' = folded \cup {e}

WindowNext == \E e \in Events : Fold(e)

WindowSpec == WindowInit /\ [][WindowNext]_windowVars
-----------------------------------------------------------------------------
\* The types of the variables, and the bound on the size of the document.
WindowTypeOK ==
  /\ folded \subseteq Events
  /\ events \subseteq folded
  /\ last \in folded \cup {None}
  /\ windows \in [Spans -> SUBSET events]
  /\ Cardinality(events) <= MaxRetained

\* What a window of the last event should hold: the events between its two ends.
Exact(span) == {x \in folded : last.time - span <= x.time /\ x.time <= last.time}

Newest == \A x \in folded : x.time <= last.time

\* However disordered the events before it arrived, the features of an event newer than
\* all of them are exact, and in a window with more events than the log retains the count
\* stops at MAX_RETAINED_EVENTS: out-of-order arrival leaves no lasting damage.
NewestEventIsExact ==
  last # None /\ Newest => \A s \in Spans :
    /\ windows[s] \subseteq Exact(s)
    /\ Cardinality(Exact(s)) <= MaxRetained => windows[s] = Exact(s)
    /\ Cardinality(Exact(s)) > MaxRetained => Cardinality(windows[s]) = MaxRetained

\* How far the clock of the entity, the newest timestamp seen, is ahead of the last event.
LateBy(d) == \A x \in folded : x.time - last.time <= d

\* An event that arrives late still sees every event of its own window, as long as the
\* window and the delay together stay within the day the log reaches back.
LateEventMissesNothing ==
  last # None => \A s \in Spans :
    LateBy(Day - s) /\ Cardinality(Counted(folded, last.time, s)) <= MaxRetained
      => Exact(s) \subseteq windows[s]

\* An event is forgotten only because a newer one is more than a day ahead of it, or
\* because the log is full of events that are no older: the oldest ones go first, however
\* disordered they arrived.
ForgottenForAReason ==
  \A x \in folded \ events :
    \/ \E y \in folded : x.time < y.time - Day
    \/ Cardinality(events) = MaxRetained /\ \A k \in events : x.time <= k.time

\* services/feature-builder/README.md:33-35: from the retained log the windows are exact
\* also for an event that arrives out of order.
OutOfOrderIsExact ==
  last # None => \A s \in Spans :
    Cardinality(folded) <= MaxRetained => windows[s] = Exact(s)
=============================================================================
