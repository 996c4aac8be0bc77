------------------------ MODULE SlidingWindow_proofs ------------------------
(* Theorems about SlidingWindow, for any events, windows and size of the log. *)
EXTENDS SlidingWindow, FiniteSetTheorems, TLAPS

\* The features in the document are those of the retained log at the last event.
WindowsFollow ==
  last # None => \A s \in Spans : windows[s] = Counted(events, last.time, s)

\* The inductive invariant of the aggregator.
IInv == WindowTypeOK /\ IsFiniteSet(folded) /\ WindowsFollow /\ ForgottenForAReason

\* Timestamps are integers.
LEMMA TimesAreIntegers == \A x \in Events : x.time \in Int
BY WindowConstantsOK DEF Events

\* Pruning keeps a part of the log that is not too long; what it drops is a day old, or
\* makes way for a full log of newer events.
LEMMA PrunedLog ==
  ASSUME NEW S, S \subseteq Events, IsFiniteSet(S), NEW now \in Int,
         NEW K, K \in Pruned(S, now)
  PROVE  /\ K \subseteq S
         /\ Cardinality(K) <= MaxRetained
         /\ \A x \in S \ K :
              \/ x.time < now - Day
              \/ Cardinality(K) = MaxRetained /\ \A k \in K : x.time <= k.time
<1> DEFINE R == Retained(S, now)
<1>1. R \subseteq S /\ \A x \in S \ R : x.time < now - Day
  BY TimesAreIntegers, WindowConstantsOK DEF Retained
<1>2. CASE Cardinality(R) <= MaxRetained
  BY <1>1, <1>2 DEF Pruned
<1>3. CASE ~(Cardinality(R) <= MaxRetained)
  <2>1. /\ K \subseteq R /\ Cardinality(K) = MaxRetained
        /\ \A k \in K, x \in R \ K : x.time <= k.time
    BY <1>3 DEF Pruned
  <2> QED
    BY <1>1, <2>1, WindowConstantsOK
<1> QED
  BY <1>2, <1>3

\* An empty document satisfies it.
LEMMA IInvInit == WindowInit => IInv
BY FS_EmptySet, WindowConstantsOK
   DEF WindowInit, IInv, WindowTypeOK, WindowsFollow, ForgottenForAReason

\* Folding an event preserves it.
LEMMA IInvFold ==
  ASSUME IInv, NEW e \in Events, Fold(e)
  PROVE  IInv'
<1> USE DEF IInv
<1>1. folded' \subseteq Events /\ IsFiniteSet(folded') /\ e \in folded' /\ folded \subseteq folded'
  BY FS_AddElement DEF Fold, WindowTypeOK
<1>2. e.time \in Int /\ Day \in Nat /\ MaxRetained \in Nat /\ \A x \in folded' : x.time \in Int
  BY <1>1, TimesAreIntegers, WindowConstantsOK
<1>3. /\ events \cup {e} \subseteq folded'
      /\ events \cup {e} \subseteq Events
      /\ IsFiniteSet(events)
      /\ e \notin events
  BY <1>1, FS_Subset DEF Fold, WindowTypeOK
<1>4. /\ events' \subseteq events \cup {e}
      /\ Cardinality(events') <= MaxRetained
      /\ \A x \in (events \cup {e}) \ events' :
           \/ x.time < e.time - Day
           \/ Cardinality(events') = MaxRetained /\ \A k \in events' : x.time <= k.time
  BY <1>2, <1>3, FS_AddElement, PrunedLog DEF Fold
<1>5. WindowTypeOK'
  BY <1>1, <1>3, <1>4 DEF Fold, WindowTypeOK, Counted
<1>6. WindowsFollow'
  BY WindowConstantsOK DEF Fold, WindowsFollow
<1>7. ASSUME NEW x \in folded' \ events'
      PROVE  \/ \E y \in folded' : x.time < y.time - Day
             \/ Cardinality(events') = MaxRetained /\ \A k \in events' : x.time <= k.time
  <2>1. CASE x \in folded /\ \E y \in folded : x.time < y.time - Day
    BY <1>1, <2>1
  <2>2. CASE x \in events \cup {e}
    BY <1>1, <1>4, <1>7, <2>2
  <2>3. CASE x \in folded \ events /\ Cardinality(events) = MaxRetained
                                /\ \A k \in events : x.time <= k.time
    (* The full log took e in, so an event y that is no younger than x made way. *)
    <3>1. PICK y \in events \cup {e} : y \notin events'
      <4>1. Cardinality(events \cup {e}) = MaxRetained + 1
        BY <1>3, <2>3, FS_AddElement
      <4>2. Cardinality(events') # MaxRetained + 1
        BY <1>4, WindowConstantsOK
      <4>3. events' \subseteq events \cup {e}
        BY <1>4
      <4> QED
        BY <4>1, <4>2, <4>3
    <3>2. CASE y.time < e.time - Day
      <4>1. y \in events
        BY <1>2, <1>3, <3>1, <3>2
      <4>2. x.time < e.time - Day
        BY <1>1, <1>2, <1>3, <2>3, <3>2, <4>1
      <4> QED
        BY <1>1, <4>2
    <3>3. CASE Cardinality(events') = MaxRetained /\ \A k \in events' : y.time <= k.time
      <4>1. CASE y \in events
        BY <1>1, <1>2, <1>3, <1>4, <2>3, <3>3, <4>1
      <4>2. CASE y = e
        BY <1>4, <2>3, <3>1, <3>3, <4>2
      <4> QED
        BY <3>1, <4>1, <4>2
    <3> QED
      BY <1>4, <3>1, <3>2, <3>3
  <2> QED
    BY <2>1, <2>2, <2>3 DEF Fold, ForgottenForAReason
<1> QED
  BY <1>1, <1>5, <1>6, <1>7 DEF ForgottenForAReason

\* Every reachable state satisfies the inductive invariant.
THEOREM Inductive == WindowSpec => []IInv
<1>1. IInv /\ UNCHANGED windowVars => IInv'
  BY DEF IInv, WindowTypeOK, WindowsFollow, ForgottenForAReason, Counted, windowVars
<1>2. IInv /\ [WindowNext]_windowVars => IInv'
  BY <1>1, IInvFold DEF WindowNext
<1> QED
  BY <1>2, IInvInit, PTL DEF WindowSpec

\* The document never holds more than MAX_RETAINED_EVENTS events, and only folded ones.
THEOREM TypeCorrect == WindowSpec => []WindowTypeOK
BY Inductive, PTL DEF IInv

\* No event leaves the log without one of the two reasons.
THEOREM NothingForgottenWithoutReason == WindowSpec => []ForgottenForAReason
BY Inductive, PTL DEF IInv

\* The window of the last event, without its upper end: finite sets, and what is known
\* of an event in it that the log has lost.
LEMMA LostFromWindow ==
  ASSUME IInv, last # None, NEW s \in Spans, LateBy(Day - s),
         NEW x \in Counted(folded, last.time, s) \ events
  PROVE  /\ Cardinality(events) = MaxRetained
         /\ events \subseteq Counted(folded, last.time, s)
<1>1. last.time \in Int /\ s \in Int /\ Day \in Int /\ \A y \in folded : y.time \in Int
  BY TimesAreIntegers, WindowConstantsOK DEF IInv, WindowTypeOK
<1>2. x \in folded \ events /\ x.time >= last.time - s
  BY DEF Counted
<1>3. \A y \in folded : ~(x.time < y.time - Day)
  BY <1>1, <1>2 DEF LateBy
<1>4. Cardinality(events) = MaxRetained /\ \A k \in events : x.time <= k.time
  BY <1>2, <1>3 DEF IInv, ForgottenForAReason
<1> QED
  BY <1>1, <1>2, <1>4 DEF IInv, WindowTypeOK, Counted

\* A window that fits the log is complete.
LEMMA WindowIsRetained ==
  ASSUME IInv, last # None, NEW s \in Spans, LateBy(Day - s),
         Cardinality(Counted(folded, last.time, s)) <= MaxRetained
  PROVE  windows[s] = Counted(folded, last.time, s)
<1> DEFINE W == Counted(folded, last.time, s)
<1>1. IsFiniteSet(W) /\ MaxRetained \in Nat /\ Cardinality(W) \in Nat
  BY FS_Subset, FS_CardinalityType, WindowConstantsOK DEF IInv, Counted
<1>2. windows[s] = Counted(events, last.time, s)
  BY DEF IInv, WindowsFollow
<1>3. SUFFICES ASSUME NEW x \in W \ events PROVE FALSE
  BY <1>2 DEF IInv, WindowTypeOK, Counted
<1>4. Cardinality(events) = MaxRetained /\ events \cup {x} \subseteq W /\ x \notin events
  BY LostFromWindow
<1>5. IsFiniteSet(events)
  BY FS_Subset DEF IInv, WindowTypeOK
<1>6. Cardinality(events \cup {x}) = MaxRetained + 1
  BY <1>4, <1>5, FS_AddElement
<1>7. Cardinality(events \cup {x}) <= Cardinality(W)
  BY <1>1, <1>4, FS_Subset
<1> QED
  BY <1>1, <1>6, <1>7

\* A late event misses no event of its own window.
THEOREM LateEventsMissNothing == WindowSpec => []LateEventMissesNothing
<1>1. IInv => LateEventMissesNothing
  BY WindowIsRetained DEF LateEventMissesNothing, Exact, Counted
<1> QED
  BY <1>1, Inductive, PTL

\* The features of an event newer than all before it are exact, or stop at the size of
\* the log, in whatever order the events before it arrived.
THEOREM NewestEventsAreExact == WindowSpec => []NewestEventIsExact
<1>1. ASSUME IInv, last # None, Newest, NEW s \in Spans
      PROVE  /\ windows[s] \subseteq Exact(s)
             /\ Cardinality(Exact(s)) <= MaxRetained => windows[s] = Exact(s)
             /\ Cardinality(Exact(s)) > MaxRetained => Cardinality(windows[s]) = MaxRetained
  <2>1. last.time \in Int /\ s \in 0..Day /\ Day \in Nat /\ \A y \in folded : y.time \in Int
    BY <1>1, TimesAreIntegers, WindowConstantsOK DEF IInv, WindowTypeOK
  <2>2. LateBy(Day - s)
    BY <1>1, <2>1 DEF Newest, LateBy
  <2>3. Exact(s) = Counted(folded, last.time, s)
    BY <1>1, <2>1 DEF Newest, Exact, Counted
  <2>4. windows[s] = Counted(events, last.time, s) /\ windows[s] \subseteq Exact(s)
    BY <1>1, <2>3 DEF IInv, WindowTypeOK, WindowsFollow, Counted
  <2>5. Cardinality(Exact(s)) <= MaxRetained => windows[s] = Exact(s)
    BY <1>1, <2>2, <2>3, WindowIsRetained
  <2>6. ASSUME Cardinality(Exact(s)) > MaxRetained
        PROVE  Cardinality(windows[s]) = MaxRetained
    <3>1. ASSUME Exact(s) \subseteq events PROVE FALSE
      <4>1. IsFiniteSet(events) /\ Cardinality(events) <= MaxRetained
        BY <1>1, FS_Subset DEF IInv, WindowTypeOK
      <4>2. Cardinality(Exact(s)) <= Cardinality(events) /\ IsFiniteSet(Exact(s))
        BY <3>1, <4>1, FS_Subset
      <4> QED
        BY <2>6, <4>1, <4>2, FS_CardinalityType, WindowConstantsOK
    <3>2. PICK x \in Exact(s) : x \notin events
      BY <3>1
    <3>3. Cardinality(events) = MaxRetained /\ events \subseteq Counted(folded, last.time, s)
      BY <1>1, <2>2, <2>3, <3>2, LostFromWindow
    <3>4. windows[s] = events
      BY <2>4, <3>3 DEF Counted
    <3> QED
      BY <3>3, <3>4
  <2> QED
    BY <2>4, <2>5, <2>6
<1>2. IInv => NewestEventIsExact
  BY <1>1 DEF NewestEventIsExact
<1> QED
  BY <1>2, Inductive, PTL
=============================================================================
