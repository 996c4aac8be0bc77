-------------------------- MODULE MCSlidingWindow --------------------------
(* Constants of SlidingWindow for TLC. *)
EXTENDS SlidingWindow, TLC

\* Deliveries differ in nothing but their timestamps.
Symmetry == Permutations(Ids)

\* Twice the longest window and one second, so that events can be outdated, in a window,
\* on either edge of it, and late by more and by less than a window.
MCTimes == 0..7
=============================================================================
