---------------------------- MODULE MCLiveEvents ----------------------------
(* Constants of LiveEvents for TLC: a queue holds the events of one
   replay and not of two. *)
EXTENDS LiveEvents, TLC

CONSTANTS r1, r2, c1, c2
=============================================================================
