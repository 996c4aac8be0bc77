------------------------------ MODULE MCCardData ------------------------------
(* Constants of GnnPublish for TLC. *)
EXTENDS GnnPublish, TLC

CONSTANTS c1, c2, c3, l1, l2

MCRings == c1 :> TRUE

MCSymmetry == Permutations({l1, l2}) \cup Permutations({c2, c3})

MCInit == CardInit /\ doc[c2].found /\ doc[c3].found
MCSpec == MCInit /\ [][CardNext]_cardVars
=============================================================================
