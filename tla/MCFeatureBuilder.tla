-------------------------- MODULE MCFeatureBuilder --------------------------
(* Constants of FeatureBuilder for TLC. *)
EXTENDS FeatureBuilder, TLC

CONSTANTS p1, p2, a, b, bad, junk, cardA, cardB, shopA, shopB

\* The producer sent a to both partitions, so that card and shop A have two writers.
\* p2 also holds an event without the required fields, and ends with a body that cannot
\* be decoded.
MCStream == p1 :> <<a, b>> @@ p2 :> <<bad, a, junk>>

MCCardOf == [t \in Txns |-> IF t = b THEN cardB ELSE cardA]

MCMerchantOf == [t \in Txns |-> IF t = b THEN shopB ELSE shopA]
=============================================================================
