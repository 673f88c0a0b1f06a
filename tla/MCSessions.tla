----------------------------- MODULE MCSessions ------------------------------
(* Constants for model-checking Sessions: two sessions and three requests, so
   that a validation overlaps a logout of its session and one of the other.   *)
EXTENDS Sessions, TLC

CONSTANTS r1, r2, r3, t1, t2

MCReq == {r1, r2, r3}
MCToken == {t1, t2}
MCHash == [t \in MCToken |-> <<"sha256", t>>]

Symmetry == Permutations(MCReq) \cup Permutations(MCToken)
=============================================================================
