------------------------------- MODULE MCSeed --------------------------------
(* Constants for model-checking Seed: two runs that overlap, two values of
   ADMIN_EMAIL and three passwords, one provided and one generated by each run. *)
EXTENDS Seed, TLC

CONSTANTS p1, p2, e1, e2, w1, w2, w3

MCRun == {p1, p2}
MCEmail == {e1, e2}
MCPassword == {w1, w2, w3}

Symmetry == Permutations(MCRun) \cup Permutations(MCEmail) \cup Permutations(MCPassword)
=============================================================================
