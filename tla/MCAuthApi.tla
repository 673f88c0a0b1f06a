------------------------------ MODULE MCAuthApi ------------------------------
(* Constants for model-checking AuthApi: two requests in flight (two tabs), two
   sessions and one identifier.                                               *)
EXTENDS AuthApi, TLC

CONSTANTS r1, r2, t1, t2, i1

MCReq == {r1, r2}
MCIdent == {i1}
MCToken == {t1, t2}
MCHash == [t \in MCToken |-> <<"sha256", t>>]

Symmetry == Permutations(MCReq) \cup Permutations(MCToken)
=============================================================================
