----------------------------- MODULE MCRateLimit -----------------------------
(* Constants for model-checking RateLimit: three requests on two identifiers,
   which is a first attempt, a concurrent attempt and a login that succeeds.  *)
EXTENDS RateLimit

CONSTANTS r1, r2, r3, i1, i2

MCReq == {r1, r2, r3}
MCIdent == {i1, i2}

MCTwoReq == {r1, r2}
MCOneIdent == {i1}
=============================================================================
