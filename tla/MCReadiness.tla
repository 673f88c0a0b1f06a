----------------------------- MODULE MCReadiness -----------------------------
(* Constants for model-checking Readiness: the API, and one of the services
   with the plain health server.                                              *)
EXTENDS Readiness

MCService == {"api", "worker"}
MCApi == {"api"}
=============================================================================
