----------------------------- MODULE SessionLife ------------------------------
(***************************************************************************)
(* What the session service promises, without its tables and queries.      *)
(*                                                                         *)
(* A session is new until its creation has settled, then it is live, then  *)
(* gone, and never comes back.  A request gets hold of a session only      *)
(* while it is live, and a session ends only by a request that had got     *)
(* hold of that very session; a restart ends none, it only makes requests  *)
(* let go and half-made sessions come to nothing.                          *)
(***************************************************************************)
CONSTANTS Req, Token, NoToken

VARIABLES
    life,   \* of each session: "new", "live" or "gone"
    seen    \* the session each request has got hold of, or NoToken

vars == <<life, seen>>

Init ==
    /\ life = [t \in Token |-> "new"]
    /\ seen = [r \in Req |-> NoToken]

(* A creation succeeds or fails. *)
Settle(t) ==
    /\ life[t] = "new"
    /\ \E l \in {"live", "gone"} : life' = [life EXCEPT ![t] = l]
    /\ UNCHANGED seen

(* A request that presents the token of a live session gets hold of it. *)
See(r, t) ==
    /\ life[t] = "live"
    /\ seen[r] = NoToken
    /\ seen' = [seen EXCEPT ![r] = t]
    /\ UNCHANGED life

(* The request is over, and it may have ended its session. *)
Release(r) ==
    /\ seen[r] # NoToken
    /\ seen' = [seen EXCEPT ![r] = NoToken]
    /\ life' \in {life, [life EXCEPT ![seen[r]] = "gone"]}

Restart ==
    /\ seen' = [r \in Req |-> NoToken]
    /\ \E lost \in SUBSET {t \in Token : life[t] = "new"} :
           life' = [t \in Token |-> IF t \in lost THEN "gone" ELSE life[t]]

Next ==
    \/ \E t \in Token : Settle(t)
    \/ \E r \in Req : Release(r) \/ \E t \in Token : See(r, t)
    \/ Restart

Spec == Init /\ [][Next]_vars
=============================================================================
