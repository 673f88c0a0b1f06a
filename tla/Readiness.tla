------------------------------ MODULE Readiness ------------------------------
(***************************************************************************)
(* The health of the containers: what GET /readyz of a service answers     *)
(* while its dependencies come and go, and what Docker makes of it.        *)
(*                                                                         *)
(* Docker probes each container again and again: it asks /readyz, takes a  *)
(* status of 2xx for a pass, anything else and an answer that takes too    *)
(* long for a failure, and calls a container unhealthy after a number of   *)
(* failures in a row.  The API sends one command to each of its three      *)
(* dependencies at once and catches what they throw; the worker and the    *)
(* runner manager ask Redis and answer 503 when that throws.               *)
(*                                                                         *)
(* A dependency is up, answers with errors, or is silent.  A refused       *)
(* connection is an error to the database client and to the S3 client; to  *)
(* the Redis client it is silence, since it reconnects and keeps commands  *)
(* queued without limit (maxRetriesPerRequest: null).                      *)
(***************************************************************************)
EXTENDS Naturals

CONSTANTS
    Service,        \* the services under observation
    Retries         \* retries of the health check

ASSUME ServiceAssumption == Service \subseteq {"api", "worker", "runner-manager"}
ASSUME RetriesAssumption == Retries \in Nat \ {0}

Dep == {"database", "redis", "storage"}
Modes == {"up", "erring", "silent"}
Command == {"select", "ping", "counts", "list"}

Target(c) ==
    CASE c = "select" -> "database"
      [] c = "list" -> "storage"
      [] c \in {"ping", "counts"} -> "redis"

VARIABLES
    mode,       \* how each dependency does
    stage,      \* how far the process of each service is
    asked,      \* services with a probe under way
    waits,      \* commands of the probe that are not answered
    downs,      \* commands of the probe that threw
    fails,      \* failed probes in a row, up to Retries
    health,     \* what Docker says of each container
    last,       \* how the last probe ended, "none" while one is under way
    heard,      \* history: services whose probe saw Redis not silent
    reached     \* history: services whose process has reached the database

probeVars == <<asked, waits, downs>>
verdictVars == <<fails, health, last>>
vars == <<mode, stage, probeVars, verdictVars, heard, reached>>

Needs(s) == IF s = "api" THEN Dep ELSE {"redis"}

TypeOK ==
    /\ mode \in [Dep -> Modes]
    /\ stage \in [Service -> {"starting", "connected", "listening"}]
    /\ asked \subseteq Service
    /\ waits \in [Service -> SUBSET Command]
    /\ downs \in [Service -> SUBSET Command]
    /\ fails \in [Service -> 0 .. Retries]
    /\ health \in [Service -> {"starting", "healthy", "unhealthy"}]
    /\ last \in [Service -> {"none", "pass", "fail"}]
    /\ heard \subseteq Service
    /\ reached \subseteq Service
    /\ \A s \in Service : s \in asked => stage[s] = "listening"
    /\ \A s \in Service : s \notin asked => waits[s] = {} /\ downs[s] = {}
    /\ \A s \in Service : \A c \in waits[s] \cup downs[s] : Target(c) \in Needs(s)

Init ==
    /\ mode \in [Dep -> Modes]
    /\ stage = [s \in Service |-> "starting"]
    /\ asked = {}
    /\ waits = [s \in Service |-> {}]
    /\ downs = [s \in Service |-> {}]
    /\ fails = [s \in Service |-> 0]
    /\ health = [s \in Service |-> "starting"]
    /\ last = [s \in Service |-> "none"]
    /\ heard = {}
    /\ reached = {}

(* A dependency changes; a probe under way notices that Redis is not silent. *)
Change(d, m) ==
    /\ mode' = [mode EXCEPT ![d] = m]
    /\ heard' = IF mode'["redis"] # "silent" THEN heard \cup asked ELSE heard
    /\ UNCHANGED <<stage, probeVars, verdictVars, reached>>

-----------------------------------------------------------------------------
(* Start and death of a process *)

(* MUTANT: the database client connects with its first query. *)
ConnectLazily(s) ==
    /\ s = "api" /\ stage[s] = "starting"
    /\ stage' = [stage EXCEPT ![s] = "connected"]
    /\ UNCHANGED <<mode, probeVars, verdictVars, heard, reached>>

(* The API connects to the database before it listens; when that fails the
   process exits and is started again, which changes nothing here.          *)
Connect(s) ==
    /\ s = "api" /\ stage[s] = "starting"
    /\ mode["database"] = "up"
    /\ stage' = [stage EXCEPT ![s] = "connected"]
    /\ reached' = reached \cup {s}
    /\ UNCHANGED <<mode, probeVars, verdictVars, heard>>

(* HeadBucket has ended, its failure only logged. *)
BucketAnswers == mode["storage"] # "silent"

(* The API listens once it heard about its bucket, the others whatever Redis does. *)
Listen(s) ==
    /\ IF s = "api" THEN stage[s] = "connected" /\ BucketAnswers ELSE stage[s] = "starting"
    /\ stage' = [stage EXCEPT ![s] = "listening"]
    /\ UNCHANGED <<mode, probeVars, verdictVars, heard, reached>>

(* The process dies and the container starts again. *)
Restart(s) ==
    /\ stage[s] # "starting"
    /\ stage' = [stage EXCEPT ![s] = "starting"]
    /\ asked' = asked \ {s}
    /\ waits' = [waits EXCEPT ![s] = {}]
    /\ downs' = [downs EXCEPT ![s] = {}]
    /\ fails' = [fails EXCEPT ![s] = 0]
    /\ health' = [health EXCEPT ![s] = "starting"]
    /\ last' = [last EXCEPT ![s] = "none"]
    /\ heard' = heard \ {s}
    /\ reached' = reached \ {s}
    /\ UNCHANGED mode

-----------------------------------------------------------------------------
(* What a probe sets off *)

(* The commands a service sends at once, and those it sends after a reply. *)
AtOnce(s) == IF s = "api" THEN {"select", "ping", "list"} ELSE {"ping"}
After(s, c) == IF s = "worker" /\ c = "ping" THEN {"counts"} ELSE {}

(* MUTANT: what an earlier probe found is kept. *)
AskKeeping(s) ==
    /\ stage[s] = "listening" /\ s \notin asked
    /\ asked' = asked \cup {s}
    /\ waits' = [waits EXCEPT ![s] = AtOnce(s)]
    /\ downs' = [downs EXCEPT ![s] = IF last[s] = "fail" THEN {"ping"} ELSE {}]
    /\ last' = [last EXCEPT ![s] = "none"]
    /\ heard' = IF mode["redis"] # "silent" THEN heard \cup {s} ELSE heard \ {s}
    /\ UNCHANGED <<mode, stage, fails, health, reached>>

(* Docker asks for /readyz, one probe of a container at a time. *)
Ask(s) ==
    /\ stage[s] = "listening" /\ s \notin asked
    /\ asked' = asked \cup {s}
    /\ waits' = [waits EXCEPT ![s] = AtOnce(s)]
    /\ last' = [last EXCEPT ![s] = "none"]
    /\ heard' = IF mode["redis"] # "silent" THEN heard \cup {s} ELSE heard \ {s}
    /\ UNCHANGED <<mode, stage, downs, fails, health, reached>>

Reply(s, c) ==
    /\ c \in waits[s]
    /\ mode[Target(c)] = "up"
    /\ waits' = [waits EXCEPT ![s] = (@ \ {c}) \cup After(s, c)]
    /\ reached' = IF c = "select" THEN reached \cup {s} ELSE reached
    /\ UNCHANGED <<mode, stage, asked, downs, verdictVars, heard>>

(* MUTANT: the Redis client gives a command up after some retries. *)
ThrowsSoon(c) == mode[Target(c)] = "erring" \/ (c = "ping" /\ mode["redis"] = "silent")

Throws(c) == mode[Target(c)] = "erring"

(* A check of the API catches what a command throws and the others go on; a
   readiness callback of the health server ends there.                      *)
Fail(s, c) ==
    /\ c \in waits[s]
    /\ Throws(c)
    /\ waits' = [waits EXCEPT ![s] = IF s = "api" THEN @ \ {c} ELSE {}]
    /\ downs' = [downs EXCEPT ![s] = @ \cup {c}]
    /\ UNCHANGED <<mode, stage, asked, verdictVars, heard, reached>>

-----------------------------------------------------------------------------
(* What Docker makes of it *)

(* The probe is over; start_period, which only delays the first "unhealthy", is
   left out.                                                                *)
Verdict(s, passed) ==
    LET n == IF passed THEN 0 ELSE IF fails[s] = Retries THEN Retries ELSE fails[s] + 1
    IN  /\ asked' = asked \ {s}
        /\ waits' = [waits EXCEPT ![s] = {}]
        /\ downs' = [downs EXCEPT ![s] = {}]
        /\ last' = [last EXCEPT ![s] = IF passed THEN "pass" ELSE "fail"]
        /\ fails' = [fails EXCEPT ![s] = n]
        /\ health' = [health EXCEPT ![s] = IF passed THEN "healthy"
                                           ELSE IF n = Retries THEN "unhealthy" ELSE @]
        /\ UNCHANGED <<mode, stage, heard, reached>>

(* MUTANT: the health server answers 200 with the error in the body. *)
AlwaysOk(s) == TRUE

(* The API answers 200 whether its status is "ok" or "degraded". *)
AnswersOk(s) == s = "api" \/ downs[s] = {}

Respond(s) ==
    /\ s \in asked
    /\ waits[s] = {}
    /\ Verdict(s, AnswersOk(s))

(* Five seconds have passed.  A dependency that is up answers before; an answer
   that comes later finds the probe gone.                                   *)
TimeOut(s) ==
    /\ \E c \in waits[s] : mode[Target(c)] # "up"
    /\ Verdict(s, FALSE)

(* Nobody listens yet: the connection is refused. *)
Refused(s) ==
    /\ stage[s] # "listening"
    /\ Verdict(s, FALSE)

-----------------------------------------------------------------------------

Next ==
    \/ \E d \in Dep, m \in Modes : Change(d, m)
    \/ \E s \in Service : \/ Connect(s) \/ Listen(s) \/ Restart(s)
                          \/ Ask(s) \/ Respond(s) \/ TimeOut(s) \/ Refused(s)
                          \/ \E c \in Command : Reply(s, c) \/ Fail(s, c)

Spec == Init /\ [][Next]_vars

(* Docker keeps probing, a service starts when it can and serves what settled,
   and a dependency that stays up answers.  Time passes too, so a probe that is
   stuck again and again is cut off in the end: the strong fairness.        *)
Fairness ==
    \A s \in Service :
        /\ WF_vars(Connect(s)) /\ WF_vars(Listen(s))
        /\ WF_vars(Ask(s)) /\ WF_vars(Respond(s)) /\ SF_vars(TimeOut(s))
        /\ \A c \in Command : WF_vars(Reply(s, c))

FairSpec == Spec /\ Fairness

-----------------------------------------------------------------------------
(* Properties *)

(* No service passes a probe during all of which Redis was silent, although none
   of them has a timeout of its own: commands wait, and Docker gives up first. *)
SilentRedisFailsProbes == \A s \in Service : last[s] = "pass" => s \in heard

(* The API is healthy only if its process has reached the database once, though
   /readyz itself answers 200 without one.                                  *)
HealthyHasConnected == \A s \in Service : s = "api" /\ health[s] = "healthy" => s \in reached

(* What keeps a probe from passing: silence, and for all but the API an error. *)
Troubled(s, d) == IF s = "api" THEN mode[d] = "silent" ELSE mode[d] # "up"

(* A container does not stay healthy when something it needs is in trouble for
   good, whatever else comes and goes meanwhile.                            *)
TroubleTakesDown ==
    \A s \in Service : \A d \in Needs(s) :
        <>[]Troubled(s, d) => <>[](health[s] # "healthy")

(* A service that keeps running becomes healthy once all it needs stays up: no
   probe that hung or failed before is held against it.                     *)
Recovers ==
    \A s \in Service :
        <>[](stage[s] = "listening" /\ \A d \in Needs(s) : mode[d] = "up")
            => <>[](health[s] = "healthy")

(* "Readiness: dependencies are reachable. Used by Compose/Coolify health
   checks.": a probe of the API that passes found all of them up at some time. *)
PassMeansReachable ==
    [][\A s \in asked : last'[s] = "pass" => downs[s] = {}]_vars
=============================================================================
