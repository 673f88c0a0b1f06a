--------------------------- MODULE ReadinessProofs ---------------------------
(***************************************************************************)
(* Proofs about the health of the containers, for any of the services and  *)
(* any number of retries.                                                  *)
(***************************************************************************)
EXTENDS Readiness, TLAPS

USE DEF probeVars, verdictVars

(* The commands of a service go to what it needs. *)
LEMMA CommandTargets ==
    /\ \A c \in Command : Target(c) \in Dep
    /\ \A s \in Service : /\ AtOnce(s) \subseteq Command /\ "ping" \in AtOnce(s)
                          /\ \A c \in AtOnce(s) : Target(c) \in Needs(s)
    /\ \A s \in Service, c \in Command : /\ After(s, c) \subseteq Command
                                         /\ \A d \in After(s, c) : Target(d) \in Needs(s)
    /\ Target("ping") = "redis"
  BY DEF Command, Target, Dep, AtOnce, After, Needs

LEMMA VerdictType ==
    ASSUME TypeOK, NEW s \in Service, NEW passed \in BOOLEAN, Verdict(s, passed)
    PROVE  TypeOK'
<1> USE DEF TypeOK
<1>1. fails' \in [Service -> 0 .. Retries]
  BY RetriesAssumption DEF Verdict
<1>2. /\ health' \in [Service -> {"starting", "healthy", "unhealthy"}]
      /\ last' \in [Service -> {"none", "pass", "fail"}]
      /\ mode' = mode /\ stage' = stage /\ heard' = heard /\ reached' = reached
  BY DEF Verdict
<1>3. /\ asked' = asked \ {s}
      /\ waits' = [waits EXCEPT ![s] = {}]
      /\ downs' = [downs EXCEPT ![s] = {}]
  BY DEF Verdict
<1> QED
  BY <1>1, <1>2, <1>3

LEMMA TypeInductive == TypeOK /\ [Next]_vars => TypeOK'
<1> SUFFICES ASSUME TypeOK, [Next]_vars
             PROVE  TypeOK'
  OBVIOUS
<1> USE DEF TypeOK
<1>1. CASE UNCHANGED vars
  BY <1>1 DEF vars
<1>2. ASSUME NEW d \in Dep, NEW m \in Modes, Change(d, m)
      PROVE  TypeOK'
  BY <1>2 DEF Change
<1>3. ASSUME NEW s \in Service, Connect(s) \/ Listen(s)
      PROVE  TypeOK'
  BY <1>3 DEF Connect, Listen
<1>4. ASSUME NEW s \in Service, Restart(s)
      PROVE  TypeOK'
  BY <1>4, RetriesAssumption DEF Restart
<1>5. ASSUME NEW s \in Service, Ask(s)
      PROVE  TypeOK'
  BY <1>5, CommandTargets DEF Ask
<1>6. ASSUME NEW s \in Service, Respond(s)
      PROVE  TypeOK'
  BY <1>6, VerdictType DEF Respond, AnswersOk
<1>7. ASSUME NEW s \in Service, TimeOut(s) \/ Refused(s)
      PROVE  TypeOK'
  BY <1>7, VerdictType DEF TimeOut, Refused
<1>8. ASSUME NEW s \in Service, NEW c \in Command, Reply(s, c)
      PROVE  TypeOK'
  BY <1>8, CommandTargets DEF Reply
<1>9. ASSUME NEW s \in Service, NEW c \in Command, Fail(s, c)
      PROVE  TypeOK'
  BY <1>9 DEF Fail
<1> QED
  BY <1>1, <1>2, <1>3, <1>4, <1>5, <1>6, <1>7, <1>8, <1>9 DEF Next

(* Type correctness, with what a probe under way may wait for. *)
THEOREM TypeCorrect == Spec => []TypeOK
<1>1. Init => TypeOK
  BY RetriesAssumption DEF Init, TypeOK
<1> QED
  BY <1>1, TypeInductive, PTL DEF Spec

-----------------------------------------------------------------------------

(* The API gets past its start only by reaching the database. *)
StartedConnected == \A s \in Service : s = "api" /\ stage[s] # "starting" => s \in reached

ConnectInv == HealthyHasConnected /\ StartedConnected

LEMMA ConnectInductive == TypeOK /\ ConnectInv /\ [Next]_vars => ConnectInv'
<1> SUFFICES ASSUME TypeOK, ConnectInv, [Next]_vars,
                    NEW q \in Service, q = "api"
             PROVE  /\ health'[q] = "healthy" => q \in reached'
                    /\ stage'[q] # "starting" => q \in reached'
  BY DEF ConnectInv, HealthyHasConnected, StartedConnected
<1>0. (health[q] = "healthy" \/ stage[q] # "starting") => q \in reached
  BY DEF ConnectInv, HealthyHasConnected, StartedConnected
<1> USE DEF TypeOK
<1>1. CASE UNCHANGED vars
  BY <1>0, <1>1 DEF vars
<1>2. CASE \E d \in Dep, m \in Modes : Change(d, m)
  BY <1>0, <1>2 DEF Change
<1>3. CASE \E s \in Service : Connect(s) \/ Listen(s)
  BY <1>0, <1>3 DEF Connect, Listen
<1>4. CASE \E s \in Service : Restart(s)
  BY <1>0, <1>4 DEF Restart
<1>5. CASE \E s \in Service : Ask(s)
  BY <1>0, <1>5 DEF Ask
<1>6. ASSUME NEW s \in Service, Respond(s)
      PROVE  q \in reached' \/ (health'[q] # "healthy" /\ stage'[q] = "starting")
  <2>1. UNCHANGED <<stage, reached>> /\ (s # q => health'[q] = health[q])
    BY <1>6 DEF Respond, Verdict
  <2>2. CASE s = q
    BY <1>0, <1>6, <2>1, <2>2 DEF Respond
  <2>3. CASE s # q
    BY <1>0, <2>1, <2>3
  <2> QED
    BY <2>2, <2>3
<1>7. CASE \E s \in Service : TimeOut(s) \/ Refused(s)
  <2> PICK s \in Service : Verdict(s, FALSE)
    BY <1>7 DEF TimeOut, Refused
  <2>1. /\ UNCHANGED <<stage, reached>>
        /\ health'[q] = health[q] \/ health'[q] = "unhealthy"
    BY DEF Verdict
  <2> QED
    BY <1>0, <2>1
<1>8. CASE \E s \in Service, c \in Command : Reply(s, c) \/ Fail(s, c)
  BY <1>0, <1>8 DEF Reply, Fail
<1> QED
  BY <1>1, <1>2, <1>3, <1>4, <1>5, <1>6, <1>7, <1>8 DEF Next

(* A healthy API has reached the database since its process started. *)
THEOREM HealthyConnected == Spec => []HealthyHasConnected
<1>1. Init => ConnectInv
  BY DEF Init, ConnectInv, HealthyHasConnected, StartedConnected
<1>2. ConnectInv => HealthyHasConnected
  BY DEF ConnectInv
<1> QED
  BY <1>1, <1>2, TypeCorrect, ConnectInductive, PTL DEF Spec

-----------------------------------------------------------------------------

(* While Redis has been silent since the probe began, its PING is unanswered. *)
PingOutstanding ==
    \A s \in asked \ heard : mode["redis"] = "silent" /\ "ping" \in waits[s]

NoVerdictYet == \A s \in asked : last[s] = "none"

SilenceInv == SilentRedisFailsProbes /\ PingOutstanding /\ NoVerdictYet

LEMMA PingInductive ==
    TypeOK /\ PingOutstanding /\ [Next]_vars => PingOutstanding'
<1> SUFFICES ASSUME TypeOK, PingOutstanding, [Next]_vars,
                    NEW q \in asked', q \notin heard'
             PROVE  mode'["redis"] = "silent" /\ "ping" \in waits'[q]
  BY DEF PingOutstanding
<1>0. q \in asked /\ q \notin heard => mode["redis"] = "silent" /\ "ping" \in waits[q]
  BY DEF PingOutstanding
<1> USE DEF TypeOK
<1>1. CASE UNCHANGED vars
  BY <1>0, <1>1 DEF vars
<1>2. CASE \E d \in Dep, m \in Modes : Change(d, m)
  BY <1>0, <1>2 DEF Change
<1>3. CASE \E s \in Service : Connect(s) \/ Listen(s)
  BY <1>0, <1>3 DEF Connect, Listen
<1>4. CASE \E s \in Service : Restart(s)
  BY <1>0, <1>4 DEF Restart
<1>5. CASE \E s \in Service : Ask(s)
  BY <1>0, <1>5, CommandTargets DEF Ask
<1>6. CASE \E s \in Service : Respond(s) \/ TimeOut(s) \/ Refused(s)
  <2> PICK s \in Service, passed \in BOOLEAN : Verdict(s, passed)
    BY <1>6 DEF Respond, TimeOut, Refused, AnswersOk
  <2> QED
    BY <1>0 DEF Verdict
<1>7. ASSUME NEW s \in Service, NEW c \in Command, Reply(s, c)
      PROVE  mode'["redis"] = "silent" /\ "ping" \in waits'[q]
  <2>1. mode["redis"] = "silent" /\ "ping" \in waits[q] /\ UNCHANGED mode
    BY <1>0, <1>7 DEF Reply
  <2>2. c # "ping"
    BY <1>7, <2>1, CommandTargets DEF Reply
  <2> QED
    BY <1>7, <2>1, <2>2 DEF Reply
<1>8. ASSUME NEW s \in Service, NEW c \in Command, Fail(s, c)
      PROVE  mode'["redis"] = "silent" /\ "ping" \in waits'[q]
  <2>1. mode["redis"] = "silent" /\ "ping" \in waits[q] /\ UNCHANGED mode
    BY <1>0, <1>8 DEF Fail
  <2>2. Target(c) # "redis"
    BY <1>8, <2>1 DEF Fail, Throws
  <2>3. s = "api" /\ c # "ping"
    BY <1>8, <2>2, CommandTargets DEF Fail, Needs
  <2> QED
    BY <1>8, <2>1, <2>3 DEF Fail
<1> QED
  BY <1>1, <1>2, <1>3, <1>4, <1>5, <1>6, <1>7, <1>8 DEF Next

LEMMA SilenceInductive == TypeOK /\ SilenceInv /\ [Next]_vars => SilenceInv'
<1> SUFFICES ASSUME TypeOK, SilenceInv, [Next]_vars
             PROVE  SilentRedisFailsProbes' /\ NoVerdictYet'
  BY PingInductive DEF SilenceInv
<1> USE DEF TypeOK, SilenceInv, SilentRedisFailsProbes, NoVerdictYet
<1>1. CASE UNCHANGED vars
  BY <1>1 DEF vars
<1>2. CASE \E d \in Dep, m \in Modes : Change(d, m)
  BY <1>2 DEF Change
<1>3. CASE \E s \in Service : Connect(s) \/ Listen(s)
  BY <1>3 DEF Connect, Listen
<1>4. CASE \E s \in Service : Restart(s)
  BY <1>4 DEF Restart
<1>5. CASE \E s \in Service : Ask(s)
  BY <1>5 DEF Ask
<1>6. ASSUME NEW s \in Service, Respond(s)
      PROVE  SilentRedisFailsProbes' /\ NoVerdictYet'
  <2>1. s \in heard
    BY <1>6 DEF PingOutstanding, Respond
  <2> QED
    BY <1>6, <2>1 DEF Respond, Verdict
<1>7. CASE \E s \in Service : TimeOut(s) \/ Refused(s)
  BY <1>7 DEF TimeOut, Refused, Verdict
<1>8. CASE \E s \in Service, c \in Command : Reply(s, c) \/ Fail(s, c)
  BY <1>8 DEF Reply, Fail
<1> QED
  BY <1>1, <1>2, <1>3, <1>4, <1>5, <1>6, <1>7, <1>8 DEF Next

(* A probe that meets a silent Redis from its beginning to its end fails. *)
THEOREM SilenceFails == Spec => []SilentRedisFailsProbes
<1>1. Init => SilenceInv
  BY DEF Init, SilenceInv, SilentRedisFailsProbes, PingOutstanding, NoVerdictYet
<1>2. SilenceInv => SilentRedisFailsProbes
  BY DEF SilenceInv
<1> QED
  BY <1>1, <1>2, TypeCorrect, SilenceInductive, PTL DEF Spec
=============================================================================
