---------------------------- MODULE ProcessesProofs ----------------------------
(***************************************************************************)
(* The order of the start, the care of the shutdown and the causes of an   *)
(* error, for any set of services and environments and any number of       *)
(* failures.                                                               *)
(***************************************************************************)
EXTENDS Processes, TLAPS

USE DEF Stages

(* No shutdown has more than three steps. *)
LEMMA StepsLength == \A s \in Service : Len(Steps(s)) \in 0 .. 3
  BY ProcessesAssumption DEF Steps, WorkerSteps, RunnerManagerSteps, ApiSteps

(* A container was only created after migrate completed once, and the database does
   not go back.  A call of the worker's shutdown that is past closing has seen the
   job end, and nothing is taken while a call is under way.                 *)
SchemaInv ==
    /\ migrate = "done" => schema = "seeded"
    /\ SchemaFirst

ClosedInv == job = "active" => 2 \notin runs["worker"] /\ 3 \notin runs["worker"]

IInv == TypeOK /\ SchemaInv /\ ClosedInv

-----------------------------------------------------------------------------
(* Exit *)

(* What every way out of a process keeps. *)
LEMMA ExitKeeps ==
    ASSUME IInv, NEW s \in Service, NEW how \in {"clean", "error"}, Exit(s, how),
           stage[s] # "created",
           UNCHANGED <<env, deployed, stopped, migrate, schema>>,
           pg' \in BOOLEAN, redis' \in BOOLEAN, storage' \in BOOLEAN,
           faults' \in 0 .. MaxFaults
    PROVE  IInv'
<1>1. /\ stage' \in [Service -> Stages]
      /\ code' \in [Service -> {"none", "clean", "error"}]
      /\ runs' \in [Service -> SUBSET (1 .. 3)]
      /\ stage'[s] = "exited" /\ runs'[s] = {}
      /\ \A t \in Service \ {s} : stage'[t] = stage[t] /\ runs'[t] = runs[t]
  BY DEF Exit, IInv, TypeOK
<1>2. /\ job' \in {"none", "active", "stalled"}
      /\ job' = "active" => job = "active" /\ s # "worker"
      /\ request' \in BOOLEAN /\ (request' => request /\ s # "api")
  BY DEF Exit, IInv, TypeOK
<1>3. TypeOK'
  <2>1. \A t \in Service : runs'[t] # {} => Handling(t)'
    BY <1>1 DEF IInv, TypeOK, Handling
  <2>2. /\ job' = "active" => stage'["worker"] = "running"
        /\ request' => stage'["api"] = "running"
    BY <1>1, <1>2, ProcessesAssumption DEF IInv, TypeOK
  <2> QED
    BY <1>1, <1>2, <2>1, <2>2 DEF IInv, TypeOK
<1>4. SchemaInv'
  BY <1>1 DEF IInv, SchemaInv, SchemaFirst, NeedsSchema
<1>5. ClosedInv'
  BY <1>1, <1>2, ProcessesAssumption DEF IInv, ClosedInv
<1> QED
  BY <1>3, <1>4, <1>5 DEF IInv

(* A container that is started, for the first time after migrate completed. *)
LEMMA StartedKeeps ==
    ASSUME IInv, NEW s \in Service, Started(s), stage[s] \in {"created", "exited"},
           stage[s] = "created" /\ s \in NeedsSchema => migrate = "done"
    PROVE  IInv'
<1>1. /\ stage' \in [Service -> Stages]
      /\ stage'[s] = "loading"
      /\ \A t \in Service \ {s} : stage'[t] = stage[t]
  BY DEF Started, IInv, TypeOK
<1>2. runs[s] = {} /\ (job = "active" => s # "worker") /\ (request => s # "api")
  BY DEF IInv, TypeOK, Handling
<1>3. TypeOK'
  BY <1>1, <1>2, ProcessesAssumption DEF Started, infra, IInv, TypeOK, Handling
<1>4. SchemaInv'
  BY <1>1 DEF Started, infra, IInv, SchemaInv, SchemaFirst, NeedsSchema
<1>5. ClosedInv'
  BY DEF Started, IInv, ClosedInv
<1> QED
  BY <1>3, <1>4, <1>5 DEF IInv

-----------------------------------------------------------------------------
(* The steps of one service *)

LEMMA LoadKeeps == ASSUME IInv, NEW s \in Service, Load(s) PROVE IInv'
<1>1. CASE Offenders(s, env) # {}
  BY <1>1, ExitKeeps DEF Load, Refuse, Serve, infra, IInv, TypeOK
<1>2. CASE Offenders(s, env) = {}
  <2>1. /\ stage' \in [Service -> Stages]
        /\ stage[s] = "loading" /\ stage'[s] \in {"connecting", "running"}
        /\ \A t \in Service \ {s} : stage'[t] = stage[t]
    BY <1>2 DEF Load, Refuse, Serve, IInv, TypeOK
  <2>2. UNCHANGED <<env, deployed, pg, redis, storage, migrate, schema, code, runs, job,
                    request, stopped, faults>>
    BY <1>2 DEF Load, Refuse, Serve, infra
  <2>3. TypeOK'
    BY <2>1, <2>2, ProcessesAssumption DEF IInv, TypeOK, Handling
  <2> QED
    BY <2>1, <2>2, <2>3 DEF IInv, SchemaInv, SchemaFirst, NeedsSchema, ClosedInv
<1> QED
  BY <1>1, <1>2

(* A start that gets on, up to a process that serves. *)
LEMMA StartKeeps ==
    ASSUME IInv, NEW s \in Service, NEW to \in {"connected", "running"},
           stage[s] \in {"connecting", "connected"}, stage' = [stage EXCEPT ![s] = to],
           UNCHANGED <<env, deployed, infra, code, runs, job, request, stopped, faults>>
    PROVE  IInv'
<1>1. /\ stage' \in [Service -> Stages]
      /\ stage'[s] = to
      /\ \A t \in Service \ {s} : stage'[t] = stage[t]
  BY DEF IInv, TypeOK
<1>2. TypeOK'
  BY <1>1, ProcessesAssumption DEF infra, IInv, TypeOK, Handling
<1> QED
  BY <1>1, <1>2 DEF infra, IInv, SchemaInv, SchemaFirst, NeedsSchema, ClosedInv

LEMMA ConnectKeeps == ASSUME IInv, NEW s \in Service, Connect(s) PROVE IInv'
<1>1. CASE ~DatabaseReached
  BY <1>1, ExitKeeps DEF Connect, infra, IInv, TypeOK
<1>2. CASE DatabaseReached
  BY <1>2, StartKeeps DEF Connect
<1> QED
  BY <1>1, <1>2

LEMMA ListenKeeps == ASSUME IInv, NEW s \in Service, Listen(s) PROVE IInv'
  BY StartKeeps DEF Listen

LEMMA AdvanceKeeps == ASSUME IInv, NEW s \in Service, NEW i \in 1 .. 3, Advance(s, i)
                     PROVE  IInv'
<1>1. stage[s] = "running" /\ i \in runs[s] /\ StepDone(s, i) /\ Past(s, i)
  BY DEF Advance, StepDone
<1>2. UNCHANGED <<env, deployed, pg, redis, storage, migrate, schema, stopped, faults>>
  BY DEF Advance, infra
<1>3. CASE Exit(s, "clean")
  BY <1>1, <1>2, <1>3, ExitKeeps DEF IInv, TypeOK
<1>4. CASE /\ i < Len(Steps(s))
           /\ runs' = [runs EXCEPT ![s] = (@ \ {i}) \cup {i + 1}]
           /\ UNCHANGED <<stage, code, job, request>>
  <2>1. i + 1 \in 1 .. 3
    <3>1. \A n \in 0 .. 3 : i < n => i + 1 \in 1 .. 3
      OBVIOUS
    <3>2. Len(Steps(s)) \in 0 .. 3 /\ i < Len(Steps(s))
      BY <1>4, StepsLength
    <3> QED
      BY <3>1, <3>2
  <2>2. /\ runs' \in [Service -> SUBSET (1 .. 3)]
        /\ runs'[s] = (runs[s] \ {i}) \cup {i + 1}
        /\ \A t \in Service \ {s} : runs'[t] = runs[t]
    BY <1>4, <2>1 DEF IInv, TypeOK
  <2>3. TypeOK'
    BY <1>1, <1>2, <1>4, <2>2 DEF IInv, TypeOK, Handling
  <2>4. ASSUME s = "worker", job = "active" PROVE FALSE
    <3>1. i # 2 /\ i # 3
      BY <1>1, <2>4 DEF IInv, ClosedInv
    <3>2. Steps(s)[1] = "workers.close"
      BY <2>4 DEF Steps, WorkerSteps
    <3> QED
      BY <1>1, <2>4, <3>1, <3>2 DEF StepDone
  <2>5. ClosedInv'
    BY <1>4, <2>2, <2>4, ProcessesAssumption DEF IInv, ClosedInv
  <2> QED
    BY <1>2, <1>4, <2>3, <2>5 DEF IInv, SchemaInv, SchemaFirst
<1> QED
  BY <1>1, <1>3, <1>4 DEF Past

LEMMA SignalKeeps ==
    ASSUME IInv, NEW s \in Service, NEW byDocker \in BOOLEAN, Signal(s, byDocker) PROVE IInv'
<1>1. /\ stopped' \subseteq Service /\ stage[s] # "created"
      /\ UNCHANGED <<env, deployed, pg, redis, storage, migrate, schema, faults>>
  BY DEF Signal, Alive, infra, IInv, TypeOK
<1>2. CASE UNCHANGED <<stage, code, runs, job, request>>
  BY <1>1, <1>2 DEF IInv, TypeOK, Handling, SchemaInv, SchemaFirst, ClosedInv
<1>3. CASE Exit(s, "clean")
  <2>1. /\ stage' \in [Service -> Stages]
        /\ code' \in [Service -> {"none", "clean", "error"}]
        /\ runs' \in [Service -> SUBSET (1 .. 3)]
        /\ stage'[s] = "exited" /\ runs'[s] = {}
        /\ \A t \in Service \ {s} : stage'[t] = stage[t] /\ runs'[t] = runs[t]
        /\ job' \in {"none", "active", "stalled"}
        /\ job' = "active" => job = "active" /\ s # "worker"
        /\ request' \in BOOLEAN /\ (request' => request /\ s # "api")
    BY <1>3 DEF Exit, IInv, TypeOK
  <2>2. TypeOK'
    BY <1>1, <2>1, ProcessesAssumption DEF IInv, TypeOK, Handling
  <2> QED
    BY <1>1, <2>1, <2>2, ProcessesAssumption
    DEF IInv, SchemaInv, SchemaFirst, NeedsSchema, ClosedInv
<1>4. CASE /\ Handling(s)
           /\ runs' = [runs EXCEPT ![s] = @ \cup {1}]
           /\ UNCHANGED <<stage, code, job, request>>
  <2>1. /\ runs' \in [Service -> SUBSET (1 .. 3)]
        /\ runs'[s] = runs[s] \cup {1}
        /\ \A t \in Service \ {s} : runs'[t] = runs[t]
    BY <1>4 DEF IInv, TypeOK
  <2>2. TypeOK'
    BY <1>1, <1>4, <2>1 DEF IInv, TypeOK, Handling
  <2>3. ClosedInv'
    BY <1>4, <2>1, ProcessesAssumption DEF IInv, ClosedInv
  <2> QED
    BY <1>1, <1>4, <2>2, <2>3 DEF IInv, SchemaInv, SchemaFirst
<1> QED
  BY <1>2, <1>3, <1>4 DEF Signal, SignalLost, ExitAtOnce, EnterShutdown

LEMMA ServiceStepKeeps == ASSUME IInv, NEW s \in Service, ServiceStep(s) PROVE IInv'
<1>1. CASE ComposeStart(s)
  BY <1>1, StartedKeeps DEF ComposeStart, DependenciesMet
<1>2. CASE Restart(s)
  BY <1>2, StartedKeeps DEF Restart
<1>3. CASE Load(s) \/ Connect(s) \/ Listen(s)
  BY <1>3, LoadKeeps, ConnectKeeps, ListenKeeps
<1>4. CASE \E i \in 1 .. 3 : Advance(s, i)
  BY <1>4, AdvanceKeeps
<1>5. CASE \E byDocker \in BOOLEAN : Signal(s, byDocker)
  BY <1>5, SignalKeeps
<1>6. CASE Kill(s)
  BY <1>6, ExitKeeps DEF Kill, Alive, infra, IInv, TypeOK
<1>7. CASE Die(s)
  <2>1. faults' \in 0 .. MaxFaults
    BY <1>7, ProcessesAssumption DEF Die, Fault, IInv, TypeOK
  <2> QED
    BY <1>7, <2>1, ExitKeeps DEF Die, Alive, infra, IInv, TypeOK
<1> QED
  BY <1>1, <1>2, <1>3, <1>4, <1>5, <1>6, <1>7 DEF ServiceStep

-----------------------------------------------------------------------------
(* All steps *)

LEMMA InitIInv == Init => IInv
<1> SUFFICES ASSUME Init PROVE IInv
  OBVIOUS
<1>1. /\ stage \in [Service -> Stages]
      /\ code \in [Service -> {"none", "clean", "error"}]
      /\ runs \in [Service -> SUBSET (1 .. 3)]
      /\ \A s \in Service : stage[s] = "created" /\ runs[s] = {}
  BY DEF Init
<1>2. deployed \subseteq Service /\ stopped \subseteq Service /\ faults \in 0 .. MaxFaults
  BY ProcessesAssumption DEF Init
<1>3. TypeOK
  BY <1>1, <1>2 DEF Init, TypeOK
<1> QED
  BY <1>1, <1>3 DEF Init, IInv, SchemaInv, SchemaFirst, NeedsSchema, ClosedInv

LEMMA NextIInv == IInv /\ [Next]_vars => IInv'
<1> SUFFICES ASSUME IInv, [Next]_vars PROVE IInv'
  OBVIOUS
<1>1. CASE PgUp \/ RedisUp \/ StorageChanges
  <2>1. UNCHANGED <<deployed, migrate, schema, stage, code, stopped, runs, job, request, faults>>
    BY <1>1 DEF PgUp, RedisUp, StorageChanges, procs
  <2>2. pg' \in BOOLEAN /\ redis' \in BOOLEAN /\ storage' \in BOOLEAN
    BY <1>1, Zenon DEF PgUp, RedisUp, StorageChanges, IInv, TypeOK
  <2> QED
    BY <2>1, <2>2 DEF IInv, TypeOK, Handling, SchemaInv, SchemaFirst, ClosedInv
<1>2. CASE Migrate
  BY <1>2 DEF Migrate, procs, IInv, TypeOK, Handling, SchemaInv, SchemaFirst, ClosedInv
<1>3. CASE ComposeUp
  <2>1. /\ stage' \in [Service -> Stages]
        /\ \A t \in Service : stage'[t] = IF t \in stopped THEN "created" ELSE stage[t]
        /\ code' \in [Service -> {"none", "clean", "error"}]
        /\ stopped' = {} /\ migrate' = "waiting"
        /\ UNCHANGED <<env, deployed, pg, redis, storage, schema, runs, job, request, faults>>
    BY <1>3 DEF ComposeUp, IInv, TypeOK
  <2>2. \A t \in stopped : t \in Service /\ stage[t] \notin {"connecting", "connected", "running"}
    BY <1>3 DEF ComposeUp, Alive, IInv, TypeOK
  <2>3. \A t \in Service : runs'[t] # {} => Handling(t)'
    BY <2>1, <2>2 DEF IInv, TypeOK, Handling
  <2>4. /\ job' = "active" => stage'["worker"] = "running"
        /\ request' => stage'["api"] = "running"
    BY <2>1, <2>2, ProcessesAssumption DEF IInv, TypeOK
  <2>5. TypeOK'
    BY <2>1, <2>3, <2>4 DEF IInv, TypeOK
  <2> QED
    BY <2>1, <2>5 DEF IInv, SchemaInv, SchemaFirst, NeedsSchema, ClosedInv
<1>4. ASSUME NEW s \in deployed, ServiceStep(s) PROVE IInv'
  BY <1>4, ServiceStepKeeps DEF IInv, TypeOK
<1>5. CASE TakeJob
  BY <1>5 DEF TakeJob, infra, IInv, TypeOK, Handling, SchemaInv, SchemaFirst, ClosedInv
<1>6. CASE FinishJob
  BY <1>6 DEF FinishJob, infra, IInv, TypeOK, Handling, SchemaInv, SchemaFirst, ClosedInv
<1>10. CASE Ask \/ Answer
  BY <1>10 DEF Ask, Answer, infra, IInv, TypeOK, Handling, SchemaInv, SchemaFirst, ClosedInv
<1>7. CASE LoseDependency
  <2>1. /\ pg' \in BOOLEAN /\ redis' \in BOOLEAN
        /\ UNCHANGED <<env, deployed, storage, migrate, schema, stage, code, stopped, runs,
                       job, request>>
    BY <1>7, Zenon DEF LoseDependency, procs, IInv, TypeOK
  <2>2. faults' \in 0 .. MaxFaults
    BY <1>7, ProcessesAssumption DEF LoseDependency, Fault, IInv, TypeOK
  <2> QED
    BY <2>1, <2>2 DEF IInv, TypeOK, Handling, SchemaInv, SchemaFirst, ClosedInv
<1>8. CASE Reboot
  <2>1. /\ stage' \in [Service -> Stages]
        /\ code' \in [Service -> {"none", "clean", "error"}]
        /\ runs' \in [Service -> SUBSET (1 .. 3)]
        /\ \A t \in Service : runs'[t] = {} /\ (stage'[t] = "created" => stage[t] = "created")
        /\ \A t \in Service : stage[t] = "created" => stage'[t] = "created"
    BY <1>8 DEF Reboot, Alive, IInv, TypeOK
  <2>2. /\ job' # "active" /\ job' \in {"none", "active", "stalled"}
        /\ pg' \in BOOLEAN /\ redis' \in BOOLEAN /\ UNCHANGED <<env, deployed, storage,
                                                                schema, stopped>>
        /\ request' = FALSE
        /\ migrate' \in {"waiting", "migrating", "seeding", "done", "failed"}
        /\ migrate' = "done" => migrate = "done"
    BY <1>8 DEF Reboot, IInv, TypeOK
  <2>3. faults' \in 0 .. MaxFaults
    BY <1>8, ProcessesAssumption DEF Reboot, Fault, IInv, TypeOK
  <2>4. TypeOK'
    BY <2>1, <2>2, <2>3 DEF IInv, TypeOK, Handling
  <2> QED
    BY <2>1, <2>2, <2>4 DEF IInv, SchemaInv, SchemaFirst, NeedsSchema, ClosedInv
<1>9. CASE UNCHANGED vars
  BY <1>9 DEF vars, infra, procs, IInv, TypeOK, Handling, SchemaInv, SchemaFirst, ClosedInv
<1> QED
  BY <1>1, <1>2, <1>3, <1>4, <1>5, <1>6, <1>7, <1>8, <1>9, <1>10 DEF Next

LEMMA AlwaysIInv == Spec => []IInv
  BY InitIInv, NextIInv, PTL DEF Spec

(* The state of processes, containers and calls stays within its types, and only a
   process with handlers has calls of shutdown() under way.                 *)
THEOREM TypeCorrect == Spec => []TypeOK
  BY AlwaysIInv, PTL DEF IInv

(* Whatever fails and however a reboot orders the restarts, no service that uses the
   database is started before it was migrated and seeded.                   *)
THEOREM NeverBeforeSchema == Spec => []SchemaFirst
<1>1. IInv => SchemaFirst
  BY DEF IInv, SchemaInv
<1> QED
  BY <1>1, AlwaysIInv, PTL

(* Of all steps only the end of the worker's own shutdown exits its process cleanly,
   and that comes after the workers were closed.                            *)
LEMMA CleanExit ==
    ASSUME IInv, [Next]_vars, stage["worker"] = "running", stage'["worker"] = "exited",
           code'["worker"] = "clean"
    PROVE  job # "active"
<1> DEFINE w == "worker"
<1>0. w \in Service /\ Steps(w) = <<"workers.close", "queue.close", "redis.quit">>
  BY ProcessesAssumption DEF Steps, WorkerSteps
<1>1. ASSUME NEW s \in Service, NEW how, Exit(s, how) PROVE s = w /\ how = "clean"
  BY <1>0, <1>1 DEF Exit, IInv, TypeOK
<1>2. ASSUME NEW s \in Service, ServiceStep(s)
      PROVE  \E i \in 1 .. 3 : Advance(w, i) /\ Exit(w, "clean")
  <2>1. ~ComposeStart(s) /\ ~Restart(s)
    BY <1>0 DEF ComposeStart, Restart, Started, IInv, TypeOK
  <2>2. ~Load(s) /\ ~Connect(s) /\ ~Listen(s)
    BY <1>0, <1>1 DEF Load, Refuse, Serve, Connect, Listen, IInv, TypeOK
  <2>3. ASSUME NEW byDocker \in BOOLEAN, Signal(s, byDocker) PROVE FALSE
    BY <1>0, <1>1, <2>3 DEF Signal, SignalLost, ExitAtOnce, EnterShutdown
  <2>4. ~Kill(s) /\ ~Die(s)
    BY <1>1 DEF Kill, Die
  <2>5. PICK i \in 1 .. 3 : Advance(s, i)
    BY <1>2, <2>1, <2>2, <2>3, <2>4 DEF ServiceStep
  <2>6. Exit(s, "clean")
    BY <2>5 DEF Advance, Past
  <2> QED
    BY <1>1, <2>5, <2>6
<1>3. ASSUME NEW i \in 1 .. 3, Advance(w, i), Exit(w, "clean") PROVE job # "active"
  <2>1. i \in runs[w] /\ StepDone(w, i)
    BY <1>3 DEF Advance
  <2>2. CASE i = 1
    BY <1>0, <2>1, <2>2 DEF StepDone
  <2>3. CASE i # 1
    BY <2>1, <2>3 DEF IInv, ClosedInv
  <2> QED
    BY <2>2, <2>3
<1>4. ASSUME stage' = stage PROVE FALSE
  BY <1>4
<1>5. /\ ~PgUp /\ ~RedisUp /\ ~StorageChanges /\ ~Migrate /\ ~LoseDependency
      /\ ~TakeJob /\ ~FinishJob /\ ~Ask /\ ~Answer /\ vars' # vars
  BY <1>4 DEF PgUp, RedisUp, StorageChanges, Migrate, LoseDependency, TakeJob, FinishJob,
              Ask, Answer, procs, vars
<1>6. ~ComposeUp
  BY <1>0 DEF ComposeUp
<1>7. ~Reboot
  BY <1>0 DEF Reboot, Alive
<1> QED
  BY <1>2, <1>3, <1>5, <1>6, <1>7 DEF Next, IInv, TypeOK

(* However many signals the worker gets and whatever fails meanwhile, its process exits
   with code 0 only when no job is under way.                               *)
THEOREM JobsNotCut == Spec => JobNotCut
<1>1. IInv /\ [Next]_vars =>
          [(stage["worker"] = "running" /\ stage'["worker"] = "exited" /\ code'["worker"] = "clean")
           => job # "active"]_vars
  BY CleanExit
<1> QED
  BY <1>1, AlwaysIInv, PTL DEF Spec, JobNotCut

-----------------------------------------------------------------------------
(* Errors *)

(* An environment as .env.example describes it is refused by no service. *)
LEMMA DocumentedAccepted ==
    ASSUME Documented(env), NEW s \in Service
    PROVE  Offenders(s, env) = {}
<1>1. Schema(s) \subseteq Full
  BY ProcessesAssumption DEF Schema, ApiSchema, WorkerSchema, RunnerManagerSchema, Full
<1>2. ASSUME NEW v \in Full PROVE env[v] \in Accepted(v)
  BY DEF Documented, Accepted, Variables
<1> QED
  BY <1>1, <1>2 DEF Offenders

(* Nor does it keep anything from the database. *)
LEMMA GoodDatabase == ASSUME Documented(env) PROVE env["DATABASE_URL"] = "good"
<1>1. "DATABASE_URL" \in Variables /\ "DATABASE_URL" \in Required
  BY DEF Variables, Full, Database, Required
<1> QED
  BY <1>1 DEF Documented

(* While nothing has failed, a service that uses the database is started only after
   it was up, only such a service waits for a connection, and an error is that of a
   service that was told to stop and killed.                                *)
NoCauseInv ==
    faults = 0 =>
        /\ \A s \in NeedsSchema : stage[s] # "created" => pg
        /\ \A s \in Service : stage[s] = "connecting" => s \in NeedsSchema
        /\ Documented(env) => \A s \in Service : code[s] = "error" => s \in stopped

LEMMA NoCauseService ==
    ASSUME IInv, NoCauseInv, NEW s \in Service, ServiceStep(s)
    PROVE  NoCauseInv'
<1> USE DEF NeedsSchema, infra
<1>0. /\ stage \in [Service -> Stages]
      /\ code \in [Service -> {"none", "clean", "error"}] /\ faults \in Nat
  BY ProcessesAssumption DEF IInv, TypeOK
<1>1. CASE ComposeStart(s) \/ Restart(s)
  BY <1>0, <1>1 DEF ComposeStart, Restart, DependenciesMet, Started, NoCauseInv
<1>2. CASE Load(s)
  BY <1>0, <1>2, DocumentedAccepted DEF Load, Refuse, Serve, Exit, NoCauseInv
<1>3. CASE Connect(s)
  <2>1. CASE DatabaseReached
    BY <1>0, <1>3, <2>1 DEF Connect, NoCauseInv
  <2>2. CASE ~DatabaseReached
    <3>1. faults = 0 => ~Documented(env)
      BY <1>3, <2>2, GoodDatabase DEF Connect, DatabaseReached, NoCauseInv
    <3> QED
      BY <1>0, <1>3, <2>2, <3>1 DEF Connect, Exit, NoCauseInv
  <2> QED
    BY <2>1, <2>2
<1>8. CASE Listen(s)
  BY <1>0, <1>8 DEF Listen, NoCauseInv
<1>4. ASSUME NEW i \in 1 .. 3, Advance(s, i) PROVE NoCauseInv'
  BY <1>0, <1>4 DEF Advance, StepDone, Past, Exit, NoCauseInv
<1>5. ASSUME NEW byDocker \in BOOLEAN, Signal(s, byDocker) PROVE NoCauseInv'
  BY <1>0, <1>5 DEF Signal, SignalLost, ExitAtOnce, EnterShutdown, Alive, Exit, NoCauseInv
<1>6. CASE Kill(s)
  BY <1>0, <1>6 DEF Kill, Alive, Exit, NoCauseInv
<1>7. CASE Die(s)
  BY <1>0, <1>7 DEF Die, Fault, NoCauseInv
<1> QED
  BY <1>1, <1>2, <1>3, <1>4, <1>5, <1>6, <1>7, <1>8 DEF ServiceStep

LEMMA NoCauseKept == IInv /\ NoCauseInv /\ [Next]_vars => NoCauseInv'
<1> SUFFICES ASSUME IInv, NoCauseInv, [Next]_vars PROVE NoCauseInv'
  OBVIOUS
<1>0. faults \in Nat /\ code \in [Service -> {"none", "clean", "error"}]
  BY ProcessesAssumption DEF IInv, TypeOK
<1>1. CASE \/ PgUp \/ RedisUp \/ StorageChanges \/ Migrate
           \/ TakeJob \/ FinishJob \/ Ask \/ Answer \/ UNCHANGED vars
  BY <1>1 DEF PgUp, RedisUp, StorageChanges, Migrate, TakeJob, FinishJob, Ask, Answer,
              vars, infra, procs, NoCauseInv
<1>2. CASE ComposeUp
  BY <1>0, <1>2 DEF ComposeUp, NeedsSchema, NoCauseInv
<1>3. ASSUME NEW s \in deployed, ServiceStep(s) PROVE NoCauseInv'
  BY <1>3, NoCauseService DEF IInv, TypeOK
<1>4. CASE LoseDependency \/ Reboot
  BY <1>0, <1>4 DEF LoseDependency, Reboot, Fault, NoCauseInv
<1> QED
  BY <1>1, <1>2, <1>3, <1>4 DEF Next

(* What is left of BlankIsUnset when nothing is blank. *)
DocumentedStarts ==
    Documented(env) /\ faults = 0 /\ stopped = {} => \A s \in Service : code[s] # "error"

(* With an environment as .env.example describes it, and as long as nothing fails and
   nothing is told to stop, no service of the stack ends with an error, in whatever
   order signals, starts and a stack brought up again come.                 *)
THEOREM NoErrorWithoutCause == Spec => []DocumentedStarts
<1>1. Init => NoCauseInv
  BY DEF Init, NoCauseInv, NeedsSchema
<1>2. NoCauseInv => DocumentedStarts
  BY DEF NoCauseInv, DocumentedStarts
<1> QED
  BY <1>1, <1>2, AlwaysIInv, NoCauseKept, PTL DEF Spec

-----------------------------------------------------------------------------
(* What is refused *)

(* The environment does not change, and a process with handlers has loaded it. *)
ServingInv ==
    /\ env \in Environments
    /\ \A s \in Service : Handling(s) => Offenders(s, env) = {}

LEMMA ServingService ==
    ASSUME IInv, ServingInv, NEW s \in Service, ServiceStep(s)
    PROVE  ServingInv'
<1>0. stage \in [Service -> Stages]
  BY DEF IInv, TypeOK
<1>1. CASE ComposeStart(s) \/ Restart(s)
  BY <1>0, <1>1 DEF ComposeStart, Restart, Started, Handling, ServingInv
<1>2. CASE Load(s)
  BY <1>0, <1>2 DEF Load, Refuse, Serve, Exit, Handling, ServingInv
<1>3. CASE Connect(s) \/ Listen(s)
  BY <1>0, <1>3 DEF Connect, Listen, Exit, Handling, ServingInv
<1>4. ASSUME NEW i \in 1 .. 3, Advance(s, i) PROVE ServingInv'
  BY <1>0, <1>4 DEF Advance, Past, Exit, Handling, ServingInv
<1>5. ASSUME NEW byDocker \in BOOLEAN, Signal(s, byDocker) PROVE ServingInv'
  BY <1>0, <1>5 DEF Signal, SignalLost, ExitAtOnce, EnterShutdown, Exit, Handling, ServingInv
<1>6. CASE Kill(s) \/ Die(s)
  BY <1>0, <1>6 DEF Kill, Die, Exit, Handling, ServingInv
<1> QED
  BY <1>1, <1>2, <1>3, <1>4, <1>5, <1>6 DEF ServiceStep

LEMMA ServingKept == IInv /\ ServingInv /\ [Next]_vars => ServingInv'
<1> SUFFICES ASSUME IInv, ServingInv, [Next]_vars PROVE ServingInv'
  OBVIOUS
<1>1. CASE \/ PgUp \/ RedisUp \/ StorageChanges \/ Migrate \/ LoseDependency
           \/ TakeJob \/ FinishJob \/ Ask \/ Answer \/ UNCHANGED vars
  BY <1>1 DEF PgUp, RedisUp, StorageChanges, Migrate, LoseDependency, TakeJob, FinishJob,
              Ask, Answer, vars, procs, Handling, ServingInv
<1>2. CASE ComposeUp \/ Reboot
  BY <1>2 DEF ComposeUp, Reboot, Alive, Handling, ServingInv
<1>3. ASSUME NEW s \in deployed, ServiceStep(s) PROVE ServingInv'
  BY <1>3, ServingService DEF IInv, TypeOK
<1> QED
  BY <1>1, <1>2, <1>3 DEF Next

LEMMA AlwaysServingInv == Spec => []ServingInv
<1>1. Init => ServingInv
  BY DEF Init, ServingInv, Handling
<1> QED
  BY <1>1, AlwaysIInv, ServingKept, PTL DEF Spec

(* No process takes signals, jobs or connections with a configuration that is refused. *)
ServesAccepted == \A s \in Service : Handling(s) => Offenders(s, env) = {}

(* loadConfig() comes before everything else on every path to a process that serves,
   restarts by Docker and reboots included.                                 *)
THEOREM LoadedFirst == Spec => []ServesAccepted
<1>1. ServingInv => ServesAccepted
  BY DEF ServingInv, ServesAccepted
<1> QED
  BY <1>1, AlwaysServingInv, PTL

(* The blank S3_ENDPOINT_URL that .env.example advises is refused by every service that
   reads the variable, and nothing else is.                                 *)
LEMMA BlankOffends ==
    ASSUME env \in Environments, DocumentedForAws(env), env["S3_ENDPOINT_URL"] = "blank",
           NEW s \in Service
    PROVE  Offenders(s, env) = IF s = "runner-manager" THEN {} ELSE {"S3_ENDPOINT_URL"}
<1> DEFINE blank == "S3_ENDPOINT_URL"
           aws == [env EXCEPT ![blank] = IF @ = "blank" THEN "unset" ELSE @]
<1>1. Schema(s) \subseteq Full /\ blank \in Full
  BY ProcessesAssumption
  DEF Schema, ApiSchema, WorkerSchema, RunnerManagerSchema, Full, Storage
<1>2. blank \in Schema(s) <=> s # "runner-manager"
  BY ProcessesAssumption
  DEF Schema, ApiSchema, WorkerSchema, RunnerManagerSchema, Storage, Runtime, RedisGroup,
      Android, RunnerManager
<1>3. "blank" \notin Accepted(blank)
  BY DEF Accepted, Free, Prefixes
<1>4. \A v \in Full \ {blank} : env[v] \in Accepted(v)
  <2>1. aws \in [Variables -> {"unset", "blank", "malformed", "good"}]
    BY <1>1, ProcessesAssumption
  <2>2. \A v \in Full \ {blank} : aws[v] = env[v]
    BY <1>1, ProcessesAssumption DEF Variables
  <2>3. \A v \in Full : aws[v] = "good" \/ (v \notin Required /\ aws[v] = "unset")
    BY DEF DocumentedForAws, Documented, Variables
  <2> QED
    BY <2>2, <2>3 DEF Accepted
<1> QED
  BY <1>1, <1>2, <1>3, <1>4 DEF Offenders

(* Where BlankIsUnset fails, it fails for good. *)
BlankNeverServes ==
    DocumentedForAws(env) /\ env["S3_ENDPOINT_URL"] = "blank" =>
        \A s \in NeedsSchema : ~Handling(s)

(* With the blank that .env.example advises for AWS, neither the API nor the worker nor
   the cleanup process ever gets past its configuration, however often Docker starts it
   again.                                                                   *)
THEOREM BlankIsFatal == Spec => []BlankNeverServes
<1>1. ServingInv => BlankNeverServes
  BY BlankOffends DEF ServingInv, BlankNeverServes, NeedsSchema
<1> QED
  BY <1>1, AlwaysServingInv, PTL
=============================================================================
