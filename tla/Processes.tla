------------------------------ MODULE Processes -------------------------------
(***************************************************************************)
(* The processes of the stack from start to exit: Compose starts them in   *)
(* order, each loads its configuration, connects and serves; signals shut  *)
(* them down step by step; processes, dependencies and the host fail, and  *)
(* Docker starts again what failed.                                        *)
(***************************************************************************)
EXTENDS Naturals, Sequences, Config

CONSTANTS
    Service,        \* the services of the stack
    Environments,   \* the environments it is deployed with
    Deployments,    \* the sets of services that are observed together
    MaxFaults       \* bound: failures of anything

ASSUME ProcessesAssumption ==
    /\ Service \subseteq {"api", "worker", "cleanup", "runner-manager"}
    /\ {"api", "worker"} \subseteq Service
    /\ Environments \subseteq [Variables -> {"unset", "blank", "malformed", "good"}]
    /\ Deployments \subseteq SUBSET Service
    /\ MaxFaults \in Nat

VARIABLES
    env,        \* the class of every variable in .env
    deployed,   \* the services that are observed
    pg, redis,  \* whether PostgreSQL and Redis are up
    storage,    \* whether the object storage answers, be it with an error, or is silent
    migrate,    \* the one-shot container that migrates and seeds
    schema,     \* how far the database is: "empty", "migrated", "seeded"
    stage,      \* how far each process is
    code,       \* how it last exited since the stack was brought up: "none", "clean"
                \* (0), "error" (anything else)
    stopped,    \* services an operator told Docker to stop
    runs,       \* the steps that calls of shutdown() of a service wait at
    job,        \* a job of the worker's queue
    request,    \* whether a request to the API, or what it left running, is open
    faults      \* history: failures so far

infra == <<pg, redis, storage, migrate, schema>>
procs == <<stage, code, stopped, runs, job, request>>
vars == <<env, deployed, infra, procs, faults>>

NeedsSchema == Service \ {"runner-manager"}
Alive(s) == stage[s] \in {"loading", "connecting", "connected", "running"}
Handling(s) == stage[s] \in {"connecting", "connected", "running"}     \* signals

(* What the shutdown of a service waits for, in order.  That of the API is run by
   Nest: the hooks of Redis and of Prisma, then the HTTP server is closed.  The
   cleanup process waits for nothing.                                       *)
WorkerSteps == <<"workers.close", "queue.close", "redis.quit">>
RunnerManagerSteps == <<"redis.quit">>
ApiSteps == <<"redis.quit", "prisma.disconnect", "http.close">>

Steps(s) ==
    CASE s = "worker" -> WorkerSteps
      [] s = "runner-manager" -> RunnerManagerSteps
      [] s = "api" -> ApiSteps
      [] s = "cleanup" -> <<>>

Stages == {"created", "loading", "connecting", "connected", "running", "exited"}

TypeOK ==
    /\ pg \in BOOLEAN /\ redis \in BOOLEAN /\ storage \in BOOLEAN
    /\ migrate \in {"waiting", "migrating", "seeding", "done", "failed"}
    /\ schema \in {"empty", "migrated", "seeded"}
    /\ stage \in [Service -> Stages]
    /\ code \in [Service -> {"none", "clean", "error"}]
    /\ stopped \subseteq Service /\ deployed \subseteq Service
    /\ runs \in [Service -> SUBSET (1 .. 3)]
    /\ \A s \in Service : runs[s] # {} => Handling(s)
    /\ job \in {"none", "active", "stalled"}
    /\ job = "active" => stage["worker"] = "running"
    /\ request \in BOOLEAN
    /\ request => stage["api"] = "running"
    /\ faults \in 0 .. MaxFaults

Init ==
    /\ env \in Environments /\ deployed \in Deployments
    /\ pg = FALSE /\ redis = FALSE /\ storage = TRUE
    /\ migrate = "waiting" /\ schema = "empty"
    /\ stage = [s \in Service |-> "created"]
    /\ code = [s \in Service |-> "none"]
    /\ stopped = {} /\ runs = [s \in Service |-> {}]
    /\ job = "none" /\ request = FALSE /\ faults = 0

-----------------------------------------------------------------------------
(* Compose: dependencies, migrate, order of start *)

PgUp ==
    /\ ~pg /\ pg' = TRUE
    /\ UNCHANGED <<env, deployed, redis, storage, migrate, schema, procs, faults>>

RedisUp ==
    /\ ~redis /\ redis' = TRUE
    /\ UNCHANGED <<env, deployed, pg, storage, migrate, schema, procs, faults>>

(* A bucket outside the stack falls silent and answers again as it likes; of the
   services only the API waits for it.                                      *)
StorageChanges ==
    /\ "api" \in deployed
    /\ storage' = ~storage
    /\ UNCHANGED <<env, deployed, pg, redis, migrate, schema, procs, faults>>

DatabaseReached == pg /\ env["DATABASE_URL"] = "good"
AdminNamed == env["ADMIN_EMAIL"] \notin {"unset", "blank"}

(* migrate:deploy && seed; what was applied before is not applied again.  The one reads
   DATABASE_URL, the other ADMIN_EMAIL as well, before it asks for anything. *)
Migrate ==
    /\ \/ /\ migrate = "waiting" /\ pg
          /\ migrate' = "migrating" /\ UNCHANGED schema
       \/ /\ migrate = "migrating" /\ DatabaseReached
          /\ migrate' = "seeding"
          /\ schema' = IF schema = "empty" THEN "migrated" ELSE schema
       \/ /\ migrate = "seeding" /\ DatabaseReached /\ AdminNamed
          /\ migrate' = "done" /\ schema' = "seeded"
       \/ /\ \/ migrate \in {"migrating", "seeding"} /\ ~DatabaseReached
             \/ migrate = "seeding" /\ ~AdminNamed
          /\ migrate' = "failed" /\ UNCHANGED schema
    /\ UNCHANGED <<env, deployed, pg, redis, storage, procs, faults>>

(* MUTANT: the container of the migration has only to be started. *)
DependenciesStarted(s) ==
    /\ redis
    /\ s \in NeedsSchema => pg /\ migrate # "waiting"

(* depends_on of a service: healthy databases, and migrate completed. *)
DependenciesMet(s) ==
    /\ redis
    /\ s \in NeedsSchema => pg /\ migrate = "done"

Started(s) ==
    /\ stage' = [stage EXCEPT ![s] = "loading"]
    /\ UNCHANGED <<env, deployed, infra, code, stopped, runs, job, request, faults>>

ComposeStart(s) == stage[s] = "created" /\ DependenciesMet(s) /\ Started(s)

(* MUTANT: a restart waits for the dependencies, as the first start does. *)
RestartedInOrder(s) == s \notin stopped /\ DependenciesMet(s)

(* restart: unless-stopped, whatever the exit code. *)
RestartPolicy(s) == s \notin stopped

(* Docker itself restarts a container: nothing is waited for. *)
Restart(s) == stage[s] = "exited" /\ RestartPolicy(s) /\ Started(s)

(* An operator brings the stack up again, after a stop or a migration that failed:
   migrate runs again, and what is not running is started in order.         *)
ComposeUp ==
    /\ migrate = "failed" \/ (migrate = "done" /\ stopped # {})
    /\ \A s \in stopped : ~Alive(s)
    /\ migrate' = "waiting"
    /\ stage' = [s \in Service |-> IF s \in stopped THEN "created" ELSE stage[s]]
    /\ code' = [s \in Service |-> IF s \in stopped THEN "none" ELSE code[s]]
    /\ stopped' = {}
    /\ UNCHANGED <<env, deployed, pg, redis, storage, schema, runs, job, request, faults>>

-----------------------------------------------------------------------------
(* A process *)

(* MUTANT: the job of a worker that is gone stays locked. *)
ExitKeepingLock(s, how) ==
    /\ stage' = [stage EXCEPT ![s] = "exited"]
    /\ code' = [code EXCEPT ![s] = how]
    /\ runs' = [runs EXCEPT ![s] = {}]
    /\ request' = (request /\ s # "api")
    /\ UNCHANGED job

(* The process of s is gone, and with it its shutdowns, its requests and its job's
   lock.                                                                    *)
Exit(s, how) ==
    /\ stage' = [stage EXCEPT ![s] = "exited"]
    /\ code' = [code EXCEPT ![s] = how]
    /\ runs' = [runs EXCEPT ![s] = {}]
    /\ job' = IF s = "worker" /\ job = "active" THEN "stalled" ELSE job
    /\ request' = (request /\ s # "api")

(* A configuration that is refused ends the process. *)
Refuse(s) == Offenders(s, env) # {} /\ Exit(s, "error")

(* Only the API waits for others before it serves; the Redis clients of the rest
   connect by themselves.                                                   *)
Serve(s) ==
    /\ Offenders(s, env) = {}
    /\ stage' = [stage EXCEPT ![s] = IF s = "api" THEN "connecting" ELSE "running"]
    /\ UNCHANGED <<code, runs, job, request>>

Load(s) ==
    /\ stage[s] = "loading"
    /\ Refuse(s) \/ Serve(s)
    /\ UNCHANGED <<env, deployed, infra, stopped, faults>>

(* $connect() of Prisma, which throws without a database. *)
Connect(s) ==
    /\ stage[s] = "connecting"
    /\ \/ /\ DatabaseReached /\ stage' = [stage EXCEPT ![s] = "connected"]
          /\ UNCHANGED <<code, runs, job, request>>
       \/ ~DatabaseReached /\ Exit(s, "error")
    /\ UNCHANGED <<env, deployed, infra, stopped, faults>>

(* Nest listens once HeadBucket was answered, whatever the answer: there is no limit of
   time on it.                                                              *)
Listen(s) ==
    /\ stage[s] = "connected" /\ storage
    /\ stage' = [stage EXCEPT ![s] = "running"]
    /\ UNCHANGED <<env, deployed, infra, code, stopped, runs, job, request, faults>>

(* Requests come until the HTTP server is closed.  One ends whenever what it asked for
   is answered or given up.                                                 *)
Ask ==
    /\ "api" \in deployed /\ stage["api"] = "running" /\ 3 \notin runs["api"]
    /\ ~request /\ request' = TRUE
    /\ UNCHANGED <<env, deployed, infra, stage, code, stopped, runs, job, faults>>

Answer ==
    /\ request /\ request' = FALSE
    /\ UNCHANGED <<env, deployed, infra, stage, code, stopped, runs, job, faults>>

(* The worker takes a job, or one whose lock ran out, unless it is closing; Redis
   hears of every step.                                                     *)
TakeJob ==
    /\ stage["worker"] = "running" /\ runs["worker"] = {} /\ redis
    /\ job \in {"none", "stalled"} /\ job' = "active"
    /\ UNCHANGED <<env, deployed, infra, stage, code, stopped, runs, request, faults>>

FinishJob ==
    /\ job = "active" /\ redis /\ job' = "none"
    /\ UNCHANGED <<env, deployed, infra, stage, code, stopped, runs, request, faults>>

-----------------------------------------------------------------------------
(* Shutdown *)

(* Before the handlers are there a signal is lost on the first process of a
   container, and Nest takes the first signal only.                         *)
SignalLost(s) ==
    /\ ~Handling(s) \/ (s = "api" /\ runs[s] # {})
    /\ UNCHANGED <<stage, code, runs, job, request>>

(* The cleanup process only has its timer to clear. *)
ExitAtOnce(s) == Handling(s) /\ Steps(s) = <<>> /\ Exit(s, "clean")

(* Every signal enters shutdown() once more. *)
EnterShutdown(s) ==
    /\ Handling(s) /\ Steps(s) # <<>> /\ (s = "api" => runs[s] = {})
    /\ runs' = [runs EXCEPT ![s] = @ \cup {1}]
    /\ UNCHANGED <<stage, code, job, request>>

(* SIGTERM or SIGINT, of docker stop or of anybody. *)
Signal(s, byDocker) ==
    /\ Alive(s)
    /\ stopped' = IF byDocker THEN stopped \cup {s} ELSE stopped
    /\ SignalLost(s) \/ ExitAtOnce(s) \/ EnterShutdown(s)
    /\ UNCHANGED <<env, deployed, infra, faults>>

(* MUTANT: the workers are told to close but not waited for. *)
StepDoneUnawaited(s, i) == stage[s] = "running"

(* close() of a worker waits for its job, Nest for the end of the start, and close() of
   the HTTP server for open requests.  What needs Redis may wait for it, or not: a
   client that is not connected drops what it was to send, or keeps it.     *)
StepDone(s, i) ==
    /\ stage[s] = "running"
    /\ Steps(s)[i] = "workers.close" => job # "active"
    /\ Steps(s)[i] = "http.close" => ~request

(* MUTANT: no process.exit(), and the health server keeps the process alive. *)
PastWithoutExit(s, i) ==
    /\ runs' = [runs EXCEPT ![s] = ((@ \ {i}) \cup {i + 1}) \cap 1 .. Len(Steps(s))]
    /\ UNCHANGED <<stage, code, job, request>>

(* What follows step i: the next one, or the end of the process.  The API has no
   process.exit(): Nest sends the signal to its process once more, which is lost on
   the first process of a container, and nothing is left for it to wait for. *)
Past(s, i) ==
    \/ /\ i = Len(Steps(s)) /\ Exit(s, "clean")
    \/ /\ i < Len(Steps(s))
       /\ runs' = [runs EXCEPT ![s] = (@ \ {i}) \cup {i + 1}]
       /\ UNCHANGED <<stage, code, job, request>>

(* The calls of shutdown() that wait at step i get past it: they await the same
   promises.                                                                *)
Advance(s, i) ==
    /\ i \in runs[s] /\ StepDone(s, i) /\ Past(s, i)
    /\ UNCHANGED <<env, deployed, infra, stopped, faults>>

(* docker stop loses its patience. *)
Kill(s) ==
    /\ s \in stopped /\ Alive(s) /\ Exit(s, "error")
    /\ UNCHANGED <<env, deployed, infra, stopped, faults>>

-----------------------------------------------------------------------------
(* Failures *)

Fault == faults < MaxFaults /\ faults' = faults + 1

(* A process dies of anything: memory, an exception nobody caught. *)
Die(s) ==
    /\ Fault /\ Alive(s) /\ Exit(s, "error")
    /\ UNCHANGED <<env, deployed, infra, stopped>>

LoseDependency ==
    /\ Fault
    /\ \/ pg /\ pg' = FALSE /\ UNCHANGED redis
       \/ redis /\ redis' = FALSE /\ UNCHANGED pg
    /\ UNCHANGED <<env, deployed, storage, migrate, schema, procs>>

(* The host goes down and comes back: the volumes are kept, migrate is not run
   again, and what is not stopped is restarted in any order.                *)
Reboot ==
    /\ Fault
    /\ pg' = FALSE /\ redis' = FALSE
    /\ migrate' = IF migrate \in {"migrating", "seeding"} THEN "failed" ELSE migrate
    /\ stage' = [s \in Service |-> IF Alive(s) THEN "exited" ELSE stage[s]]
    /\ code' = [s \in Service |-> IF Alive(s) THEN "error" ELSE code[s]]
    /\ runs' = [s \in Service |-> {}]
    /\ job' = IF job = "active" THEN "stalled" ELSE job
    /\ request' = FALSE
    /\ UNCHANGED <<env, deployed, storage, schema, stopped>>

-----------------------------------------------------------------------------
ServiceStep(s) ==
    \/ ComposeStart(s) \/ Restart(s)
    \/ Load(s) \/ Connect(s) \/ Listen(s)
    \/ \E i \in 1 .. 3 : Advance(s, i)
    \/ \E byDocker \in BOOLEAN : Signal(s, byDocker)
    \/ Kill(s) \/ Die(s)

Next ==
    \/ PgUp \/ RedisUp \/ StorageChanges \/ Migrate \/ ComposeUp
    \/ \E s \in deployed : ServiceStep(s)
    \/ TakeJob \/ FinishJob \/ Ask \/ Answer
    \/ LoseDependency \/ Reboot

(* Docker starts and restarts what it has to, databases included; a process gets on
   with what it does, and with a step of its shutdown once Redis answers; a job is
   finished, and a request once everything it may ask answers.  Nobody has to send a
   signal, kill, take a job, ask or bring the stack up, and the storage need not
   answer.                                                                  *)
Fairness ==
    /\ WF_vars(PgUp) /\ WF_vars(RedisUp) /\ WF_vars(Migrate) /\ WF_vars(FinishJob)
    /\ WF_vars(pg /\ redis /\ storage /\ Answer)
    /\ \A s \in Service :
           /\ WF_vars(s \in deployed
                      /\ (ComposeStart(s) \/ Restart(s) \/ Load(s) \/ Connect(s) \/ Listen(s)))
           /\ \A i \in 1 .. 3 : WF_vars(s \in deployed /\ redis /\ Advance(s, i))

Spec == Init /\ [][Next]_vars /\ Fairness

-----------------------------------------------------------------------------
(* Correctness *)

(* No service that uses the database was ever started before it was migrated and
   seeded, whatever failed meanwhile and in whatever order a reboot restarted
   things ("App services wait for this to complete successfully").          *)
SchemaFirst ==
    \A s \in NeedsSchema : stage[s] # "created" => schema = "seeded"

(* A worker that says it shut down cleanly has not cut a job short, however many
   signals it got.                                                          *)
JobNotCut ==
    [][(stage["worker"] = "running" /\ stage'["worker"] = "exited" /\ code'["worker"] = "clean")
       => job # "active"]_vars

(* What a service waits for and nobody in the stack restarts: in the end it answers. *)
OutsideAnswers(s) == s = "api" => <>[]storage

(* A shutdown ends without being killed once everything it waits for is back: whatever
   Redis did when it began, a second signal, a job or requests under way do not keep
   it from the exit.  That of the API ends only if the object storage answers in the
   end, for its start and its requests wait for it.                         *)
ShutdownEnds ==
    \A s \in Service : OutsideAnswers(s) => (runs[s] # {} ~> stage[s] = "exited")

(* With an environment as .env.example describes it, every service that was started
   comes back from any failure, clean exits included, until an operator stops it or
   a new migration has to come first; the API, if the object storage answers in the
   end.                                                                     *)
ComesBack ==
    Documented(env) =>
        \A s \in Service :
            OutsideAnswers(s) =>
                (stage[s] # "created" ~> stage[s] \in {"running", "created"} \/ s \in stopped)

(* "Leave blank/unset for real AWS S3": where nothing fails and nothing is stopped, no
   service ends with an error in such an environment.                       *)
BlankIsUnset ==
    DocumentedForAws(env) /\ faults = 0 /\ stopped = {} => \A s \in Service : code[s] # "error"
=============================================================================
