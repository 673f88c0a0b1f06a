-------------------------------- MODULE Config --------------------------------
(***************************************************************************)
(* The configuration of the services (packages/config): which variables    *)
(* each service reads, what each of them may hold, and which keys          *)
(* loadConfig() refuses.                                                   *)
(*                                                                         *)
(* A value is told apart by its class: not set at all, set but blank, of   *)
(* a form its schema does not take, and good.                              *)
(***************************************************************************)

-----------------------------------------------------------------------------
(* The groups of variables *)

Runtime == {"NODE_ENV", "LOG_LEVEL", "APP_BASE_URL", "API_BASE_URL", "API_PORT", "WEB_PORT"}
Database == {"DATABASE_URL"}
RedisGroup == {"REDIS_URL"}
Security == {"SESSION_SECRET", "CREDENTIAL_MASTER_KEY", "CREDENTIAL_KEY_VERSION"}
Prefixes == {"S3_PREFIX_ARTIFACTS", "S3_PREFIX_LOGS", "S3_PREFIX_SOURCES"}
Storage ==
    {"S3_BUCKET", "S3_REGION", "S3_ENDPOINT_URL", "S3_ACCESS_KEY_ID",
     "S3_SECRET_ACCESS_KEY", "S3_FORCE_PATH_STYLE"} \cup Prefixes
Android ==
    {"ANDROID_BUILD_CONCURRENCY", "ANDROID_BUILD_MEMORY", "ANDROID_BUILD_CPUS",
     "ANDROID_BUILD_TIMEOUT_SECONDS", "ANDROID_BUILD_IMAGE"}
Retention == {"ARTIFACT_RETENTION_DAYS"}
RunnerManager == {"RUNNER_MANAGER_PORT", "DISK_USAGE_LIMIT_PERCENT"}

Full ==
    Runtime \cup Database \cup RedisGroup \cup Security \cup Storage \cup Android
    \cup Retention \cup RunnerManager

(* What else is read from .env: by the seed. *)
Seeding == {"ADMIN_EMAIL"}
Variables == Full \cup Seeding

ApiSchema == Runtime \cup Database \cup RedisGroup \cup Security \cup Storage \cup Retention

(* The cleanup process is started from the worker's package and loads the same. *)
WorkerSchema == Runtime \cup Database \cup RedisGroup \cup Security \cup Storage \cup Retention

RunnerManagerSchema == Runtime \cup RedisGroup \cup Android \cup RunnerManager

Schema(s) ==
    CASE s = "api" -> ApiSchema
      [] s \in {"worker", "cleanup"} -> WorkerSchema
      [] s = "runner-manager" -> RunnerManagerSchema

-----------------------------------------------------------------------------
(* What a variable may hold *)

(* Texts that only have to be there, and texts without any condition. *)
NonEmpty ==
    Database \cup RedisGroup
    \cup {"S3_BUCKET", "S3_REGION", "S3_ACCESS_KEY_ID", "S3_SECRET_ACCESS_KEY",
          "ANDROID_BUILD_MEMORY", "ANDROID_BUILD_CPUS", "ANDROID_BUILD_IMAGE"}
Free == Prefixes

(* Without a default: URLs, a secret of 32 characters, a key of 64 hex characters.
   All others have one, but S3_ENDPOINT_URL, which is optional.             *)
Required ==
    Database \cup RedisGroup
    \cup {"APP_BASE_URL", "API_BASE_URL", "SESSION_SECRET", "CREDENTIAL_MASTER_KEY",
          "S3_BUCKET", "S3_ACCESS_KEY_ID", "S3_SECRET_ACCESS_KEY"}

(* A default stands in for a variable that is not set, never for a blank one: that
   is a text like any other, and to a number it is 0, less than any minimum. *)
Accepted(v) ==
    (IF v \in Required THEN {} ELSE {"unset"})
    \cup (IF v \in Free THEN {"blank"} ELSE {})
    \cup (IF v \in Free \cup NonEmpty THEN {"malformed"} ELSE {})
    \cup {"good"}

(* The keys a ConfigurationError names. *)
Offenders(s, env) == {v \in Schema(s) : env[v] \notin Accepted(v)}

-----------------------------------------------------------------------------
(* What .env.example promises *)

(* Everything with a default may be left out; the rest is filled in. *)
Documented(env) ==
    \A v \in Variables :
        env[v] = "good" \/ (v \notin Required \cup Seeding /\ env[v] = "unset")

(* "Leave blank/unset for real AWS S3." *)
DocumentedForAws(env) ==
    Documented([env EXCEPT !["S3_ENDPOINT_URL"] = IF @ = "blank" THEN "unset" ELSE @])
=============================================================================
