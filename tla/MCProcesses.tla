----------------------------- MODULE MCProcesses -------------------------------
EXTENDS Processes

(* What is required filled in and the rest left to its defaults.  A key is missing that
   all services need, or one that the runner manager does not; the migration cannot
   use what it was given; the seed has no administrator.                    *)
Example == [v \in Variables |-> IF v \in Required \cup Seeding THEN "good" ELSE "unset"]
MCEnvironments ==
    {Example, [Example EXCEPT !["REDIS_URL"] = "unset"],
     [Example EXCEPT !["SESSION_SECRET"] = "blank"],
     [Example EXCEPT !["DATABASE_URL"] = "malformed"],
     [Example EXCEPT !["ADMIN_EMAIL"] = "blank"]}

(* The services meet only in the databases, the migration and an operator, so that the
   API, which has the most states, is observed alone.                       *)
MCDeployments == {{"api"}, {"worker", "cleanup"}, {"runner-manager"}}

(* The environment of the example, with blanks in one place. *)
MCBlanks == {[Example EXCEPT !["S3_ENDPOINT_URL"] = "blank"]}
=============================================================================
