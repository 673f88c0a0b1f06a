----------------------------- MODULE Lifecycles ------------------------------
(***************************************************************************)
(* The life of a build (build-state.ts) and of the submission made of it   *)
(* (submission-state.ts).                                                  *)
(*                                                                         *)
(* Each record holds a state; whoever wants to move it asks for a target   *)
(* and the transition is checked against a table.  Requests may come in    *)
(* any order, twice, or too late: an illegal one throws and changes        *)
(* nothing, one for the present state is taken as already done.            *)
(***************************************************************************)
EXTENDS Naturals, FiniteSets

BuildStates ==
    {"QUEUED", "ASSIGNED", "PREPARING", "CLONING", "INSTALLING", "PREBUILDING",
     "COMPILING", "SIGNING", "UPLOADING", "SUCCEEDED", "FAILED", "CANCELLED", "TIMED_OUT"}

TerminalBuildStates == {"SUCCEEDED", "FAILED", "CANCELLED", "TIMED_OUT"}

SubmissionStates ==
    {"QUEUED", "UPLOADING", "PROCESSING", "READY", "SUBMITTING", "SUBMITTED",
     "APPROVED", "REJECTED", "FAILED"}

TerminalSubmissionStates == {"APPROVED", "REJECTED", "FAILED"}

VARIABLES
    build,              \* the state of the build
    buildSeen,          \* history: every state it has been in
    submission,         \* the state of the submission
    submissionSeen      \* history: every state it has been in

buildVars == <<build, buildSeen>>
submissionVars == <<submission, submissionSeen>>
vars == <<buildVars, submissionVars>>

TypeOK ==
    /\ build \in BuildStates
    /\ buildSeen \subseteq BuildStates
    /\ submission \in SubmissionStates
    /\ submissionSeen \subseteq SubmissionStates

(* Both columns default to QUEUED. *)
Init ==
    /\ build = "QUEUED"
    /\ buildSeen = {"QUEUED"}
    /\ submission = "QUEUED"
    /\ submissionSeen = {"QUEUED"}

-----------------------------------------------------------------------------
(* Builds *)

HappyPath ==
    <<"QUEUED", "ASSIGNED", "PREPARING", "CLONING", "INSTALLING", "PREBUILDING",
      "COMPILING", "SIGNING", "UPLOADING", "SUCCEEDED">>

AbortStates == {"FAILED", "CANCELLED", "TIMED_OUT"}

(* The state after a state of the happy path. *)
Successors(s) == {HappyPath[k + 1] : k \in {j \in 1 .. 9 : HappyPath[j] = s}}

(* MUTANT: terminal states are not skipped when the abort edges are added. *)
UnguardedBuildTransitions(s) == Successors(s) \cup AbortStates

BuildTransitions(s) ==
    Successors(s) \cup IF s \in TerminalBuildStates THEN {} ELSE AbortStates

(* MUTANT: any later state of the happy path will do. *)
CanSkipAhead(from, to) ==
    \/ from = to
    \/ to \in BuildTransitions(from)
    \/ \E j, k \in 1 .. 10 : j < k /\ from = HappyPath[j] /\ to = HappyPath[k]

CanTransitionBuild(from, to) == from = to \/ to \in BuildTransitions(from)

(* assertBuildTransition, and the caller storing what it returns. *)
MoveBuild(to) ==
    /\ IF CanTransitionBuild(build, to)
       THEN build' = to /\ buildSeen' = buildSeen \cup {to}
       ELSE UNCHANGED buildVars
    /\ UNCHANGED submissionVars

-----------------------------------------------------------------------------
(* Submissions *)

(* TRANSITIONS *)
SubmissionTransitions ==
    [QUEUED     |-> {"UPLOADING", "FAILED"},
     UPLOADING  |-> {"PROCESSING", "FAILED"},
     PROCESSING |-> {"READY", "FAILED"},
     READY      |-> {"SUBMITTING", "SUBMITTED", "FAILED"},
     SUBMITTING |-> {"SUBMITTED", "FAILED"},
     SUBMITTED  |-> {"APPROVED", "REJECTED", "FAILED"},
     APPROVED   |-> {},
     REJECTED   |-> {},
     FAILED     |-> {}]

(* MUTANT: an uploaded binary is taken for a processed one. *)
CanSkipProcessing(from, to) ==
    \/ from = to
    \/ to \in SubmissionTransitions[from]
    \/ from = "UPLOADING" /\ to = "READY"

(* MUTANT: the row of SUBMITTING is forgotten. *)
CanGetStranded(from, to) ==
    \/ from = to
    \/ from # "SUBMITTING" /\ to \in SubmissionTransitions[from]

CanTransitionSubmission(from, to) == from = to \/ to \in SubmissionTransitions[from]

(* assertSubmissionTransition, and the caller storing what it returns. *)
MoveSubmission(to) ==
    /\ IF CanTransitionSubmission(submission, to)
       THEN submission' = to /\ submissionSeen' = submissionSeen \cup {to}
       ELSE UNCHANGED submissionVars
    /\ UNCHANGED buildVars

-----------------------------------------------------------------------------

Next ==
    \/ \E to \in BuildStates : MoveBuild(to)
    \/ \E to \in SubmissionStates : MoveSubmission(to)

Spec == Init /\ [][Next]_vars

-----------------------------------------------------------------------------
(* Properties *)

(* The k-th state of the happy path and all before it. *)
UpTo(k) == {HappyPath[j] : j \in 1 .. k}

(* Whatever requests come, in whatever order and however often, a build has been
   through exactly the states of the happy path up to some stage, and then at
   most one abort: a SUCCEEDED build went through every stage and was never
   failed, cancelled or timed out on the way.                               *)
NoStageSkipped ==
    \E k \in 1 .. 10 : \/ build = HappyPath[k] /\ buildSeen = UpTo(k)
                       \/ k < 10 /\ build \in AbortStates /\ buildSeen = UpTo(k) \cup {build}

(* A submission the store reviewed was uploaded, processed, ready and submitted
   before, and no submission has two outcomes.                              *)
ReviewedInOrder ==
    /\ submission \in {"APPROVED", "REJECTED"} =>
           {"QUEUED", "UPLOADING", "PROCESSING", "READY", "SUBMITTED"} \subseteq submissionSeen
    /\ submission = "READY" => "PROCESSING" \in submissionSeen
    /\ submissionSeen \cap TerminalSubmissionStates \subseteq {submission}

(* The hand-written sets of terminal states agree with the tables: a record that
   is not terminal has somewhere to go, and one that is has not.            *)
NeverStranded ==
    /\ build \notin TerminalBuildStates <=>
           \E to \in BuildStates \ {build} : CanTransitionBuild(build, to)
    /\ submission \notin TerminalSubmissionStates <=>
           \E to \in SubmissionStates \ {submission} : CanTransitionSubmission(submission, to)

(* No request moves a finished build or a finished submission, a late success
   after a cancellation, a late failure after a success included.           *)
FinishedStaysFinished ==
    [][/\ build \in TerminalBuildStates => build' = build
       /\ submission \in TerminalSubmissionStates => submission' = submission]_vars
=============================================================================
