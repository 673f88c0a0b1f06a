-------------------------- MODULE LifecyclesProofs ---------------------------
(***************************************************************************)
(* Proofs about the life cycles of builds and submissions, for requests in *)
(* any order and any number.                                               *)
(***************************************************************************)
EXTENDS Lifecycles, TLAPS

(* The stages of the happy path are build states, all different, none of them an
   abort, and only the last one is terminal.                                *)
LEMMA HappyPathFacts ==
    /\ HappyPath[1] = "QUEUED"
    /\ \A k \in 1 .. 10 : /\ HappyPath[k] \in BuildStates \ AbortStates
                          /\ HappyPath[k] \in TerminalBuildStates <=> k = 10
    /\ \A j, k \in 1 .. 10 : HappyPath[j] = HappyPath[k] => j = k
  BY SMTT(60) DEF HappyPath, BuildStates, AbortStates, TerminalBuildStates

(* A legal move of a build is none, one stage on, or an abort before the end. *)
LEMMA LegalBuildMove ==
    ASSUME NEW from, NEW to, CanTransitionBuild(from, to)
    PROVE  \/ to = from
           \/ \E j \in 1 .. 9 : from = HappyPath[j] /\ to = HappyPath[j + 1]
           \/ from \notin TerminalBuildStates /\ to \in AbortStates
  BY DEF CanTransitionBuild, BuildTransitions, Successors

LEMMA UpToNext ==
    ASSUME NEW k \in 1 .. 9
    PROVE  UpTo(k + 1) = UpTo(k) \cup {HappyPath[k + 1]}
  BY DEF UpTo

LEMMA TypeInductive == TypeOK /\ [Next]_vars => TypeOK'
<1> SUFFICES ASSUME TypeOK, [Next]_vars
             PROVE  TypeOK'
  OBVIOUS
<1> USE DEF TypeOK, buildVars, submissionVars
<1>1. ASSUME NEW to \in BuildStates, MoveBuild(to)
      PROVE  TypeOK'
  BY <1>1 DEF MoveBuild
<1>2. ASSUME NEW to \in SubmissionStates, MoveSubmission(to)
      PROVE  TypeOK'
  BY <1>2 DEF MoveSubmission
<1>3. CASE UNCHANGED vars
  BY <1>3 DEF vars
<1> QED
  BY <1>1, <1>2, <1>3 DEF Next

(* Builds and submissions only ever hold states of their enums. *)
THEOREM TypeCorrect == Spec => []TypeOK
<1>1. Init => TypeOK
  BY DEF Init, TypeOK, BuildStates, SubmissionStates
<1> QED
  BY <1>1, TypeInductive, PTL DEF Spec

-----------------------------------------------------------------------------

LEMMA StageInductive == NoStageSkipped /\ [Next]_vars => NoStageSkipped'
<1> SUFFICES ASSUME NoStageSkipped, [Next]_vars
             PROVE  NoStageSkipped'
  OBVIOUS
<1> USE DEF buildVars, submissionVars
<1>1. CASE UNCHANGED buildVars
  BY <1>1 DEF NoStageSkipped, UpTo
<1>2. ASSUME NEW to \in BuildStates, MoveBuild(to), CanTransitionBuild(build, to)
      PROVE  NoStageSkipped'
  <2>1. build' = to /\ buildSeen' = buildSeen \cup {to}
    BY <1>2 DEF MoveBuild
  <2>2. PICK k \in 1 .. 10 :
            \/ build = HappyPath[k] /\ buildSeen = UpTo(k)
            \/ k < 10 /\ build \in AbortStates /\ buildSeen = UpTo(k) \cup {build}
    BY DEF NoStageSkipped
  <2>3. CASE to = build
    <3>1. build \in buildSeen
      BY <2>2 DEF UpTo
    <3> QED
      BY <1>1, <2>1, <2>3, <3>1
  <2>4. ASSUME NEW j \in 1 .. 9, build = HappyPath[j], to = HappyPath[j + 1]
        PROVE  NoStageSkipped'
    <3>1. k = j /\ buildSeen = UpTo(k)
      BY <2>2, <2>4, HappyPathFacts
    <3>2. buildSeen' = UpTo(k + 1) /\ build' = HappyPath[k + 1] /\ k + 1 \in 1 .. 10
      BY <2>1, <2>4, <3>1, UpToNext
    <3> QED
      BY <3>2 DEF NoStageSkipped, UpTo
  <2>5. CASE build \notin TerminalBuildStates /\ to \in AbortStates
    <3>1. build = HappyPath[k] /\ buildSeen = UpTo(k) /\ k < 10
      BY <2>2, <2>5, HappyPathFacts DEF AbortStates, TerminalBuildStates
    <3> QED
      BY <2>1, <2>5, <3>1 DEF NoStageSkipped, UpTo
  <2> QED
    BY <1>2, <2>3, <2>4, <2>5, LegalBuildMove
<1>3. CASE \E to \in BuildStates : MoveBuild(to) /\ ~CanTransitionBuild(build, to)
  BY <1>1, <1>3 DEF MoveBuild
<1>4. CASE \E to \in SubmissionStates : MoveSubmission(to)
  BY <1>1, <1>4 DEF MoveSubmission
<1>5. CASE UNCHANGED vars
  BY <1>1, <1>5 DEF vars
<1> QED
  BY <1>2, <1>3, <1>4, <1>5 DEF Next

(* A build has been through exactly the stages up to the one it is at, and at
   most one abort after them, whatever moves were asked for.                *)
THEOREM StagesInOrder == Spec => []NoStageSkipped
<1>1. Init => NoStageSkipped
  <2> SUFFICES ASSUME Init
               PROVE  build = HappyPath[1] /\ buildSeen = UpTo(1)
    BY DEF NoStageSkipped
  <2> QED
    BY HappyPathFacts DEF Init, UpTo
<1> QED
  BY <1>1, StageInductive, PTL DEF Spec

-----------------------------------------------------------------------------

(* No move leaves a terminal state. *)
LEMMA TerminalHasNoMove ==
    /\ \A to : \A from \in TerminalBuildStates : CanTransitionBuild(from, to) => to = from
    /\ \A to : \A from \in TerminalSubmissionStates :
           CanTransitionSubmission(from, to) => to = from
<1>1. ASSUME NEW to, NEW from \in TerminalBuildStates, CanTransitionBuild(from, to)
      PROVE  to = from
  <2>1. \A j \in 1 .. 9 : from # HappyPath[j]
    BY HappyPathFacts
  <2> QED
    BY <1>1, <2>1, LegalBuildMove
<1>2. ASSUME NEW to, NEW from \in TerminalSubmissionStates, CanTransitionSubmission(from, to)
      PROVE  to = from
  <2>1. SubmissionTransitions[from] = {}
    BY DEF TerminalSubmissionStates, SubmissionTransitions
  <2> QED
    BY <1>2, <2>1 DEF CanTransitionSubmission
<1> QED
  BY <1>1, <1>2

(* A finished build and a finished submission stay as they are. *)
THEOREM Finished == Spec => FinishedStaysFinished
<1> DEFINE Kept == /\ build \in TerminalBuildStates => build' = build
                   /\ submission \in TerminalSubmissionStates => submission' = submission
<1>1. [Next]_vars => [Kept]_vars
  BY TerminalHasNoMove DEF Next, MoveBuild, MoveSubmission, buildVars, submissionVars
<1> QED
  BY <1>1, PTL DEF Spec, FinishedStaysFinished

(* A record that is not terminal can still move, and one that is cannot: the sets of
   terminal states agree with the tables.                                   *)
THEOREM NobodyStranded == Spec => []NeverStranded
<1>1. TypeOK => NeverStranded
  <2> SUFFICES ASSUME TypeOK PROVE NeverStranded
    OBVIOUS
  <2>1. \/ CanTransitionBuild(build, "FAILED") /\ build # "FAILED"
        \/ build \in TerminalBuildStates
    BY DEF CanTransitionBuild, BuildTransitions, AbortStates, TerminalBuildStates
  <2>2. \/ CanTransitionSubmission(submission, "FAILED") /\ submission # "FAILED"
        \/ submission \in TerminalSubmissionStates
    BY DEF TypeOK, SubmissionStates, TerminalSubmissionStates, CanTransitionSubmission,
           SubmissionTransitions
  <2>3. "FAILED" \in BuildStates /\ "FAILED" \in SubmissionStates
    BY DEF BuildStates, SubmissionStates
  <2> QED
    BY <2>1, <2>2, <2>3, TerminalHasNoMove DEF NeverStranded
<1> QED
  BY <1>1, TypeCorrect, PTL

-----------------------------------------------------------------------------

(* What a submission has behind it at each state, SUBMITTING being optional: the
   strengthening that makes ReviewedInOrder inductive.                      *)
Behind ==
    LET past(S, T) == submission \in S => T \subseteq submissionSeen
        reviewed == {"APPROVED", "REJECTED"}
        sent == reviewed \cup {"SUBMITTED"}
        ready == sent \cup {"READY", "SUBMITTING"}
    IN  /\ submission \in submissionSeen
        /\ "QUEUED" \in submissionSeen
        /\ past(ready \cup {"PROCESSING", "UPLOADING"}, {"UPLOADING"})
        /\ past(ready \cup {"PROCESSING"}, {"PROCESSING"})
        /\ past(ready, {"READY"})
        /\ past(sent, {"SUBMITTED"})
        /\ submissionSeen \cap TerminalSubmissionStates \subseteq {submission}

(* The table of submissions, read as the pairs it allows. *)
LEMMA LegalSubmissionMove ==
    ASSUME NEW from \in SubmissionStates, NEW to \in SubmissionTransitions[from]
    PROVE  \/ to = "FAILED"
           \/ from = "QUEUED" /\ to = "UPLOADING"
           \/ from = "UPLOADING" /\ to = "PROCESSING"
           \/ from = "PROCESSING" /\ to = "READY"
           \/ from = "READY" /\ to \in {"SUBMITTING", "SUBMITTED"}
           \/ from = "SUBMITTING" /\ to = "SUBMITTED"
           \/ from = "SUBMITTED" /\ to \in {"APPROVED", "REJECTED"}
  BY DEF SubmissionStates, SubmissionTransitions

LEMMA BehindInductive == TypeOK /\ Behind /\ [Next]_vars => Behind'
<1> SUFFICES ASSUME TypeOK, Behind, [Next]_vars
             PROVE  Behind'
  OBVIOUS
<1> USE DEF buildVars, submissionVars
<1>1. CASE UNCHANGED submissionVars
  BY <1>1 DEF Behind
<1>2. ASSUME NEW to \in SubmissionStates, MoveSubmission(to),
             to # submission, to \in SubmissionTransitions[submission]
      PROVE  Behind'
  <2>1. submission' = to /\ submissionSeen' = submissionSeen \cup {to}
    BY <1>2 DEF MoveSubmission, CanTransitionSubmission
  <2>2. submission \notin TerminalSubmissionStates
    BY <1>2 DEF SubmissionTransitions, TerminalSubmissionStates
  <2>3. submissionSeen' \cap TerminalSubmissionStates \subseteq {submission'}
    BY <2>1, <2>2 DEF Behind
  <2> QED
    BY <1>2, <2>1, <2>3, LegalSubmissionMove DEF Behind, TypeOK
<1>3. CASE \E to \in SubmissionStates :
               MoveSubmission(to) /\ (to = submission \/ to \notin SubmissionTransitions[submission])
  BY <1>1, <1>3 DEF MoveSubmission, Behind, CanTransitionSubmission
<1>4. CASE (\E to \in BuildStates : MoveBuild(to)) \/ UNCHANGED vars
  BY <1>1, <1>4 DEF MoveBuild, vars
<1> QED
  BY <1>2, <1>3, <1>4 DEF Next

(* A reviewed submission was uploaded, processed, ready and submitted before, and
   no submission has two outcomes.                                          *)
THEOREM ReviewComesLast == Spec => []ReviewedInOrder
<1>1. Init => Behind
  BY DEF Init, Behind, TerminalSubmissionStates
<1>2. Behind => ReviewedInOrder
  BY DEF Behind, ReviewedInOrder
<1> QED
  BY <1>1, <1>2, TypeCorrect, BehindInductive, PTL DEF Spec
=============================================================================
