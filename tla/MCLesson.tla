------------------------------ MODULE MCLesson ------------------------------
(***************************************************************************)
(* Both ends of a lesson on small instances: the teacher's two ways to     *)
(* upload its video, and a student's attempt.  A behaviour has one of      *)
(* them; the variables of the other stay None.                             *)
(***************************************************************************)
EXTENDS Naturals, Sequences, TLC

CONSTANTS
    NewLessons,  \* two lessons to upload a video to
    None

VARIABLES
    open,  \* the screen of this behaviour
    rows, store, made, page, quick, panel, flows, lesson, mode, preview,
    draft, attempt, cache, audio, takes, calls, saves, mounts, faults

vars == <<open,
          rows, store, made, page, quick, panel, flows, lesson, mode, preview,
          draft, attempt, cache, audio, takes, calls, saves, mounts, faults>>

SameLessons == Permutations(NewLessons)

\* Three questions, which the server accepts; four after the clamp, which it refuses.
Quantities == {[single |-> 2, listening |-> 1], [single |-> 3, listening |-> 2]}

Question(kind, start) == [kind |-> kind, start |-> start]

\* Between them every kind of question, an early question and a checkpoint of two.
Attempted == {<<Question("single", 0), Question("reading", 1)>>,
              <<Question("multiple", 1), Question("fill", 1)>>,
              <<Question("listening", 1), Question("writing", 2)>>,
              <<Question("single", 0), Question("fill", 0)>>}

Upload == INSTANCE LessonUpload WITH
    Lessons <- NewLessons, Flows <- {1, 2}, KindOptions <- <<"single", "listening">>,
    Typed <- Quantities, MaxQuantity <- 2, MaxCount <- 3, MaxVersions <- 3

Attempt == INSTANCE StudentAttempt WITH
    Items <- {1, 2}, Lessons <- Attempted, Modes <- {"each", "submit", "hidden"},
    Previews <- {FALSE, TRUE}, MaxAttempts <- 2, Calls <- {1}, MaxTakes <- 2,
    MaxMounts <- 2, MaxFaults <- 1

-----------------------------------------------------------------------------
Init ==
    \/ /\ open = "upload" /\ Upload!Init
       /\ lesson = None /\ mode = None /\ preview = None /\ draft = None
       /\ attempt = None /\ cache = None /\ audio = None /\ takes = None
       /\ calls = None /\ saves = None /\ mounts = None /\ faults = None
    \/ /\ open = "attempt" /\ Attempt!Init
       /\ rows = None /\ store = None /\ made = None /\ quick = None
       /\ panel = None /\ flows = None

Next ==
    \/ /\ open = "upload" /\ Upload!Next
       /\ UNCHANGED <<open,
                    lesson, mode, preview, draft, attempt, cache, audio,
                    takes, calls, saves, mounts, faults>>
    \/ /\ open = "attempt" /\ Attempt!Next
       /\ UNCHANGED <<open,
                    rows, store, made, quick, panel, flows>>

Spec == Init /\ [][Next]_vars

-----------------------------------------------------------------------------
\* The shape of the state of each screen.
TypeOK ==
    /\ open = "upload" => Upload!TypeOK
    /\ open = "attempt" => Attempt!TypeOK

\* A lesson's video is in storage, its pipeline has the settings of the dialog,
\* and a screen that shows an upload has one running (VideoIsStored,
\* PipelineIsReady and UploadScreenIsLive of LessonUpload:
\* QuickCreateLessonDialog.tsx, video-upload.tsx, video.go).
UploadHolds == open = "upload" => Upload!UploadHolds

\* An attempt can be submitted when it is finished, and the result shown is a
\* stored one (FinishedHasWayOn and ResultIsStored of StudentAttempt: student-
\* lesson-view.tsx, attempts.go).
AttemptEnds == open = "attempt" => Attempt!AttemptEnds

\* A question is passed with an answer (AnsweredWhenPassed of StudentAttempt:
\* the checkpoints of student-lesson-view.tsx).
AnsweredWhenPassed == open = "attempt" => Attempt!AnsweredWhenPassed

\* Submitting the same again does not use up an attempt (ResubmitIsFree of
\* StudentAttempt: attempts.go).
ResubmitIsFree == [][open = "attempt" => Attempt!FreeOnStep]_vars

\* A refresh in the middle of an attempt keeps the answers (RefreshKeepsAnswers
\* of StudentAttempt: the draft in sessionStorage).
RefreshKeepsAnswers == [][open = "attempt" => Attempt!KeptOnRefresh]_vars

=============================================================================
