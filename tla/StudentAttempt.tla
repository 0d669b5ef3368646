--------------------------- MODULE StudentAttempt ---------------------------
(***************************************************************************)
(* A student's attempt at a lesson: the page StudentLessonView with the    *)
(* answer views of src/typescript/heino/src/interactions, the draft it     *)
(* keeps in sessionStorage, and the handlers SubmitAttempt,                *)
(* SaveAttemptResponse and PreviewGrade of svc/interactions.               *)
(*                                                                         *)
(* One student works in one browser tab.  The video is abstracted to what  *)
(* it does to the attempt: the first play passes the questions without a   *)
(* time, and playback opens the earliest question that is not passed       *)
(* (module StudentPlayer models how).  Questions are numbered in the order *)
(* of order_index.  An answer is a number: 0 is no answer, 1 a wrong one   *)
(* (for a reading question: a recording that was taken back), 2 a right    *)
(* one, and 2 + t the t-th recording.  Points are counted in halves.       *)
(***************************************************************************)
EXTENDS Naturals, FiniteSets

CONSTANTS
    Items,        \* the questions of the lesson
    Lessons,      \* functions Items -> [kind, start]: the lessons considered
    Modes,        \* the feedback modes considered
    Previews,     \* {FALSE}: a student; {TRUE}: a teacher previewing
    MaxAttempts,  \* lesson.max_attempts, 0 for unlimited
    Calls,        \* the SubmitAttempt calls that may be under way at once: a page
                  \* that submits waits for one
    MaxTakes,     \* recordings uploaded in a behaviour
    MaxMounts,    \* page loads and retakes in a behaviour
    MaxFaults     \* failed or lost calls in a behaviour

Kinds == {"single", "multiple", "fill", "listening", "reading", "writing"}

VARIABLES
    lesson,   \* the questions: their kinds and checkpoints
    mode,     \* lesson.feedback_mode
    preview,  \* isPreview: the teacher's ?preview=1
    page,     \* the state of the mounted page
    draft,    \* sessionStorage: the draft of this lesson
    attempt,  \* the row of lesson_attempts with its responses
    cache,    \* the temp_grade entries of FoundationDB
    audio,    \* the recordings that exist in object storage
    takes,    \* recordings uploaded so far
    calls,    \* the SubmitAttempt calls under way
    saves,    \* the SaveAttemptResponse calls under way
    mounts,   \* page loads and retakes so far
    faults    \* failed or lost calls so far

fixed == <<lesson, mode, preview>>
vars  == <<lesson, mode, preview, page, draft, attempt, cache, audio, takes,
           calls, saves, mounts, faults>>

NoItem == 0
NoAnswer == 0
Wrong == 1
Right == 2
Plain == {Wrong, Right}
Takes == 1..MaxTakes
Recording(t) == Right + t
IsRecording(a) == a > Right
Answers == {NoAnswer, Wrong, Right} \cup {Recording(t) : t \in Takes}

Blank == [q \in Items |-> NoAnswer]
Answered(r) == {q \in Items : r[q] # NoAnswer}

KindOf(q) == lesson[q].kind
Start(q)  == lesson[q].start
Early     == {q \in Items : Start(q) = 0}
AIGraded(q) == KindOf(q) \in {"reading", "writing"}

\* What the request holds of an answer: a recording taken back is an empty key.
Payload(q, a) == IF KindOf(q) = "reading" /\ a = Wrong THEN NoAnswer ELSE a

\* The scores a grader may give: the AI decides for speech and essays, and
\* falls back to half a point when it does not answer.
Grades(q, a) ==
    IF a = NoAnswer THEN {0}
    ELSE IF AIGraded(q) THEN {1, 2}
    ELSE IF a = Right THEN {2} ELSE {0}

NoScores == [q \in Items |-> 0]
NoRow    == [count |-> 0, responses |-> Blank, scores |-> NoScores]
NoEntry  == [kept |-> FALSE, payload |-> NoAnswer, score |-> 0]
NoDraft  == [kept |-> FALSE, responses |-> Blank, passed |-> {}]
IdleCall == [at |-> "idle", responses |-> Blank, heard |-> FALSE,
             scores |-> NoScores, inc |-> FALSE, old |-> {}]

----------------------------------------------------------------------------
(* The answer views.                                                       *)

NoView == [on |-> "none", pick |-> NoAnswer, many |-> NoAnswer, sent |-> FALSE,
           clip |-> "none", rec |-> "none", grade |-> "idle"]

\* The component that renders a kind: both choice kinds share one.
ComponentOf(q) == IF KindOf(q) \in {"single", "multiple"} THEN "mcq" ELSE KindOf(q)

\* The inline grading of a reading answer starts when a recording is there.
InlineGrade(q, a) ==
    IF KindOf(q) = "reading" /\ mode = "each" /\ IsRecording(a) THEN "grading" ELSE "idle"

\* A view freshly mounted for question q, whose answer so far is a.
MountView(q, a) ==
    [on    |-> ComponentOf(q),
     pick  |-> IF KindOf(q) \in {"single", "fill", "listening", "writing"} THEN a ELSE NoAnswer,
     many  |-> IF KindOf(q) = "multiple" THEN a ELSE NoAnswer,
     sent  |-> a # NoAnswer,
     clip  |-> IF KindOf(q) = "listening" THEN "loading" ELSE "none",
     rec   |-> IF KindOf(q) # "reading" THEN "none"
               ELSE IF IsRecording(a) THEN "done" ELSE "idle",
     grade |-> InlineGrade(q, a)]

\* The view when a checkpoint goes on to question q: the overlay gives it no
\* key, so React keeps the state of a view when the component is the same.
NextView(v, q, a) ==
    IF v.on = ComponentOf(q) THEN [v EXCEPT !.grade = InlineGrade(q, a)]
    ELSE MountView(q, a)

\* An answer is given: a choice is picked or confirmed, a clip's question
\* picked, blanks or an essay sent.
Chosen(v, q) == IF KindOf(q) = "single" THEN v.pick # NoAnswer ELSE v.sent
HeardAndChosen(v) == v.pick # NoAnswer

\* AFTER_EACH then shows the correct answer and locks the view.
RevealNow(p) ==
    /\ mode = "each"
    /\ CASE KindOf(p.active) \in {"single", "multiple"} -> Chosen(p.view, p.active)
         [] KindOf(p.active) = "listening"              -> HeardAndChosen(p.view)
         [] KindOf(p.active) = "fill"                   -> p.view.sent
         [] OTHER                                       -> FALSE

\* A recording is there and, after AFTER_EACH, its inline grading is over.
RecordedAndGraded(p) ==
    /\ IsRecording(p.responses[p.active])
    /\ mode = "each" => p.view.grade \in {"done", "error"}

\* Mutant: a recording that is not yet uploaded is taken for the answer.
CanContinueRecorded(p) ==
    CASE KindOf(p.active) \in {"single", "multiple"} -> Chosen(p.view, p.active)
      [] KindOf(p.active) = "listening" -> p.view.clip = "ready" /\ HeardAndChosen(p.view)
      [] KindOf(p.active) = "reading"   -> p.view.rec \in {"recorded", "done"}
      [] OTHER                          -> p.view.sent

\* The view offers its continue button.
CanContinue(p) ==
    CASE KindOf(p.active) \in {"single", "multiple"} -> Chosen(p.view, p.active)
      [] KindOf(p.active) = "listening" -> p.view.clip = "ready" /\ HeardAndChosen(p.view)
      [] KindOf(p.active) = "reading"   -> RecordedAndGraded(p)
      [] OTHER                          -> p.view.sent

\* The recorder takes no input once an AFTER_EACH answer is recorded.
RecorderOn(p) == ~(mode = "each" /\ IsRecording(p.responses[p.active]))

----------------------------------------------------------------------------
(* The page, its status card and its result.                               *)

FreshPage ==
    [submitted |-> FALSE, row |-> NoRow, responses |-> Blank, passed |-> {},
     active |-> NoItem, view |-> NoView, stash |-> Blank, autoFired |-> FALSE,
     busy |-> FALSE, error |-> FALSE, saving |-> {}, onlyWrong |-> FALSE]

\* The questions that playback still has to open, and the earliest of them.
Pending(p) == {q \in Items : Start(q) > 0 /\ q \notin p.passed}
Earlier(q, r) == Start(q) < Start(r) \/ (Start(q) = Start(r) /\ q <= r)
First(S) == CHOOSE q \in S : \A r \in S : Earlier(q, r)

\* What follows q in its checkpoint: the questions up to its time not passed.
Cluster(p, q) == {r \in Pending(p) \ {q} : Start(r) <= Start(q)}

AllAnswered(p)   == Items \subseteq p.passed
ReadyToSubmit(p) == AllAnswered(p) /\ ~p.submitted /\ mode # "each"
SubmitOffered(p) == ReadyToSubmit(p) /\ p.active = NoItem /\ ~p.busy

RetryOffered(p) == p.error /\ ~p.submitted /\ ~ReadyToSubmit(p) /\ ~p.busy

CanRetake(p)     == MaxAttempts = 0 \/ p.row.count < MaxAttempts
ShowsDetails     == mode # "hidden"
WrongRows(p)     == {q \in Items : p.row.scores[q] < 2}
OnlyWrongOffered(p) == ShowsDetails /\ WrongRows(p) # {} /\ WrongRows(p) # Items
ReviewRows(p)    == IF p.onlyWrong THEN WrongRows(p) ELSE Items

\* The effect that submits an AFTER_EACH attempt once its last card is closed.
AutoSubmits(p) ==
    /\ mode = "each" /\ p.stash = Blank /\ ~p.autoFired
    /\ ~p.submitted /\ ~p.busy
    /\ AllAnswered(p) /\ p.active = NoItem

\* The effect that mirrors the attempt to sessionStorage.
Persist(p) ==
    IF preview THEN draft
    ELSE IF p.submitted THEN NoDraft
    ELSE IF Answered(p.responses) # {} \/ p.passed # {}
      THEN [kept |-> TRUE, responses |-> p.responses, passed |-> p.passed]
    ELSE draft

\* runSubmit, past its guards: the request for a student, none in preview.
Sent(cs, r) ==
    IF preview THEN {cs}
    ELSE {[cs EXCEPT ![c] = [IdleCall EXCEPT !.at = "sent", !.heard = TRUE,
                                 !.responses = [q \in Items |-> Payload(q, r[q])]]] :
            c \in {d \in Calls : cs[d].at = "idle"}}

\* React renders p over the calls cs and runs the effects; when the handler
\* submits, the request carries r.
Submitting(p, cs, r) ==
    /\ page' = [p EXCEPT !.busy = TRUE, !.error = FALSE]
    /\ draft' = Persist(p)
    /\ calls' \in Sent(cs, r)

Render(p, cs) ==
    IF AutoSubmits(p)
      THEN Submitting([p EXCEPT !.autoFired = TRUE], cs, p.responses)
      ELSE page' = p /\ draft' = Persist(p) /\ calls' = cs

Shows(p) == Render(p, calls)

\* The page as the server renders it: with the result of an earlier attempt.
Loaded(row) ==
    IF preview \/ row.count = 0 THEN FreshPage
    ELSE [FreshPage EXCEPT !.submitted = TRUE, !.row = row,
                           !.responses = row.responses, !.passed = Items]

\* Mutant: a stored result is shown although a newer draft exists.
HasFirstDraft ==
    ~preview /\ draft.kept /\ Answered(draft.responses) # {} /\ attempt.count = 0

\* The hydrate effect: a draft with an answer overrides the result.
HasDraft == ~preview /\ draft.kept /\ Answered(draft.responses) # {}

Hydrated(p) ==
    [p EXCEPT !.submitted = FALSE, !.row = NoRow, !.responses = draft.responses,
              !.passed = IF draft.passed = {} THEN p.passed ELSE draft.passed,
              !.stash = draft.responses]

Init ==
    /\ lesson \in Lessons /\ mode \in Modes /\ preview \in Previews
    /\ page = FreshPage
    /\ draft = NoDraft
    /\ attempt = NoRow
    /\ cache = [q \in Items |-> NoEntry]
    /\ audio = {}
    /\ takes = 0
    /\ calls = [c \in Calls |-> IdleCall]
    /\ saves = [q \in Items |-> 0]
    /\ mounts = 0
    /\ faults = 0

----------------------------------------------------------------------------
(* The student at the player.                                              *)

Stored == <<attempt, cache, audio>>
Bounds == <<takes, mounts, faults>>
Fault  == faults < MaxFaults /\ faults' = faults + 1

\* The first play passes every question without a time.
FirstPlay ==
    /\ Early \ page.passed # {}
    /\ Shows([page EXCEPT !.passed = @ \cup Early])
    /\ UNCHANGED <<fixed, Stored, saves, Bounds>>

\* Playback, a seek or the end of the video opens the earliest pending question.
Surface ==
    /\ ~page.submitted /\ page.active = NoItem /\ Pending(page) # {}
    /\ LET q == First(Pending(page)) IN
         Shows([page EXCEPT !.active = q, !.view = MountView(q, page.responses[q])])
    /\ UNCHANGED <<fixed, Stored, saves, Bounds>>

\* A card is open and its view takes input.
Asked(kinds) == ~page.submitted /\ page.active # NoItem /\ KindOf(page.active) \in kinds

\* The view changes and nothing else does.
ViewBecomes(v) ==
    /\ Shows([page EXCEPT !.view = v])
    /\ UNCHANGED <<fixed, Stored, saves, Bounds>>

\* The view changes and hands answer a to the page.
AnswerBecomes(v, a) ==
    /\ Shows([page EXCEPT !.view = v, !.responses[page.active] = a])
    /\ UNCHANGED <<fixed, Stored, saves>>

Pick(a) ==
    /\ Asked({"single", "listening"}) /\ ~RevealNow(page)
    /\ KindOf(page.active) = "listening" => page.view.clip = "ready"
    /\ AnswerBecomes([page.view EXCEPT !.pick = a], a)
    /\ UNCHANGED Bounds

\* The address of the clip arrives, or does not: then no answer is possible.
ClipArrives ==
    /\ Asked({"listening"}) /\ page.view.clip = "loading"
    /\ ViewBecomes([page.view EXCEPT !.clip = "ready"])

ClipFails ==
    /\ Asked({"listening"}) /\ page.view.clip = "loading"
    /\ Fault /\ Shows([page EXCEPT !.view.clip = "missing"])
    /\ UNCHANGED <<fixed, Stored, saves, takes, mounts>>

Toggle(a) ==
    /\ Asked({"multiple"}) /\ ~page.view.sent /\ page.view.many # a
    /\ ViewBecomes([page.view EXCEPT !.many = a])

Confirm ==
    /\ Asked({"multiple"}) /\ ~page.view.sent /\ page.view.many # NoAnswer
    /\ AnswerBecomes([page.view EXCEPT !.sent = TRUE], page.view.many)
    /\ UNCHANGED Bounds

\* Blanks may still be changed after they are sent, an essay may not.
Type(a) ==
    /\ Asked({"fill", "writing"}) /\ ~RevealNow(page) /\ page.view.pick # a
    /\ IF page.view.sent
         THEN /\ KindOf(page.active) = "fill"
              /\ AnswerBecomes([page.view EXCEPT !.pick = a], a)
              /\ UNCHANGED Bounds
         ELSE ViewBecomes([page.view EXCEPT !.pick = a])

SendTyped ==
    /\ Asked({"fill", "writing"}) /\ ~page.view.sent /\ page.view.pick # NoAnswer
    /\ AnswerBecomes([page.view EXCEPT !.sent = TRUE], page.view.pick)
    /\ UNCHANGED Bounds

\* The recorder: the microphone opens or is refused; the recording is stopped.
Record(opens) ==
    /\ Asked({"reading"}) /\ page.view.rec = "idle" /\ RecorderOn(page)
    /\ Shows([page EXCEPT !.view.rec = IF opens THEN "recording" ELSE "error"])
    /\ IF opens THEN UNCHANGED faults ELSE Fault
    /\ UNCHANGED <<fixed, Stored, saves, takes, mounts>>

StopRecording ==
    /\ Asked({"reading"}) /\ page.view.rec = "recording" /\ RecorderOn(page)
    /\ ViewBecomes([page.view EXCEPT !.rec = "recorded"])

\* The recording is uploaded under a new key; while it is, the view offers
\* nothing, so the upload is one step.
Upload ==
    /\ Asked({"reading"}) /\ page.view.rec = "recorded" /\ RecorderOn(page)
    /\ takes < MaxTakes
    /\ LET a == Recording(takes + 1) IN
         /\ Shows([page EXCEPT !.responses[page.active] = a, !.view.rec = "done",
                               !.view.grade = InlineGrade(page.active, a)])
         /\ audio' = audio \cup {a}
    /\ takes' = takes + 1
    /\ UNCHANGED <<fixed, attempt, cache, saves, mounts, faults>>

UploadFails ==
    /\ Asked({"reading"}) /\ page.view.rec = "recorded" /\ RecorderOn(page)
    /\ Fault /\ Shows([page EXCEPT !.view.rec = "error"])
    /\ UNCHANGED <<fixed, Stored, saves, takes, mounts>>

\* A recording is taken back: the page keeps an answer with an empty key.
ResetRecording ==
    /\ Asked({"reading"}) /\ page.view.rec \in {"recorded", "done"} /\ RecorderOn(page)
    /\ AnswerBecomes([page.view EXCEPT !.rec = "idle", !.grade = "idle"], Wrong)
    /\ UNCHANGED Bounds

\* PreviewGrade answers the inline grading: a grade, which is kept for the
\* submission, a provisional one, which is not, or an error after one retry.
InlineGraded ==
    /\ Asked({"reading"}) /\ page.view.grade = "grading"
    /\ Shows([page EXCEPT !.view.grade = "done"])
    /\ LET q == page.active
           a == page.responses[q] IN
       \/ /\ \E s \in Grades(q, a) :
               cache' = IF preview THEN cache
                        ELSE [cache EXCEPT ![q] = [kept |-> TRUE, payload |-> a, score |-> s]]
          /\ UNCHANGED faults
       \/ Fault /\ UNCHANGED cache
    /\ UNCHANGED <<fixed, attempt, audio, saves, takes, mounts>>

InlineFails ==
    /\ Asked({"reading"}) /\ page.view.grade = "grading"
    /\ Fault /\ Shows([page EXCEPT !.view.grade = "error"])
    /\ UNCHANGED <<fixed, Stored, saves, takes, mounts>>

\* handleContinue: the answer is saved, the question passed, and the next one
\* of the checkpoint opened.
SavesDraft(q) == ~preview /\ ~(KindOf(q) = "reading" /\ mode = "each")

Continue ==
    /\ Asked(Kinds) /\ CanContinue(page) /\ page.active \notin page.saving
    /\ LET q    == page.active
           rest == Cluster(page, q)
           next == IF rest = {} THEN NoItem ELSE First(rest)
       IN
       /\ SavesDraft(q) => saves[q] = 0
       /\ Shows([page EXCEPT
                   !.passed = @ \cup {q},
                   !.active = next,
                   !.view = IF next = NoItem THEN NoView
                            ELSE NextView(page.view, next, page.responses[next]),
                   !.saving = IF SavesDraft(q) THEN @ \cup {q} ELSE @])
       /\ saves' = IF SavesDraft(q)
                     THEN [saves EXCEPT ![q] = 1 + Payload(q, page.responses[q])]
                     ELSE saves
    /\ UNCHANGED <<fixed, Stored, Bounds>>

\* SaveAttemptResponse grades the answer and keeps the grade; a grader that
\* fails leaves the provisional half point.  The page may have been left.
SaveEnds(q) ==
    /\ saves[q] # 0
    /\ \E s \in Grades(q, saves[q] - 1) \cup {1} :
         /\ cache' = [cache EXCEPT ![q] = [kept |-> TRUE, payload |-> saves[q] - 1, score |-> s]]
         /\ IF s \in Grades(q, saves[q] - 1) THEN UNCHANGED faults ELSE Fault
    /\ saves' = [saves EXCEPT ![q] = 0]
    /\ Shows([page EXCEPT !.saving = @ \ {q}])
    /\ UNCHANGED <<fixed, attempt, audio, takes, mounts>>

SaveFails(q) ==
    /\ saves[q] # 0 /\ Fault
    /\ saves' = [saves EXCEPT ![q] = 0]
    /\ Shows([page EXCEPT !.saving = @ \ {q}, !.error = @ \/ q \in page.saving])
    /\ UNCHANGED <<fixed, Stored, takes, mounts>>

----------------------------------------------------------------------------
(* Submitting, and what follows.                                           *)

Submit ==
    /\ SubmitOffered(page)
    /\ Submitting(page, calls, page.responses)
    /\ UNCHANGED <<fixed, Stored, saves, Bounds>>

\* "Submit again" after a failure: the restored draft, if there was one.
RetryResponses(p) == IF p.stash # Blank THEN p.stash ELSE p.responses

Retry ==
    /\ RetryOffered(page)
    /\ Submitting(page, calls, RetryResponses(page))
    /\ UNCHANGED <<fixed, Stored, saves, Bounds>>

\* A preview is graded in the page and stored nowhere; speech by PreviewGrade,
\* an essay not at all.
LocalScores(q, a) ==
    IF KindOf(q) = "writing" THEN {0}
    ELSE IF KindOf(q) = "reading" /\ a # NoAnswer THEN {0, 1, 2}
    ELSE Grades(q, a)

PreviewGraded ==
    /\ preview /\ page.busy
    /\ \E scores \in [Items -> 0..2] :
         /\ \A q \in Items : scores[q] \in LocalScores(q, page.responses[q])
         /\ Shows([page EXCEPT !.busy = FALSE, !.submitted = TRUE, !.onlyWrong = FALSE,
                               !.row = [count |-> mounts + 1, responses |-> page.responses,
                                        scores |-> scores]])
    /\ UNCHANGED <<fixed, Stored, saves, Bounds>>

\* SubmitAttempt refuses a student whose attempts are used up.
SubmitCheck(c) ==
    /\ calls[c].at = "sent"
    /\ calls' = [calls EXCEPT ![c].at =
         IF MaxAttempts > 0 /\ attempt.count >= MaxAttempts THEN "refused" ELSE "checked"]
    /\ UNCHANGED <<fixed, page, draft, Stored, saves, Bounds>>

\* Every answer is graded, unless a kept grade is for the same answer; then the
\* stored attempt is read to see whether this one counts.
KeptGrade(q, a) == cache[q].kept /\ cache[q].payload = a

\* Mutant: every submission counts.
CountsAlways(r, scores) == TRUE

Counts(r, scores) ==
    \/ attempt.count = 0
    \/ scores # attempt.scores
    \/ r # attempt.responses

Grade(c) ==
    /\ calls[c].at = "checked"
    /\ \E scores \in [Items -> 0..2] :
         /\ \A q \in Items :
              LET a == calls[c].responses[q] IN
              scores[q] \in IF KeptGrade(q, a) THEN {cache[q].score} ELSE Grades(q, a)
         /\ calls' = [calls EXCEPT ![c].at = "graded", ![c].scores = scores,
                        ![c].inc = Counts(calls[c].responses, scores),
                        ![c].old = {attempt.responses[q] : q \in Items} \cap audio]
    /\ UNCHANGED <<fixed, page, draft, Stored, saves, Bounds>>

\* The attempt is written; the kept grades and the recordings of the attempt
\* before are deleted behind the answer.
Commit(c) ==
    /\ calls[c].at = "graded"
    /\ attempt' = [count     |-> attempt.count + (IF calls[c].inc THEN 1 ELSE 0),
                   responses |-> calls[c].responses,
                   scores    |-> calls[c].scores]
    /\ cache' = [q \in Items |-> NoEntry]
    /\ audio' = audio \ calls[c].old
    /\ calls' = [calls EXCEPT ![c].at = "done"]
    /\ UNCHANGED <<fixed, page, draft, saves, Bounds>>

\* Mutants: the count shown is the page's own; the page stays pending.
ReplyCounted(c) ==
    /\ calls[c].at = "done" /\ calls[c].heard
    /\ Render([page EXCEPT !.busy = FALSE, !.submitted = TRUE, !.onlyWrong = FALSE,
                           !.row = [attempt EXCEPT !.count = mounts + 1]],
              [calls EXCEPT ![c] = IdleCall])
    /\ UNCHANGED <<fixed, Stored, saves, Bounds>>

\* The page hears that its attempt is stored and shows it.
Reply(c) ==
    /\ calls[c].at = "done" /\ calls[c].heard
    /\ Render([page EXCEPT !.busy = FALSE, !.submitted = TRUE, !.row = attempt,
                           !.onlyWrong = FALSE],
              [calls EXCEPT ![c] = IdleCall])
    /\ UNCHANGED <<fixed, Stored, saves, Bounds>>

\* The page hears a refusal, or hears nothing of a call whatever it did.
Failed(c) ==
    Render([page EXCEPT !.busy = FALSE, !.error = TRUE], [calls EXCEPT ![c] = IdleCall])

ReplyRefused(c) ==
    /\ calls[c].at = "refused" /\ calls[c].heard
    /\ Failed(c)
    /\ UNCHANGED <<fixed, Stored, saves, Bounds>>

ReplyLost(c) ==
    /\ calls[c].at \in {"sent", "checked", "graded", "done"} /\ calls[c].heard
    /\ Fault /\ Failed(c)
    /\ UNCHANGED <<fixed, Stored, saves, takes, mounts>>

\* A call nobody waits for ends, finished or cancelled with its connection.
Abandoned(c) ==
    /\ calls[c].at # "idle" /\ ~calls[c].heard
    /\ calls' = [calls EXCEPT ![c] = IdleCall]
    /\ UNCHANGED <<fixed, page, draft, Stored, saves, Bounds>>

\* "Do it again": everything of the attempt but the restored draft is dropped.
Retake ==
    /\ page.submitted /\ CanRetake(page) /\ mounts < MaxMounts
    /\ page' = [FreshPage EXCEPT !.stash = page.stash, !.saving = page.saving]
    /\ draft' = IF preview THEN draft ELSE NoDraft
    /\ mounts' = mounts + 1
    /\ UNCHANGED <<fixed, calls, Stored, saves, takes, faults>>

ToggleOnlyWrong ==
    /\ page.submitted /\ OnlyWrongOffered(page)
    /\ Shows([page EXCEPT !.onlyWrong = ~@])
    /\ UNCHANGED <<fixed, Stored, saves, Bounds>>

\* The page is loaded again; calls go on without it.
Unheard == [c \in Calls |-> [calls[c] EXCEPT !.heard = FALSE]]

Reload ==
    /\ mounts < MaxMounts
    /\ IF HasDraft
         THEN Submitting(Hydrated(Loaded(attempt)), Unheard, draft.responses)
         ELSE Render(Loaded(attempt), Unheard)
    /\ mounts' = mounts + 1
    /\ UNCHANGED <<fixed, Stored, saves, takes, faults>>

Next ==
    \/ FirstPlay \/ Surface \/ Continue
    \/ \E a \in Plain : Pick(a) \/ Toggle(a) \/ Type(a)
    \/ Confirm \/ SendTyped \/ ClipArrives \/ ClipFails
    \/ \E b \in BOOLEAN : Record(b)
    \/ StopRecording \/ Upload \/ UploadFails \/ ResetRecording
    \/ InlineGraded \/ InlineFails
    \/ \E q \in Items : SaveEnds(q) \/ SaveFails(q)
    \/ Submit \/ Retry \/ PreviewGraded
    \/ \E c \in Calls : \/ SubmitCheck(c) \/ Grade(c) \/ Commit(c)
                        \/ Reply(c) \/ ReplyRefused(c) \/ ReplyLost(c) \/ Abandoned(c)
    \/ Retake \/ ToggleOnlyWrong \/ Reload

Spec == Init /\ [][Next]_vars

----------------------------------------------------------------------------
(* Properties.                                                             *)

AnswerMaps == [Items -> Answers]
Rows == [count : 0..(MaxMounts + MaxFaults + 1), responses : AnswerMaps, scores : [Items -> 0..2]]

\* The shape of the attempt: the page of student-lesson-view.tsx and the rows
\* SubmitAttempt writes.  Deep consistency is left to the properties below.
TypeOK ==
    /\ page.row \in Rows /\ attempt \in Rows
    /\ {page.responses, page.stash, draft.responses} \subseteq AnswerMaps
    /\ page.passed \subseteq Items /\ page.saving \subseteq Items
    /\ page.active \in Items \cup {NoItem}
    /\ page.active # NoItem => page.view.on # "none"
    /\ page.busy => ~page.submitted
    /\ audio \subseteq {Recording(t) : t \in 1..takes}
    /\ \A c \in Calls : calls[c].at \in {"idle", "sent", "checked", "graded", "done", "refused"}

\* What a student is shown as the result is the attempt that is stored, or an
\* older one when a submission of a page that was left has landed since; and the
\* review of a shown result lists at least one question.
ResultIsStored ==
    page.submitted =>
        /\ preview \/ page.row = attempt \/ page.row.count < attempt.count
        /\ ShowsDetails => ReviewRows(page) # {}

\* A resubmission that changes no answer and no score does not use up an
\* attempt ("No-op resubmits must not burn an attempt", attempts.go), also when
\* the answer to the first one was lost, and no one gets past the limit.
FreeOnStep ==
    /\ attempt'.count > attempt.count =>
         \/ attempt.count = 0
         \/ attempt'.responses # attempt.responses
         \/ attempt'.scores # attempt.scores
    /\ attempt' # attempt /\ MaxAttempts > 0 => attempt'.count <= MaxAttempts
ResubmitIsFree == [][FreeOnStep]_vars

\* The gate holds: a timed question is passed only with an answer of its own
\* (InteractionCheckpoint under handleContinue of student-lesson-view.tsx).  A
\* page that finalises a restored draft is left out: when an earlier attempt is
\* stored and the draft passed nothing, it starts with everything passed.
AnsweredWhenPassed ==
    (~page.submitted /\ page.stash = Blank) =>
        \A q \in page.passed : Start(q) > 0 => page.responses[q] # NoAnswer

\* Everything is answered, no card is open and nothing is under way: there is a
\* button to submit with (the status card), except that an AFTER_EACH attempt
\* retaken after a restored draft has none: autoSubmitDraft is never cleared.
FinishedHasWayOn ==
    (AllAnswered(page) /\ ~page.submitted /\ page.active = NoItem /\ ~page.busy) =>
        \/ SubmitOffered(page) \/ RetryOffered(page)
        \/ mode = "each" /\ page.stash # Blank

\* An attempt comes to an end that is the stored one: there is a way to submit it,
\* and the result shown afterwards is a stored result (student-lesson-view.tsx).
AttemptEnds == FinishedHasWayOn /\ ResultIsStored

\* A refresh in the middle of an attempt keeps every answer and submits it
\* (the hydrate and auto-submit effects of student-lesson-view.tsx).
KeptOnRefresh ==
    mounts' # mounts /\ ~page.submitted /\ ~preview /\ Answered(page.responses) # {} =>
        page'.responses = page.responses /\ page'.busy
RefreshKeepsAnswers == [][KeptOnRefresh]_vars
=============================================================================
