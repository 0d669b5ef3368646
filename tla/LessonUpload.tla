----------------------------- MODULE LessonUpload -----------------------------
(***************************************************************************)
(* How a lesson gets its video.  Two screens of one browser tab do it: the *)
(* quick-create dialog (create the lesson, save its settings, upload, start *)
(* the pipeline) and the upload panel of the lesson page.  Each submission *)
(* is a chain of awaited calls (a flow); nothing stops a second one from   *)
(* being started while the first still waits, and a page that is left only *)
(* drops the client's half of the calls in flight.                         *)
(***************************************************************************)
EXTENDS Naturals, FiniteSets, SequencesExt

CONSTANTS
    Lessons,     \* lesson ids
    Flows,       \* bound: submissions running at a time
    KindOptions, \* the kinds of question, in the order of the grid
    Typed,       \* bound: the quantities a user types into the grid
    MaxQuantity, \* most questions of one kind (8)
    MaxCount,    \* most questions per chunk the server accepts (20)
    MaxVersions, \* bound: object keys ever made
    None         \* no row, no video, no lesson, no submission

Objects == 1..MaxVersions
Positions == 1..Len(KindOptions)
Kinds == {KindOptions[p] : p \in Positions}

VARIABLES
    rows,   \* lesson -> its row, None before it is created
    store,  \* the video objects in storage
    made,   \* object keys made so far
    page,   \* the lesson of the page (None: the course page), has it the trigger
    quick,  \* the quick-create dialog
    panel,  \* the upload panel of the lesson page
    flows   \* flow -> the submission, None when idle

vars == <<rows, store, made, page, quick, panel, flows>>

-----------------------------------------------------------------------------
(* The grid of quantities, and what the server makes of it.                *)

EmptyQuantities == [k \in Kinds |-> 0]

TotalQuantity(q) == FoldFunction(+, 0, q)

ToKindsList(q) ==
    FlattenSeq([p \in Positions |-> [i \in 1..q[KindOptions[p]] |-> KindOptions[p]]])

\* Mutant of ClampQuantity: only the lower end is clamped.
ClampLow(n) == n

ClampQuantity(n) == IF n > MaxQuantity THEN MaxQuantity ELSE n

\* resolveGenerationPlan, even distribution: walk the count over the kinds.
EvenCounts(kinds, count) ==
    LET asked == IF kinds = <<>> THEN <<KindOptions[1]>> ELSE kinds
        n     == IF count = 0 THEN 1 ELSE count
    IN  [k \in Kinds |-> Cardinality({i \in 0..(n - 1) : asked[(i % Len(asked)) + 1] = k})]

\* fromConfig: what the grid shows for a saved list of kinds and count.
FromConfig(kinds, count) ==
    LET tally == [k \in Kinds |-> Cardinality({i \in DOMAIN kinds : kinds[i] = k})]
        uniq  == SelectSeq(KindOptions, LAMBDA k : tally[k] > 0)
        place(k) == CHOOSE i \in DOMAIN uniq : uniq[i] = k
    IN  IF Len(kinds) = count \/ uniq = <<>> THEN tally
        ELSE [k \in Kinds |-> IF tally[k] = 0 THEN 0
                              ELSE count \div Len(uniq)
                                   + (IF place(k) <= count % Len(uniq) THEN 1 ELSE 0)]

-----------------------------------------------------------------------------

NewRow == [video |-> None, saved |-> FALSE, tasks |-> {}]
ClosedForm == [open |-> FALSE, phase |-> "form", file |-> FALSE,
               quantities |-> EmptyQuantities, lesson |-> None]
FreshPanel == [busy |-> FALSE, done |-> FALSE, error |-> FALSE]

\* The course page; the page of a lesson without a video; of one with a video.
Init ==
    /\ \/ /\ rows = [l \in Lessons |-> None]
          /\ page = [lesson |-> None, trigger |-> TRUE]
          /\ made = 0
       \/ \E l \in Lessons :
            /\ rows = [x \in Lessons |-> IF x = l THEN NewRow ELSE None]
            /\ page = [lesson |-> l, trigger |-> TRUE]
            /\ made = 0
       \/ \E l \in Lessons :
            /\ rows = [x \in Lessons |-> IF x = l THEN [NewRow EXCEPT !.video = 1] ELSE None]
            /\ page = [lesson |-> l, trigger |-> FALSE]
            /\ made = 1
    /\ store = 1..made
    /\ quick = ClosedForm
    /\ panel = FreshPanel
    /\ flows = [f \in Flows |-> None]

Active(f) == flows[f] # None
Here(f) == Active(f) /\ flows[f].here
At(f, where) == Here(f) /\ flows[f].at = where
Goto(f, where) == flows' = [flows EXCEPT ![f].at = where]
End(f) == flows' = [flows EXCEPT ![f] = None]

-----------------------------------------------------------------------------
(* The dialog.                                                             *)

OpenDialog ==
    /\ page.trigger /\ ~quick.open
    /\ quick' = [quick EXCEPT !.open = TRUE]
    /\ UNCHANGED <<rows, store, made, page, panel, flows>>

SelectVideoFile(chosen) ==
    /\ quick.open /\ quick.phase = "form"
    /\ quick' = [quick EXCEPT !.file = chosen]
    /\ UNCHANGED <<rows, store, made, page, panel, flows>>

SetQuantities(typed) ==
    /\ quick.open /\ quick.phase = "form"
    /\ quick' = [quick EXCEPT !.quantities = [k \in Kinds |-> ClampQuantity(typed[k])]]
    /\ UNCHANGED <<rows, store, made, page, panel, flows>>

\* Closing resets the form; an upload cannot be closed.
CloseDialog ==
    /\ quick.open /\ quick.phase # "uploading"
    /\ quick' = ClosedForm
    /\ UNCHANGED <<rows, store, made, page, panel, flows>>

RetryForm ==
    /\ quick.open /\ quick.phase = "error"
    /\ quick' = [quick EXCEPT !.phase = "form"]
    /\ UNCHANGED <<rows, store, made, page, panel, flows>>

CanSubmit == quick.file /\ TotalQuantity(quick.quantities) > 0

\* No flag keeps a second submission out while the first is still creating
\* the lesson or saving its settings: the phase is "form" until then.
HandleSubmit(f) ==
    /\ quick.open /\ quick.phase = "form" /\ CanSubmit
    /\ ~Active(f)
    /\ flows' = [flows EXCEPT ![f] =
          [kind |-> "quick", here |-> TRUE, lesson |-> page.lesson, key |-> None, old |-> None,
           at |-> IF page.lesson = None THEN "create" ELSE "settings",
           asked |-> quick.quantities]]
    /\ UNCHANGED <<rows, store, made, page, quick, panel>>

\* A full navigation: the tab's flows lose their client half.
GoToProcessing(l, running) ==
    /\ page' = [lesson |-> l, trigger |-> rows[l].video = None]
    /\ quick' = ClosedForm
    /\ panel' = FreshPanel
    /\ flows' = [f \in Flows |->
          IF running[f] # None /\ running[f].at \in {"fetched", "committed"}
          THEN [running[f] EXCEPT !.here = FALSE] ELSE None]

ViewLesson ==
    /\ quick.open /\ quick.phase = "error"
    /\ GoToProcessing(quick.lesson, flows)
    /\ UNCHANGED <<rows, store, made>>

-----------------------------------------------------------------------------
(* The flow of the dialog.  A call that fails may have been done.          *)

\* A failure before the upload: only the form's message.
FormError(f) == End(f) /\ UNCHANGED quick

CreateLesson(f) ==
    /\ At(f, "create")
    /\ \/ \E l \in Lessons :
            /\ rows[l] = None
            /\ rows' = [rows EXCEPT ![l] = NewRow]
            /\ \/ /\ flows' = [flows EXCEPT ![f].lesson = l, ![f].at = "settings"]
                  /\ UNCHANGED quick
               \/ FormError(f)
       \/ FormError(f) /\ UNCHANGED rows
    /\ UNCHANGED <<store, made, page, panel>>

\* updateLesson, then updateLessonFeedbackMode, then the upload screen.
SaveSettings(f) ==
    /\ At(f, "settings")
    /\ \/ /\ rows' = [rows EXCEPT ![flows[f].lesson].saved = TRUE]
          /\ \/ Goto(f, "url") /\ quick' = [quick EXCEPT !.phase = "uploading"]
             \/ FormError(f)
       \/ FormError(f) /\ UNCHANGED rows
    /\ UNCHANGED <<store, made, page, panel>>

\* What the screen of a flow shows when one of its later calls fails.
UploadError(f) ==
    IF flows[f].kind = "quick"
    THEN quick' = [quick EXCEPT !.phase = "error", !.lesson = flows[f].lesson] /\ UNCHANGED panel
    ELSE panel' = [panel EXCEPT !.busy = FALSE, !.error = TRUE] /\ UNCHANGED quick

GetUploadUrl(f) ==
    /\ At(f, "url")
    /\ \/ /\ made < MaxVersions
          /\ made' = made + 1
          /\ flows' = [flows EXCEPT ![f].at = "put", ![f].key = made + 1]
          /\ UNCHANGED <<quick, panel>>
       \/ End(f) /\ UploadError(f) /\ UNCHANGED made
    /\ UNCHANGED <<rows, store, page>>

Progress(f) ==
    /\ At(f, "put") /\ flows[f].kind = "quick"
    /\ quick' = [quick EXCEPT !.phase = "uploading"]
    /\ UNCHANGED <<rows, store, made, page, panel, flows>>

PutVideo(f) ==
    /\ At(f, "put")
    /\ \/ /\ store' = store \cup {flows[f].key}
          /\ \/ Goto(f, "video") /\ UNCHANGED <<quick, panel>>
             \/ End(f) /\ UploadError(f)
       \/ End(f) /\ UploadError(f) /\ UNCHANGED store
    /\ UNCHANGED <<rows, made, page>>

-----------------------------------------------------------------------------
(* updateLessonVideo on the server: read, transaction, removal.            *)

\* Mutant of FetchLesson: the old object goes before the transaction.
FetchRemoves(f) ==
    LET old == rows[flows[f].lesson].video IN
    /\ At(f, "video") /\ flows[f].key \in store
    /\ flows' = [flows EXCEPT ![f].at = "fetched", ![f].old = old]
    /\ store' = store \ {old}
    /\ UNCHANGED <<rows, made, page, quick, panel>>

FetchLesson(f) ==
    /\ At(f, "video") /\ flows[f].key \in store
    /\ flows' = [flows EXCEPT ![f].at = "fetched", ![f].old = rows[flows[f].lesson].video]
    /\ UNCHANGED <<rows, store, made, page, quick, panel>>

\* The new key, and with an old video the lesson's tasks are wiped.
CommitVideo(f) ==
    LET l == flows[f].lesson IN
    /\ Active(f) /\ flows[f].at = "fetched"
    /\ rows' = [rows EXCEPT ![l].video = flows[f].key,
                            ![l].tasks = IF flows[f].old # None THEN {} ELSE @]
    /\ Goto(f, "committed")
    /\ UNCHANGED <<store, made, page, quick, panel>>

RemoveOld(f) == store' = store \ {flows[f].old}

\* The reply: the dialog goes on to the pipeline, the panel is refreshed.
VideoSaved(f) ==
    /\ Active(f) /\ flows[f].at = "committed"
    /\ RemoveOld(f)
    /\ IF ~flows[f].here THEN End(f) /\ UNCHANGED <<page, panel>>
       ELSE IF flows[f].kind = "quick" THEN Goto(f, "start") /\ UNCHANGED <<page, panel>>
       ELSE /\ End(f)
            /\ panel' = [panel EXCEPT !.busy = FALSE, !.done = TRUE]
            /\ page' = [page EXCEPT !.trigger = FALSE]
    /\ UNCHANGED <<rows, made, quick>>

\* The transaction, or the call before or after it, fails.
VideoFails(f) ==
    /\ Active(f) /\ flows[f].at \in {"video", "fetched", "committed"}
    /\ IF flows[f].at = "committed" THEN RemoveOld(f) ELSE UNCHANGED store
    /\ End(f)
    /\ IF flows[f].here THEN UploadError(f) ELSE UNCHANGED <<quick, panel>>
    /\ UNCHANGED <<rows, made, page>>

-----------------------------------------------------------------------------

\* What the dialog asks of StartLessonTask: the kinds one by one, and their number.
Task(f) == [kinds |-> ToKindsList(flows[f].asked), count |-> TotalQuantity(flows[f].asked),
            asked |-> flows[f].asked]

\* Refused when the number is more than the server accepts; an active task of
\* the lesson keeps a second one out.
StartPipeline(f) ==
    LET l == flows[f].lesson IN
    /\ At(f, "start")
    /\ \/ /\ Task(f).count <= MaxCount
          /\ rows' = [rows EXCEPT ![l].tasks = IF @ = {} THEN {Task(f)} ELSE @]
          /\ \/ GoToProcessing(l, [flows EXCEPT ![f] = None])
             \/ End(f) /\ UploadError(f) /\ UNCHANGED page
       \/ End(f) /\ UploadError(f) /\ UNCHANGED <<rows, page>>
    /\ UNCHANGED <<store, made>>

\* The panel: a file is dropped or chosen; busy hides the drop zone.
HandleFile(f) ==
    /\ page.lesson # None /\ ~panel.busy /\ ~quick.open
    /\ ~Active(f)
    /\ panel' = [busy |-> TRUE, done |-> FALSE, error |-> FALSE]
    /\ flows' = [flows EXCEPT ![f] =
          [kind |-> "panel", here |-> TRUE, lesson |-> page.lesson, key |-> None, old |-> None,
           at |-> "url", asked |-> EmptyQuantities]]
    /\ UNCHANGED <<rows, store, made, page, quick>>

Next ==
    \/ OpenDialog \/ CloseDialog \/ RetryForm \/ ViewLesson
    \/ \E chosen \in BOOLEAN : SelectVideoFile(chosen)
    \/ \E typed \in Typed : SetQuantities(typed)
    \/ \E f \in Flows :
         \/ HandleSubmit(f) \/ CreateLesson(f) \/ SaveSettings(f)
         \/ GetUploadUrl(f) \/ Progress(f) \/ PutVideo(f)
         \/ FetchLesson(f) \/ CommitVideo(f) \/ VideoSaved(f) \/ VideoFails(f)
         \/ StartPipeline(f) \/ HandleFile(f)

Spec == Init /\ [][Next]_vars

-----------------------------------------------------------------------------

Steps == {"create", "settings", "url", "put", "video", "fetched", "committed", "start"}
Quantities == [Kinds -> 0..MaxQuantity]

\* Every row, screen and submission stays inside the values the code gives it.
TypeOK ==
    /\ \A l \in Lessons : rows[l] # None =>
         /\ rows[l].video \in Objects \cup {None} /\ rows[l].saved \in BOOLEAN
         /\ \A t \in rows[l].tasks : t.asked \in Quantities /\ t.count \in 0..MaxCount
    /\ store \subseteq Objects /\ made \in 0..MaxVersions
    /\ page \in [lesson : Lessons \cup {None}, trigger : BOOLEAN]
    /\ quick \in [open : BOOLEAN, phase : {"form", "uploading", "error"}, file : BOOLEAN,
                  quantities : Quantities, lesson : Lessons \cup {None}]
    /\ panel \in [busy : BOOLEAN, done : BOOLEAN, error : BOOLEAN]
    /\ \A f \in Flows : Active(f) =>
         flows[f] \in [kind : {"quick", "panel"}, here : BOOLEAN, lesson : Lessons \cup {None},
                       key : Objects \cup {None}, old : Objects \cup {None}, at : Steps,
                       asked : Quantities]

\* A lesson's video key names an object that is in storage, whatever uploads
\* to it overlap, fail half way or outlive the page that started them
\* (UpdateLessonVideo removes the old object only after its transaction).
VideoIsStored ==
    \A l \in Lessons : rows[l] # None /\ rows[l].video # None => rows[l].video \in store

\* A pipeline task is only ever on a lesson with a video and with the settings
\* of the dialog saved before it (handleSubmit's step 2, "before starting the
\* pipeline"), and asks for the quantities of the grid: the server's even
\* distribution and the grid that reopens on the saved list both give them back.
PipelineIsReady ==
    \A l \in Lessons : rows[l] # None => \A t \in rows[l].tasks :
        /\ rows[l].video # None /\ rows[l].saved
        /\ EvenCounts(t.kinds, t.count) = t.asked
        /\ FromConfig(t.kinds, t.count) = t.asked

\* A screen that shows an upload has one running: the dialog refuses to close
\* and the panel hides its drop zone until then, so either would be stuck.
UploadScreenIsLive ==
    /\ quick.phase = "uploading" =>
         \E f \in Flows : Here(f) /\ flows[f].kind = "quick" /\ flows[f].at \notin {"create", "settings"}
    /\ panel.busy => \E f \in Flows : Here(f) /\ flows[f].kind = "panel"

\* What an upload leaves, whoever made it and however it ended: the object, the
\* pipeline and the screen (QuickCreateLessonDialog.tsx, video-upload.tsx).
UploadHolds == VideoIsStored /\ PipelineIsReady /\ UploadScreenIsLive
=============================================================================
