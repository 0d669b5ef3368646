---------------------------- MODULE LessonAnalysis ----------------------------
(***************************************************************************)
(* The teacher's "Xử lý" screen of a lesson in the web client: the hooks   *)
(* useLessonTasks (task list poller), useAnalysisTaskTracker (what a new   *)
(* task list does to the screen) and useLessonAnalysisState (buttons, run  *)
(* states, local copies of the content), over the AI service they call.    *)
(*                                                                         *)
(* One browser thread: a handler, or a render with the effects it starts,  *)
(* is one action.  Everything awaited is a message: a task list on its way *)
(* (replies), one waiting for the animation frame (frame), an analysis     *)
(* being loaded (loads), a start call (rpc), a retry timer (retry).  The   *)
(* service reads its tables in the step that creates the answer, and the   *)
(* answer is used in a later one.                                          *)
(*                                                                         *)
(* Content is abstracted to who wrote it: 0 is "none", Old is content from *)
(* before the page was opened, t is content written by task t.             *)
(***************************************************************************)
EXTENDS Naturals, FiniteSets, Sequences, SequencesExt

CONSTANTS
    N,           \* at most N tasks are ever created for the lesson
    Kinds,       \* the kinds of task started here
    MaxReplies,  \* task lists on their way or waiting for a frame
    OtherTab,    \* BOOLEAN: another tab or teacher starts tasks too
    Overtaking,  \* BOOLEAN: the answer of a read may overtake that of an earlier one
    Lossy,       \* BOOLEAN: a call may fail (one does, at any point)
    MaxVisits,   \* clicks on the stepper
    Openings     \* the situations in which the page may be opened

ASSUME AnalysisConstants ==
    /\ N \in Nat \ {0} /\ MaxReplies \in Nat \ {0} /\ MaxVisits \in Nat /\ {OtherTab, Overtaking, Lossy} \subseteq BOOLEAN
    /\ Kinds \subseteq {"extract", "chunk", "generate", "pipeline"}
    /\ Openings \subseteq {"fresh", "extracted", "ready", "extracting", "piping", "failed"}

VARIABLES
    tasks,    \* the lesson's task rows
    content,  \* transcript, chunks and interactions the service stores
    list,     \* tasks of the poller's state: the list the screen works with
    replies,  \* task lists on their way to the browser
    frame,    \* the list waiting for requestAnimationFrame, or NoList
    ui,       \* run states, local content, stepper and refs of the hooks
    loads,    \* analyses being loaded
    rpc,      \* the StartLessonTask call in flight
    cancels,  \* tasks a CancelLessonTask call is on its way for
    retry,    \* the kind a retry button's 500 ms timer will start, or "none"
    upset     \* 1 once a call has failed or another tab has started a task

poller == <<list, replies, frame>>
calls == <<rpc, cancels, retry, upset>>
vars == <<tasks, content, list, replies, frame, ui, loads, rpc, cancels, retry, upset>>

Tasks == 1..N
Old == N + 1
Version == 0..Old

Active == {"queued", "running"}
Terminal == {"succeeded", "failed", "canceled"}

\* The rows in the order of ListTasksByLesson, newest first.
NewestFirst == [i \in Tasks |-> N + 1 - i]

NoTask == [kind |-> "none", status |-> "none", stage |-> ""]
NoRows == [t \in Tasks |-> NoTask]
NoList == <<>>
NoCall == [kind |-> "none", at |-> "idle", task |-> 0, list |-> NoList]

Unread == [status |-> "unread"]

(***************************************************************************)
(* The AI service                                                          *)
(***************************************************************************)

Latest(ts, kinds) ==
    LET S == {t \in Tasks : ts[t].kind \in kinds} IN
    IF S = {} THEN NoTask ELSE ts[CHOOSE t \in S : \A u \in S : u <= t]

\* transcriptInvalidated: the newest transcript-producing task failed before
\* its transcript was written.
Invalidated(ts) ==
    LET r == Latest(ts, {"extract", "pipeline"}) IN
    /\ r.status = "failed"
    /\ r.kind = "pipeline" => r.stage = ""

\* deriveAnalysisFromTasks and the projection of GetLessonAnalysis.
Derived(ts) ==
    LET ex == Latest(ts, {"extract"}).status
        ch == Latest(ts, {"chunk"}).status
        gn == Latest(ts, {"generate"}).status
        pi == Latest(ts, {"pipeline"}).status
        upstream == Invalidated(ts) \/ ch = "failed"
        steps == CASE Invalidated(ts) -> "error"
                   [] ch = "succeeded" -> "chunks_ready"
                   [] ex = "succeeded" -> "transcript_extracted"
                   [] ch = "failed" /\ ex # "running" -> "error"
                   [] OTHER -> "pending"
        whole == IF gn = "succeeded" /\ ~upstream THEN "done" ELSE steps
    IN CASE pi = "succeeded" /\ ~upstream -> "done"
         [] pi \in Active /\ whole = "pending" -> "processing"
         [] pi = "failed" /\ whole = "pending" -> "error"
         [] OTHER -> whole

\* applyArtifactFloor: while nothing fails, waits or runs, the artifacts raise
\* the status, and cap it.
StatusOf(ts, c) ==
    LET busy == \E t \in Tasks :
                  /\ ts[t] = Latest(ts, {ts[t].kind})
                  /\ ts[t].status \in {"failed", "queued", "running"}
        d == Derived(ts)
    IN CASE busy \/ ts = NoRows -> d
         [] c.ints # 0 -> "done"
         [] c.chk # 0 /\ d \in {"pending", "transcript_extracted", "done"} -> "chunks_ready"
         [] c.chk = 0 /\ d \in {"chunks_ready", "done"} -> "transcript_extracted"
         [] OTHER -> d

Readable == {"transcript_extracted", "chunks_ready", "done", "processing"}

\* The answer of GetLessonAnalysis, with the listed chunks (raw) beside it.
Answer(ts, c) ==
    LET st == StatusOf(ts, c) IN
    [status |-> st,
     seg  |-> IF st \in Readable THEN c.seg ELSE 0,
     chk  |-> IF Invalidated(ts) THEN 0 ELSE c.chk,
     ints |-> IF Invalidated(ts) THEN 0 ELSE c.ints,
     raw  |-> c.chk]

Unused == {t \in Tasks : tasks[t] = NoTask}
NextId == CHOOSE t \in Unused : \A u \in Unused : t <= u

ActiveOf(kind) == {t \in Tasks : tasks[t].kind = kind /\ tasks[t].status \in Active}

\* preflightLessonTask: a stage needs the artifact of the one before it.
Preflight(kind) ==
    CASE kind = "chunk" -> \E t \in Tasks : tasks[t] = Latest(tasks, {"extract"})
                                            /\ tasks[t].status = "succeeded"
      [] kind = "generate" -> content.chk # 0
      [] OTHER -> TRUE

CreateRow(kind) ==
    tasks' = [tasks EXCEPT ![NextId] = [kind |-> kind, status |-> "queued", stage |-> ""]]

\* A worker claims the row; RunExtract wipes everything derived up front.
ServerRun(t) ==
    /\ tasks[t].status = "queued"
    /\ tasks' = [tasks EXCEPT ![t].status = "running"]
    /\ content' = IF tasks[t].kind \in {"extract", "pipeline"}
                  THEN [seg |-> 0, chk |-> 0, ints |-> 0] ELSE content
    /\ UNCHANGED <<poller, ui, loads, calls>>

\* The pipeline saves one stage and reports the next as its progress_step.
ServerStage(t) ==
    /\ tasks[t].kind = "pipeline" /\ tasks[t].status = "running"
    /\ \/ /\ tasks[t].stage = ""
          /\ tasks' = [tasks EXCEPT ![t].stage = "CHUNKING"]
          /\ content' = [content EXCEPT !.seg = t]
       \/ /\ tasks[t].stage = "CHUNKING"
          /\ tasks' = [tasks EXCEPT ![t].stage = "GENERATING"]
          /\ content' = [content EXCEPT !.chk = t, !.ints = 0]
    /\ UNCHANGED <<poller, ui, loads, calls>>

Produced(t) ==
    CASE tasks[t].kind = "extract"  -> [content EXCEPT !.seg = t]
      [] tasks[t].kind = "chunk"    -> [content EXCEPT !.chk = t, !.ints = 0]
      [] OTHER                      -> [content EXCEPT !.ints = t]

ServerSucceed(t) ==
    /\ tasks[t].status = "running"
    /\ tasks[t].kind = "pipeline" => tasks[t].stage = "GENERATING"
    /\ tasks' = [tasks EXCEPT ![t].status = "succeeded"]
    /\ content' = Produced(t)
    /\ UNCHANGED <<poller, ui, loads, calls>>

ServerFail(t) ==
    /\ tasks[t].status = "running"
    /\ tasks' = [tasks EXCEPT ![t].status = "failed"]
    /\ UNCHANGED <<content, poller, ui, loads, calls>>

\* Another tab, or Quick Create, starts a task for the same lesson.
ServerOtherStart(kind) ==
    /\ OtherTab /\ upset = 0 /\ upset' = 1
    /\ Unused # {} /\ ActiveOf(kind) = {} /\ Preflight(kind)
    /\ CreateRow(kind)
    /\ UNCHANGED <<content, poller, ui, loads, rpc, cancels, retry>>

(***************************************************************************)
(* The screen                                                              *)
(***************************************************************************)

Phases == {"idle", "syncing", "running", "done", "error", "failedAt"}

\* getInitialWorkflowStep
InitialStep(seg, chk, ints, status) ==
    CASE chk # 0 \/ ints # 0 \/ status = "done" -> "exercises"
      [] (seg # 0 \/ status = "transcript_extracted")
         /\ ~(chk # 0 \/ ints # 0 \/ status = "done") -> "chunks"
      [] OTHER -> "transcript"

\* The state initialisers of useLessonAnalysisState and the "reset on PENDING"
\* effect, on the analysis a the page was rendered with.
Opened(a) ==
    LET wiped == a.status = "pending" /\ a.chk = 0 /\ a.ints = 0 IN
    [ext |-> CASE wiped -> "idle"
               [] a.status = "error" /\ a.seg = 0 -> "error"
               [] a.status # "processing" -> "idle"
               [] OTHER -> IF a.seg # 0 THEN "done" ELSE "syncing",
     chk |-> CASE wiped -> "idle"
               [] a.status = "error" /\ a.seg # 0 /\ a.chk = 0 -> "error"
               [] a.status = "processing" /\ a.seg # 0 /\ a.chk = 0 -> "syncing"
               [] OTHER -> "idle",
     gen |-> IF a.status = "error" /\ a.chk # 0 THEN "error" ELSE "idle",
     step |-> IF wiped THEN "transcript" ELSE InitialStep(a.seg, a.chk, a.ints, a.status),
     confirm |-> FALSE,
     seg |-> IF wiped THEN 0 ELSE a.seg,
     chs |-> a.chk,
     ints |-> a.ints,
     visits |-> 0,
     seen |-> a.status \in {"transcript_extracted", "chunks_ready"},
     manual |-> "none", reloading |-> FALSE,
     prev |-> [t \in Tasks |-> "none"],
     started |-> {}, completed |-> {}, synced |-> {}, cleared |-> {},
     chunksLoaded |-> {}, segsLoaded |-> {}, attributed |-> {}]

\* A load of why \in {"sync", ...} that task t asked for.
Load(why, t) == [why |-> why, task |-> t, got |-> Unread]

(***************************************************************************)
(* The effect of useAnalysisTaskTracker on one task of a new list.  s is   *)
(* the screen and the loads started so far in this run of the effect.      *)
(***************************************************************************)

\* set... on the screen, and a load that a once-only ref guards.
Put(s, u) == [s EXCEPT !.ui = u]
LoadOnce(s, ref, why, t) ==
    IF t \in s.ui[ref] THEN s
    ELSE [ui |-> [s.ui EXCEPT ![ref] = @ \cup {t}, !.reloading = @ \/ why = "chunks"],
          out |-> s.out \cup {Load(why, t)}]

TrackPipeline(s, t, stage) ==
    CASE stage = "GENERATING" ->
             LET u == [s.ui EXCEPT !.ext = "done", !.chk = "done", !.gen = "running"]
             IN LoadOnce(LoadOnce(Put(s, u), "chunksLoaded", "chunks", t),
                         "segsLoaded", "segs", t)
      [] stage = "CHUNKING" ->
             LET u == [s.ui EXCEPT !.ext = "done", !.chk = "running", !.gen = "idle"]
             IN LoadOnce(Put(s, u), "segsLoaded", "segs", t)
      [] OTHER ->
             Put(s, [s.ui EXCEPT !.ext = "running", !.chk = "idle", !.gen = "idle"])

\* The first sight of an active extract mirrors the service's wipe.
TrackExtract(s, t) ==
    LET u == [s.ui EXCEPT !.ext = "running"]
    IN Put(s, IF t \in u.cleared THEN u
              ELSE [u EXCEPT !.cleared = @ \cup {t}, !.seg = 0, !.chs = 0, !.ints = 0])

TrackActive(s, t, row) ==
    CASE row.kind = "extract"  -> TrackExtract(s, t)
      [] row.kind = "chunk"    -> Put(s, [s.ui EXCEPT !.chk = "running"])
      [] row.kind = "generate" -> Put(s, [s.ui EXCEPT !.gen = "running"])
      [] OTHER                 -> TrackPipeline(s, t, row.stage)

\* Mutant: only a transcription refreshes what the screen holds.
TrackSyncExtract(s, t, row) ==
    IF row.status = "succeeded" /\ row.kind = "extract"
    THEN LoadOnce(s, "synced", "sync", t) ELSE s

\* Sync of a success, whether or not its active phase was seen.
TrackSync(s, t, row) ==
    IF row.status = "succeeded" /\ row.kind \in {"extract", "chunk", "pipeline"}
    THEN LoadOnce(s, "synced", "sync", t) ELSE s

\* A failure from before the page was opened gets its failing sub-step.
Attributed(phase) == IF phase = "error" THEN "failedAt" ELSE phase
TrackAttribution(s, t, row) ==
    IF row.status # "failed" \/ t \in s.ui.attributed THEN s
    ELSE LET u == [s.ui EXCEPT !.attributed = @ \cup {t}] IN
         Put(s, CASE row.kind = "extract" -> [u EXCEPT !.ext = Attributed(@)]
                  [] row.kind = "chunk"   -> [u EXCEPT !.chk = Attributed(@)]
                  [] row.kind = "pipeline" /\ row.stage = "CHUNKING" ->
                                             [u EXCEPT !.chk = Attributed(@)]
                  [] row.kind = "pipeline" /\ row.stage = "" ->
                                             [u EXCEPT !.ext = Attributed(@)]
                  [] OTHER -> u)

\* A generation is done when its exercises have been loaded.
Generated(s, t) == [s EXCEPT !.out = @ \cup {Load("generated", t)}]

\* The cascade of a task that was active and has ended.
TrackSuccess(s, t, row) ==
    CASE row.kind = "extract" ->
             [ui |-> [s.ui EXCEPT !.ext = "done"], out |-> s.out \cup {Load("extracted", t)}]
      [] row.kind = "chunk" ->
             [ui |-> [s.ui EXCEPT !.chk = "done", !.reloading = TRUE],
              out |-> s.out \cup {Load("chunked", t)}]
      [] row.kind = "generate" -> Generated(s, t)
      [] OTHER ->
             [ui |-> [s.ui EXCEPT !.ext = "done", !.chk = "done"],
              out |-> s.out \cup {Load("piped", t)}]

TrackFailure(s, row) ==
    Put(s, CASE row.kind = "extract"  -> [s.ui EXCEPT !.ext = "failedAt"]
             [] row.kind = "chunk"    -> [s.ui EXCEPT !.chk = "failedAt"]
             [] row.kind = "generate" -> [s.ui EXCEPT !.gen = "error"]
             [] row.stage = "GENERATING" -> [s.ui EXCEPT !.gen = "error"]
             [] row.stage = "CHUNKING"   -> [s.ui EXCEPT !.chk = "failedAt"]
             [] OTHER                    -> [s.ui EXCEPT !.ext = "failedAt"])

\* Mutant: only tasks started from this screen are seen to end.
WasStartedHere(u, t, previous) == t \in u.started

\* The task was last seen active, or was started from this screen.
WasActive(u, t, previous) == previous \in Active \/ t \in u.started

TrackEnd(s, t, row, previous) ==
    IF ~WasActive(s.ui, t, previous) \/ t \in s.ui.completed THEN s
    ELSE LET r == Put(s, [s.ui EXCEPT !.completed = @ \cup {t}, !.started = @ \ {t}])
         IN IF row.status = "succeeded" THEN TrackSuccess(r, t, row) ELSE TrackFailure(r, row)

TrackTask(s, t, row) ==
    LET previous == s.ui.prev[t]
        r == Put(s, [s.ui EXCEPT !.prev[t] = row.status])
    IN CASE row.status = "none"      -> s
         [] row.status \in Active    -> TrackActive(r, t, row)
         [] row.status \in Terminal  ->
                TrackEnd(TrackAttribution(TrackSync(r, t, row), t, row), t, row, previous)

Track(u, rows) ==
    FoldLeft(LAMBDA s, t : TrackTask(s, t, rows[t]), [ui |-> u, out |-> {}], NewestFirst)

(***************************************************************************)
(* The list poller: useTaskPolling                                         *)
(***************************************************************************)

\* refreshTasks: the service reads the rows of one reply.
PollServe ==
    /\ Cardinality(replies) < MaxReplies /\ tasks \notin replies
    /\ Overtaking \/ (replies = {} /\ rpc.at \notin {"answered", "listed"})
    /\ replies' = replies \cup {tasks}
    /\ UNCHANGED <<tasks, content, list, frame, ui, loads, calls>>

\* pendingRef takes whichever reply arrives last; the frame applies it.
PollArrive == \E r \in replies :
    /\ replies' = replies \ {r} /\ frame' = r
    /\ UNCHANGED <<tasks, content, list, ui, loads, calls>>

\* A poll that fails keeps the list; the next one comes after a back-off.
PollFail == \E r \in replies :
    /\ Lossy /\ upset = 0 /\ upset' = 1
    /\ replies' = replies \ {r}
    /\ UNCHANGED <<tasks, content, list, frame, ui, loads, rpc, cancels, retry>>

\* applyPending, the render, and the effects of the new list.
ApplyFrame ==
    /\ frame # NoList
    /\ LET r == Track(ui, frame)
           piped == \E t \in Tasks : frame[t].kind = "pipeline" /\ frame[t].status \in Active
       IN /\ ui' = [r.ui EXCEPT !.manual = IF piped THEN @ ELSE "none"]
          /\ loads' = loads \cup r.out
    /\ list' = frame /\ frame' = NoList
    /\ UNCHANGED <<tasks, content, replies, calls>>

(***************************************************************************)
(* Loads: calls of GetLessonAnalysis and ListLessonTranscriptChunks        *)
(***************************************************************************)

\* The poll of a "syncing" card, every syncingPollMs.
SyncPoll == \E why \in {"syncExt", "syncChk"} :
    /\ IF why = "syncExt" THEN ui.ext = "syncing" ELSE ui.chk = "syncing"
    /\ \A l \in loads : l.why # why
    /\ loads' = loads \cup {Load(why, 0)}
    /\ UNCHANGED <<tasks, content, poller, ui, calls>>

\* The service answers from its tables as they are now.
LoadRead(l) ==
    /\ l.got = Unread
    /\ Overtaking \/ \A k \in loads : k.got = Unread
    /\ loads' = (loads \ {l}) \cup {[l EXCEPT !.got = Answer(tasks, content)]}
    /\ UNCHANGED <<tasks, content, poller, ui, calls>>

\* Mutant: a step no reducer case knows.
AdvancePreview(a) == IF a.chk # 0 THEN "preview" ELSE "chunks"

Fill(u, a) == [u EXCEPT !.seg = a.seg, !.chs = a.chk, !.ints = a.ints]
Advance(a) == IF a.chk # 0 THEN "exercises" ELSE "chunks"

\* Where a "syncing" card goes when the analysis is no longer PROCESSING.
Synced(u, card, a) ==
    CASE a.status \in {"transcript_extracted", "chunks_ready", "done"} ->
             [u EXCEPT !.chs = a.chk, !.seg = a.seg, ![card] = "done", !.step = Advance(a)]
      [] a.status = "error" -> [u EXCEPT ![card] = "error"]
      [] OTHER              -> [u EXCEPT ![card] = "idle"]

\* What each continuation does with its answer.
Filled(u, why, a) ==
    CASE why = "sync"      -> Fill(u, a)
      [] why = "extracted" -> [Fill(u, a) EXCEPT !.gen = "idle", !.step = Advance(a)]
      [] why = "chunked"   -> [u EXCEPT !.chs = a.raw, !.reloading = FALSE, !.step = "exercises"]
      [] why = "chunks"    -> [u EXCEPT !.chs = a.raw, !.reloading = FALSE]
      [] why = "segs"      -> [u EXCEPT !.seg = a.seg]
      [] why = "generated" -> [u EXCEPT !.ints = a.ints, !.gen = "done"]
      [] why = "piped"     -> [Fill(u, a) EXCEPT !.gen = "done", !.step = "exercises"]
      [] a.status = "processing" -> u
      [] why = "syncExt"   -> Synced(u, "ext", a)
      [] why = "syncChk"   -> Synced(u, "chk", a)

LoadArrive(l) ==
    /\ l.got # Unread
    /\ loads' = loads \ {l} /\ ui' = Filled(ui, l.why, l.got)
    /\ UNCHANGED <<tasks, content, poller, calls>>

\* .catch(() => null) goes on without the answer; reloadChunks rejects.
LoadFail(l) ==
    /\ Lossy /\ upset = 0 /\ upset' = 1
    /\ loads' = loads \ {l}
    /\ ui' = CASE l.why = "generated" -> [ui EXCEPT !.gen = "done"]
               [] l.why = "piped"     -> [ui EXCEPT !.gen = "done", !.step = "exercises"]
               [] l.why \in {"chunks", "chunked"} -> [ui EXCEPT !.reloading = FALSE]
               [] OTHER -> ui
    /\ UNCHANGED <<tasks, content, poller, rpc, cancels, retry>>

(***************************************************************************)
(* What the screen shows and allows                                        *)
(***************************************************************************)

Failed(phase) == phase \in {"error", "failedAt"}
Listed(kind) == {t \in Tasks : list[t].kind = kind /\ list[t].status \in Active}
ActiveListed == {t \in Tasks : list[t].status \in Active}

HasTranscript == ui.seg # 0 \/ ui.chs # 0 \/ ui.ints # 0 \/ ui.seen
Transcribing == ui.ext \in {"running", "syncing"}
Busy == "running" \in {ui.ext, ui.chk, ui.gen} \/ ui.reloading \/ ActiveListed # {}

\* pipelineStage: the newest active one-shot pipeline owns the stepper.
PipeStage ==
    LET P == Listed("pipeline") IN
    IF P = {} THEN "none"
    ELSE LET stage == list[CHOOSE t \in P : \A u \in P : u <= t].stage IN
         CASE stage = "GENERATING" -> "exercises"
           [] stage = "CHUNKING"   -> "chunks"
           [] OTHER                -> "transcript"

DisplayStep ==
    CASE PipeStage = "none"   -> ui.step
      [] ui.manual # "none"   -> ui.manual
      [] OTHER                -> PipeStage

\* A lesson with exercises reads as fully processed.
Complete == ui.ints # 0 /\ ~Transcribing

TranscriptStatus ==
    CASE PipeStage = "transcript"  -> "running"
      [] PipeStage # "none"        -> "done"
      [] Failed(ui.ext)            -> "error"
      [] Transcribing              -> "running"
      [] HasTranscript \/ Complete -> "done"
      [] OTHER                     -> "ready"

ChunkStatus ==
    CASE PipeStage = "transcript" -> "locked"
      [] PipeStage = "chunks"     -> "running"
      [] PipeStage = "exercises"  -> "done"
      [] Transcribing \/ Failed(ui.ext) -> "locked"
      [] ~HasTranscript /\ ~Complete    -> "locked"
      [] Failed(ui.chk)           -> "error"
      [] ui.chk = "running"       -> "running"
      [] ui.chs # 0 \/ Complete   -> "done"
      [] OTHER                    -> "ready"

ExerciseStatus ==
    CASE PipeStage = "exercises"  -> "running"
      [] PipeStage # "none"       -> "locked"
      [] Transcribing \/ Failed(ui.ext) \/ Failed(ui.chk) -> "locked"
      [] ui.chs = 0 /\ ~Complete  -> "locked"
      [] Failed(ui.gen)           -> "error"
      [] ui.gen = "running"       -> "running"
      [] ui.ints # 0              -> "done"
      [] OTHER                    -> "ready"

StepStatus(step) ==
    CASE step = "transcript" -> TranscriptStatus
      [] step = "chunks"     -> ChunkStatus
      [] step = "exercises"  -> ExerciseStatus

\* The button of WorkflowNextAction, "none" where the panel is hidden,
\* disabled, or only leads to another step.
NextAction ==
    LET failing == CASE Failed(ui.ext) -> "transcript" [] Failed(ui.chk) -> "chunks"
                     [] Failed(ui.gen) -> "exercises"  [] OTHER -> "none"
        running == CASE Transcribing -> "transcript"
                     [] ui.chk \in {"running", "syncing"} -> "chunks"
                     [] ui.gen = "running" -> "exercises" [] OTHER -> "none"
        hidden == \/ PipeStage # "none"
                  \/ ui.step = "chunks" /\ HasTranscript /\ ui.chs = 0
                  \/ ui.step = running
                  \/ ui.step = "transcript" /\ Failed(ui.ext)
                  \/ ui.step = "chunks" /\ Failed(ui.chk)
                  \/ ui.step = "exercises" /\ Failed(ui.gen)
    IN CASE hidden                  -> "none"
         [] failing = "transcript"  -> "extract"
         [] failing = "chunks"      -> "chunk"
         [] failing = "exercises" \/ running # "none" -> "none"
         [] ~HasTranscript          -> "extract"
         [] ui.chs = 0              -> "chunk"
         [] OTHER                   -> "none"

ExtractCardShown ==
    DisplayStep = "transcript" /\ (HasTranscript \/ ui.ext # "idle" \/ ui.confirm)
ChunkCardShown ==
    DisplayStep = "chunks" /\ HasTranscript /\ (ui.chs # 0 \/ ui.chk # "idle")
ChunkReadyShown ==
    DisplayStep = "chunks" /\ HasTranscript /\ ui.chs = 0 /\ ui.chk = "idle"

\* LessonTaskPanel lists the tasks of the steps other than the one shown; the
\* pipeline has its banner instead.
PanelStep(kind) ==
    CASE kind = "extract"  -> "transcript"
      [] kind = "chunk"    -> "chunks"
      [] kind = "generate" -> "exercises"
      [] OTHER             -> "none"
InPanel(t) == list[t].kind # "pipeline" /\ PanelStep(list[t].kind) # DisplayStep

\* WorkflowProgressHero offers to cancel the task of the card it heads.
InHero(t) ==
    CASE list[t].kind = "extract"  -> ExtractCardShown /\ ui.ext \in {"running", "syncing"}
      [] list[t].kind = "chunk"    -> ChunkCardShown /\ ui.chk \in {"running", "syncing"}
      [] list[t].kind = "generate" -> DisplayStep = "exercises" /\ ui.gen = "running"
      [] OTHER                     -> FALSE

\* The segments published for the video player of the lesson's other tab.
LiveTranscript == ui.seg

\* The call to action of ExtractProgressCard.
ExtractButton == ExtractCardShown /\ ui.ext \in {"idle", "done"} /\ ~ui.confirm /\ ~Busy

\* Whether a button that runs startExtract, handleChunk or handleGenerate at
\* once is on the screen.
MayStart(kind) ==
    CASE kind = "extract" ->
            \/ ExtractButton /\ ~HasTranscript
            \/ ExtractCardShown /\ ui.confirm
            \/ ExtractCardShown /\ Failed(ui.ext) /\ Listed("extract") = {}
            \/ NextAction = "extract"
      [] kind = "chunk" ->
            \/ ChunkReadyShown /\ ~Busy
            \/ ChunkCardShown /\ ui.chk # "running" /\ ui.chs # 0 /\ ~Busy
            \/ ChunkCardShown /\ Failed(ui.chk) /\ Listed("chunk") = {}
            \/ NextAction = "chunk"
      [] kind = "generate" ->
            /\ DisplayStep = "exercises"
            /\ \/ ui.chs # 0 /\ ~Busy
               \/ Failed(ui.gen) /\ Listed("generate") = {}
      [] OTHER -> FALSE

\* "Retry" of a failed card whose list still shows an active task.
MayRetry(kind) ==
    /\ Listed(kind) # {}
    /\ CASE kind = "extract"  -> ExtractCardShown /\ Failed(ui.ext)
         [] kind = "chunk"    -> ChunkCardShown /\ Failed(ui.chk)
         [] kind = "generate" -> DisplayStep = "exercises" /\ Failed(ui.gen)
         [] OTHER             -> FALSE

(***************************************************************************)
(* Buttons                                                                 *)
(***************************************************************************)

\* The stepper, and the "go to" buttons of the panels.
SelectStep(step) ==
    /\ StepStatus(step) # "locked" /\ DisplayStep # step /\ ui.visits < MaxVisits
    /\ ui' = [ui EXCEPT !.step = step, !.visits = @ + 1,
                        !.manual = IF PipeStage = "none" THEN @ ELSE step]
    /\ UNCHANGED <<tasks, content, poller, loads, calls>>

AskReExtract ==
    /\ ExtractButton /\ HasTranscript
    /\ ui' = [ui EXCEPT !.confirm = TRUE]
    /\ UNCHANGED <<tasks, content, poller, loads, calls>>

KeepContent ==
    /\ ExtractCardShown /\ ui.confirm
    /\ ui' = [ui EXCEPT !.confirm = FALSE]
    /\ UNCHANGED <<tasks, content, poller, loads, calls>>

\* startTask: the call leaves.  One at a time is modelled.
Call(kind) ==
    /\ rpc.at = "idle" /\ Unused # {}
    /\ rpc' = [kind |-> kind, at |-> "sent", task |-> 0, list |-> NoList]

startExtract ==
    /\ Call("extract")
    /\ ui' = [ui EXCEPT !.confirm = FALSE, !.step = "transcript",
                        !.seg = 0, !.chs = 0, !.ints = 0,
                        !.chk = "idle", !.gen = "idle", !.ext = "running"]

\* While a chunk task runs the button only asks for a new list.
handleChunk ==
    IF ui.chk = "running" \/ Listed("chunk") # {}
    THEN ui' = [ui EXCEPT !.step = "chunks", !.chk = "running"] /\ UNCHANGED rpc
    ELSE Call("chunk") /\ ui' = [ui EXCEPT !.step = "chunks", !.gen = "idle", !.chk = "running"]

handleGenerate ==
    /\ Call("generate")
    /\ ui' = [ui EXCEPT !.step = "exercises", !.gen = "running"]

Handle(kind) ==
    CASE kind = "extract"  -> startExtract
      [] kind = "chunk"    -> handleChunk
      [] kind = "generate" -> handleGenerate

Click(kind) ==
    /\ MayStart(kind) /\ Handle(kind)
    /\ UNCHANGED <<tasks, content, poller, loads, cancels, retry, upset>>

\* The retry button does not wait for its cancel: a timer of 500 ms starts.
Retry(kind) ==
    /\ MayRetry(kind) /\ retry = "none"
    /\ retry' = kind
    /\ cancels' = cancels \cup {CHOOSE t \in Listed(kind) : \A u \in Listed(kind) : u <= t}
    /\ UNCHANGED <<tasks, content, poller, ui, loads, rpc, upset>>

RetryTimer ==
    /\ retry # "none" /\ Handle(retry) /\ retry' = "none"
    /\ UNCHANGED <<tasks, content, poller, loads, cancels, upset>>

\* The timer fires when no more tasks fit the bound: its call is left out.
RetryLapse ==
    /\ retry # "none" /\ Unused = {} /\ retry' = "none"
    /\ UNCHANGED <<tasks, content, poller, ui, loads, rpc, cancels, upset>>

\* The cancel button of a card, or of a row of LessonTaskPanel.
Cancel(t) ==
    /\ t \in ActiveListed \ cancels /\ (InPanel(t) \/ InHero(t))
    /\ cancels' = cancels \cup {t}
    /\ UNCHANGED <<tasks, content, poller, ui, loads, rpc, retry, upset>>

(***************************************************************************)
(* Calls                                                                   *)
(***************************************************************************)

\* CancelLessonTask; its refresh is one more PollServe.
ServeCancel(t) ==
    /\ t \in cancels /\ cancels' = cancels \ {t}
    /\ tasks' = IF tasks[t].status \in Active THEN [tasks EXCEPT ![t].status = "canceled"]
                ELSE tasks
    /\ UNCHANGED <<content, poller, ui, loads, rpc, retry, upset>>

\* StartLessonTask: the task of that kind already active, or a new row.
ServeStart ==
    /\ rpc.at = "sent"
    /\ \/ /\ ActiveOf(rpc.kind) # {}
          /\ rpc' = [rpc EXCEPT !.at = "answered", !.task = CHOOSE t \in ActiveOf(rpc.kind) : TRUE]
          /\ UNCHANGED tasks
       \/ /\ ActiveOf(rpc.kind) = {} /\ Preflight(rpc.kind) /\ Unused # {}
          /\ CreateRow(rpc.kind)
          /\ rpc' = [rpc EXCEPT !.at = "answered", !.task = NextId]
    /\ UNCHANGED <<content, poller, ui, loads, cancels, retry, upset>>

\* The .catch of the three handlers.
Refused(kind) ==
    CASE kind = "extract"  -> [ui EXCEPT !.ext = "error"]
      [] kind = "chunk"    -> [ui EXCEPT !.chk = "error"]
      [] kind = "generate" -> [ui EXCEPT !.gen = "error"]

StartRefused ==
    /\ rpc.at = "sent" /\ ActiveOf(rpc.kind) = {}
    /\ ~Preflight(rpc.kind) \/ Unused = {}
    /\ ui' = Refused(rpc.kind) /\ rpc' = NoCall
    /\ UNCHANGED <<tasks, content, poller, loads, cancels, retry, upset>>

\* The call fails on its way there, or its answer is lost on the way back.
StartLost ==
    /\ Lossy /\ upset = 0 /\ upset' = 1
    /\ rpc.at \in {"sent", "answered"}
    /\ ui' = Refused(rpc.kind) /\ rpc' = NoCall
    /\ UNCHANGED <<tasks, content, poller, loads, cancels, retry>>

\* startTask awaits a fresh list before it hands the task to .then.
ServeRefresh ==
    /\ rpc.at = "answered" /\ (Overtaking \/ replies = {})
    /\ rpc' = [rpc EXCEPT !.at = "listed", !.list = tasks]
    /\ UNCHANGED <<tasks, content, poller, ui, loads, cancels, retry, upset>>

\* .then: the task is remembered as started here and last seen queued.
Remembered(u, t) == [u EXCEPT !.started = @ \cup {t}, !.prev[t] = "queued"]

Started ==
    /\ rpc.at = "listed"
    /\ frame' = rpc.list
    /\ ui' = Remembered(ui, rpc.task) /\ rpc' = NoCall
    /\ UNCHANGED <<tasks, content, list, replies, loads, cancels, retry, upset>>

(***************************************************************************)
(* The specification                                                       *)
(***************************************************************************)

\* Lessons the page is opened on: the rows left by earlier work, and content.
\* A page opened in the middle of a run finds a second row in use.
Situation(o) ==
    LET row(kind, status, stage) == [kind |-> kind, status |-> status, stage |-> stage]
        rows(r, s) == [t \in Tasks |-> CASE t = 1 -> r [] t = 2 -> s [] OTHER -> NoTask]
        all(c) == [seg |-> c, chk |-> c, ints |-> c]
        failed == row("extract", "failed", "")
    IN CASE o = "fresh"      -> <<NoRows, all(0)>>
         [] o = "failed"     -> <<rows(failed, NoTask), all(0)>>
         [] o = "extracted"  -> <<rows(row("extract", "succeeded", ""), NoTask),
                                  [all(0) EXCEPT !.seg = 1]>>
         [] o = "ready"      -> <<rows(row("pipeline", "succeeded", "GENERATING"), NoTask), all(1)>>
         [] o = "extracting" -> <<rows(failed, row("extract", "running", "")), all(0)>>
         [] o = "piping"     -> <<rows(failed, row("pipeline", "queued", "")), all(0)>>

Init ==
    /\ \E o \in Openings : tasks = Situation(o)[1] /\ content = Situation(o)[2]
    /\ ui = Opened(Answer(tasks, content))
    /\ list = NoRows /\ replies = {} /\ frame = NoList /\ loads = {}
    /\ rpc = NoCall /\ cancels = {} /\ retry = "none" /\ upset = 0

ServerStep == \E t \in Tasks :
    \/ ServerRun(t) \/ ServerStage(t) \/ ServerSucceed(t) \/ ServerFail(t) \/ ServeCancel(t)

CallStep ==
    ServeStart \/ StartRefused \/ ServeRefresh \/ Started \/ RetryTimer \/ RetryLapse

ClientStep ==
    \/ PollServe \/ PollArrive \/ ApplyFrame \/ SyncPoll
    \/ \E l \in loads : LoadRead(l) \/ LoadArrive(l)
    \/ CallStep

UserStep ==
    \/ \E step \in {"transcript", "chunks", "exercises"} : SelectStep(step)
    \/ AskReExtract \/ KeepContent
    \/ \E kind \in Kinds : Click(kind) \/ Retry(kind)
    \/ \E t \in Tasks : Cancel(t)

Fault == PollFail \/ StartLost \/ \E l \in loads : LoadFail(l)

Next ==
    \/ ServerStep \/ ClientStep \/ UserStep \/ Fault
    \/ \E kind \in Kinds : ServerOtherStart(kind)

\* Workers finish what they claim and calls are answered; the poll, the
\* animation frame and the loads of the screen come round.
Fairness ==
    /\ WF_vars(ServerStep)
    /\ WF_vars(PollServe \/ PollArrive)
    /\ WF_vars(ApplyFrame)
    /\ WF_vars(SyncPoll \/ \E l \in loads : LoadRead(l) \/ LoadArrive(l))
    /\ WF_vars(CallStep)

Spec == Init /\ [][Next]_vars /\ Fairness

(***************************************************************************)
(* Properties                                                              *)
(***************************************************************************)

RowSet == [kind : {"none", "extract", "chunk", "generate", "pipeline"},
           status : {"none"} \cup Active \cup Terminal,
           stage : {"", "CHUNKING", "GENERATING"}]
Whys == {"sync", "extracted", "chunked", "chunks", "segs", "generated", "piped",
         "syncExt", "syncChk"}

\* Types of the screen, the service and what is on its way between them.
TypeOK ==
    /\ tasks \in [Tasks -> RowSet] /\ list \in [Tasks -> RowSet]
    /\ content \in [seg : Version, chk : Version, ints : Version]
    /\ \A r \in replies : r \in [Tasks -> RowSet]
    /\ Cardinality(replies) <= MaxReplies
    /\ frame = NoList \/ frame \in [Tasks -> RowSet]
    /\ {ui.ext, ui.chk, ui.gen} \subseteq Phases
    /\ {ui.seg, ui.chs, ui.ints} \subseteq Version
    /\ ui.step \in {"transcript", "chunks", "exercises"}
    /\ \A l \in loads : l.why \in Whys /\ l.task \in 0..N
    /\ rpc.at \in {"idle", "sent", "answered", "listed"}
    /\ cancels \subseteq Tasks /\ retry \in Kinds \cup {"none"} /\ upset \in 0..1

\* Some card of the screen shows work in progress.
InProgress == {ui.ext, ui.chk, ui.gen} \cap {"running", "syncing"} # {}

\* A card that spins stops spinning: however the polls, the loads, the start,
\* cancel and retry calls interleave with the task, its end reaches the screen
\* (analysis-task-tracker.ts:282-289).  A one-shot pipeline that fails is left
\* out: the tracker ends no card for it, and the ones it had started spin on.
PipeFailed == \E t \in Tasks : tasks[t].kind = "pipeline" /\ tasks[t].status = "failed"
CardsSettle == (InProgress /\ ~PipeFailed) ~> (~InProgress \/ PipeFailed)

\* The success banner of a generation never stands over other exercises than
\* the service holds, unless a call failed (analysis-task-tracker.ts:345-356).
DoneIsFresh == ui.gen = "done" /\ upset = 0 => ui.ints = content.ints

\* Nothing is running, on its way or asked for, and the list is current.
Quiet ==
    /\ loads = {} /\ rpc = NoCall /\ cancels = {} /\ retry = "none" /\ replies = {}
    /\ frame = NoList /\ list = tasks /\ ActiveListed = {} /\ ~InProgress

\* When the last task has succeeded and everything has come to rest, the
\* screen's copy of the chunks and exercises, and the transcript it publishes for
\* the video player, are the service's (analysis-task-tracker.ts:228-233,
\* analyze-button.tsx:94-106).
QuietIsFresh ==
    Quiet /\ upset = 0 /\ Latest(tasks, Kinds \cup {"pipeline"}).status = "succeeded"
    => LET a == Answer(tasks, content) IN
       LiveTranscript = a.seg /\ ui.chs = a.chk /\ ui.ints = a.ints

\* What the processing screen claims about the content is so, at the banner and
\* at rest (analysis-task-tracker.ts, analyze-button.tsx).
CardsAreFresh == DoneIsFresh /\ QuietIsFresh
=============================================================================
