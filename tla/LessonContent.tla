------------------------------ MODULE LessonContent ------------------------------
(***************************************************************************)
(* What the tasks of one lesson do to the lesson: the transcript and the   *)
(* chunk texts in FoundationDB, the chunks and the AI interactions in      *)
(* PostgreSQL, which no transaction spans.  The executors transcribe,      *)
(* chunk, quiz_gen and pipeline_run (internal/svc/aitasks,                 *)
(* internal/svc/ai/transcript, internal/svc/ai/generation) run step by     *)
(* step, with crashes, cancellations, failing calls and swallowed errors,  *)
(* against each other and against ResetLessonContent and UpdateLessonVideo.*)
(*                                                                         *)
(* One call to a store is one step, a PostgreSQL transaction one step.     *)
(* The queue is what TaskQueue.tla proves of it while heartbeats do not    *)
(* lapse: a task has one goroutine at most, which notices the loss of its  *)
(* row only at a heartbeat.  There is one richter process at a time.       *)
(* A transcript and its segments are one value, named by the video and by  *)
(* a number; a chunk and a text carry the transcript they were cut from.   *)
(***************************************************************************)
EXTENDS Integers, FiniteSets

CONSTANTS
    Started,     \* bound: the kinds of tasks that teachers start
    MaxTasks,    \* bound: tasks submitted
    MaxRuns,     \* bound: claims of one task
    MaxChunks,   \* bound: chunk ids used
    MaxEdits,    \* bound: resets and video uploads
    MaxCrashes,  \* bound: crashes of the process
    MaxFaults,   \* bound: failing database calls
    Patient      \* teachers start, cancel and edit nothing while something is going on

Kinds == {"transcribe", "chunk", "quiz_gen", "pipeline_run"}

ASSUME ContentAssumption ==
    /\ Started \subseteq Kinds
    /\ MaxTasks \in Nat /\ MaxRuns \in Nat /\ MaxChunks \in Nat
    /\ MaxEdits \in Nat /\ MaxCrashes \in Nat /\ MaxFaults \in Nat
    /\ Patient \in BOOLEAN

Tasks == 1..MaxTasks      \* by creation: the larger, the later
ChunkIds == 1..MaxChunks
Nobody == 0

VARIABLES
    \* The rows of the tasks table.
    kind,        \* task_type, "none" before the INSERT
    force,       \* force_regenerate of the input
    row,         \* status, "absent" before the INSERT, "deleted" after the DELETE
    saved,       \* the last stage of its checkpoint
    \* The goroutines.
    at,          \* the next step of a task's goroutine, "idle" when there is none
    cancelled,   \* its context is cancelled
    runs,        \* claims so far
    mem,         \* its local variables
    lock,        \* who holds the lesson's entry of analysisLocks
    \* The lesson.
    video,       \* the uploaded video, 0 for none
    transcript,  \* the transcript and segments in FoundationDB
    chunkOf,     \* lesson_transcript_chunks: the transcript a chunk was cut from
    text,        \* the chunk texts in FoundationDB
    quiz,        \* AI interactions of a chunk: the <<task, run>> that saved a batch
    orphans,     \* there are AI interactions whose chunk_id became NULL
    \* The teacher's call.
    edit,        \* next step of a reset or an upload, what it has read
    \* Counters.
    takes, chunksMade, videos, edits, crashes, faults

rowVars == <<kind, force, row, saved>>
runVars == <<at, cancelled, runs, mem, lock>>
lessonVars == <<video, transcript, chunkOf, text, quiz, orphans>>
countVars == <<takes, chunksMade, videos, edits, crashes, faults>>
vars == <<rowVars, runVars, lessonVars, edit, countVars>>

NoTranscript == [video |-> 0, take |-> 0]
Active == {"inqueued", "processing"}
Chunks == {c \in ChunkIds : chunkOf[c] # NoTranscript}

NoMem == [video |-> 0, text |-> NoTranscript, chunks |-> {}, fresh |-> {}, known |-> {},
          force |-> FALSE, kept |-> FALSE, failed |-> FALSE]
NoEdit == [at |-> "idle", had |-> FALSE, chunks |-> {}]

Init ==
    /\ kind = [t \in Tasks |-> "none"]
    /\ force = [t \in Tasks |-> FALSE]
    /\ row = [t \in Tasks |-> "absent"]
    /\ saved = [t \in Tasks |-> 0]
    /\ at = [t \in Tasks |-> "idle"]
    /\ cancelled = [t \in Tasks |-> FALSE]
    /\ runs = [t \in Tasks |-> 0]
    /\ mem = [t \in Tasks |-> NoMem]
    /\ lock = Nobody
    /\ video = 1
    /\ transcript = NoTranscript
    /\ chunkOf = [c \in ChunkIds |-> NoTranscript]
    /\ text = [c \in ChunkIds |-> NoTranscript]
    /\ quiz = [c \in ChunkIds |-> {}]
    /\ orphans = FALSE
    /\ edit = NoEdit
    /\ takes = 0 /\ chunksMade = 0 /\ videos = 1
    /\ edits = 0 /\ crashes = 0 /\ faults = 0

--------------------------------------------------------------------------------
(* The tasks table, as the RPCs, the worker and the scanner see it. *)

Quiet ==
    /\ \A t \in Tasks : at[t] = "idle" /\ row[t] \notin Active
    /\ edit = NoEdit

\* Whether a teacher does anything now.
TeacherActs == Patient => Quiet

Rows == {t \in Tasks : row[t] \notin {"absent", "deleted"}}

\* The most recent row of a kind succeeded (ListLatestTaskPerLesson).
LatestSucceeded(k) ==
    \E t \in Rows :
        /\ kind[t] = k /\ row[t] = "succeeded"
        /\ \A u \in Rows : kind[u] = k => u <= t

\* preflightLessonTask.
Preflight(k) ==
    /\ k \in {"transcribe", "pipeline_run"} => video # 0
    /\ k = "chunk" => LatestSucceeded("transcribe")
    /\ k = "quiz_gen" => Chunks # {}

\* StartLessonTask for the whole lesson: one active task of a kind.
StartLessonTask(k, f) ==
    \E t \in Tasks :
        /\ TeacherActs
        /\ kind[t] = "none" /\ \A u \in Tasks : u < t => kind[u] # "none"
        /\ \A u \in Tasks : kind[u] = k => row[u] \notin Active
        /\ Preflight(k)
        /\ f => k \in {"quiz_gen", "pipeline_run"}
        /\ kind' = [kind EXCEPT ![t] = k]
        /\ force' = [force EXCEPT ![t] = f]
        /\ row' = [row EXCEPT ![t] = "inqueued"]
        /\ UNCHANGED <<saved, runVars, lessonVars, edit, countVars>>

CancelLessonTask(t) ==
    /\ ~Patient
    /\ row[t] \in Active
    /\ row' = [row EXCEPT ![t] = "cancelled"]
    /\ UNCHANGED <<kind, force, saved, runVars, lessonVars, edit, countVars>>

\* The step a claimed task begins with; a pipeline resumes after its checkpoint.
FirstStep(t) ==
    CASE kind[t] = "transcribe" -> "video"
      [] kind[t] = "chunk" -> "load"
      [] kind[t] = "quiz_gen" -> "targets"
      [] kind[t] = "pipeline_run" -> <<"video", "load", "targets">>[saved[t] + 1]

\* Whether generation replaces; a pipeline that resumes behind its chunks only fills.
GenForce(t) == force[t] /\ (kind[t] = "pipeline_run" => saved[t] < 2)

Claim(t) ==
    /\ row[t] = "inqueued"
    /\ at[t] = "idle"
    /\ runs[t] < MaxRuns
    /\ row' = [row EXCEPT ![t] = "processing"]
    /\ runs' = [runs EXCEPT ![t] = @ + 1]
    /\ at' = [at EXCEPT ![t] = FirstStep(t)]
    /\ mem' = [mem EXCEPT ![t].force = GenForce(t)]
    /\ UNCHANGED <<kind, force, saved, cancelled, lock, lessonVars, edit, countVars>>

\* The heartbeat of a goroutine affects no row: its context is cancelled.
Lose(t) ==
    /\ at[t] # "idle"
    /\ row[t] # "processing"
    /\ ~cancelled[t]
    /\ cancelled' = [cancelled EXCEPT ![t] = TRUE]
    /\ UNCHANGED <<rowVars, at, runs, mem, lock, lessonVars, edit, countVars>>

\* The process dies with its goroutines, its locks and the call it serves.
Crash ==
    /\ crashes < MaxCrashes
    /\ edit # NoEdit \/ \E t \in Tasks : at[t] # "idle"
    /\ crashes' = crashes + 1
    /\ at' = [t \in Tasks |-> "idle"]
    /\ cancelled' = [t \in Tasks |-> FALSE]
    /\ mem' = [t \in Tasks |-> NoMem]
    /\ lock' = Nobody
    /\ edit' = NoEdit
    /\ UNCHANGED <<rowVars, runs, lessonVars, takes, chunksMade, videos, edits, faults>>

Reap_IgnoresHeartbeat(t) ==
    /\ row[t] = "processing"
    /\ row' = [row EXCEPT ![t] = "inqueued"]
    /\ UNCHANGED <<kind, force, saved, runVars, lessonVars, edit, countVars>>

\* The scanner puts a row that nobody heartbeats back into the queue.
Reap(t) ==
    /\ row[t] = "processing"
    /\ at[t] = "idle"
    /\ row' = [row EXCEPT ![t] = "inqueued"]
    /\ UNCHANGED <<kind, force, saved, runVars, lessonVars, edit, countVars>>

--------------------------------------------------------------------------------
(* Steps of a goroutine. *)

Goto(t, step) == at' = [at EXCEPT ![t] = step]

\* Any call may succeed or fail; a PostgreSQL call with a cancelled context fails, a
\* FoundationDB call takes no context.
Works == UNCHANGED faults
Breaks == faults < MaxFaults /\ faults' = faults + 1
CallOk(t) == ~cancelled[t] /\ Works
CallFails(t) == IF cancelled[t] THEN UNCHANGED faults ELSE Breaks

\* Where a stage goes on to when it is done.
AfterTranscribe(t) == IF kind[t] = "pipeline_run" THEN "transcribed" ELSE "succeed"
AfterChunk(t) == IF kind[t] = "pipeline_run" THEN "chunked" ELSE "succeed"

\* Executors.saveCheckpoint, while the row is its own; the error is ignored.  The
\* variables of the stage are gone.
Checkpoint(t, step, stage, next) ==
    /\ at[t] = step
    /\ Goto(t, next)
    /\ mem' = [mem EXCEPT ![t] = [NoMem EXCEPT !.force = mem[t].force]]
    /\ \/ /\ CallOk(t)
          /\ saved' = IF row[t] = "processing" THEN [saved EXCEPT ![t] = stage] ELSE saved
       \/ CallFails(t) /\ UNCHANGED saved
    /\ UNCHANGED <<kind, force, row, cancelled, runs, lock, lessonVars, edit,
                   takes, chunksMade, videos, edits, crashes>>

CheckpointStep(t) ==
    \/ Checkpoint(t, "transcribed", 1, "load")
    \/ Checkpoint(t, "chunked", 2, "targets")

\* runTask after Execute: the mark needs the row, a cancelled goroutine's call fails,
\* and an error leaves the row 'processing'.
Finish(t) ==
    /\ at[t] \in {"succeed", "fail"}
    /\ Goto(t, "idle")
    /\ cancelled' = [cancelled EXCEPT ![t] = FALSE]
    /\ mem' = [mem EXCEPT ![t] = NoMem]
    /\ \/ /\ CallOk(t)
          /\ row' = IF row[t] # "processing" THEN row
                    ELSE [row EXCEPT ![t] = IF at[t] = "succeed" THEN "succeeded" ELSE "failed"]
       \/ CallFails(t) /\ UNCHANGED row
    /\ UNCHANGED <<kind, force, saved, runs, lock, lessonVars, edit,
                   takes, chunksMade, videos, edits, crashes>>

--------------------------------------------------------------------------------
(* Transcribing: aitasks/svc Run, then transcript.RunExtract. *)

ReadVideo(t) ==
    /\ at[t] = "video"
    /\ \/ CallOk(t) /\ video # 0 /\ mem' = [mem EXCEPT ![t].video = video] /\ Goto(t, "purge")
       \/ CallOk(t) /\ video = 0 /\ Goto(t, "fail") /\ UNCHANGED mem
       \/ CallFails(t) /\ Goto(t, "fail") /\ UNCHANGED mem
    /\ UNCHANGED <<rowVars, cancelled, runs, lock, lessonVars, edit,
                   takes, chunksMade, videos, edits, crashes>>

\* DeleteTasksForLessonExcept: every other row of the lesson; the error is logged.
Purge(t) ==
    /\ at[t] = "purge"
    /\ Goto(t, "lock")
    /\ \/ /\ CallOk(t)
          /\ row' = [u \in Tasks |-> IF u # t /\ u \in Rows THEN "deleted" ELSE row[u]]
       \/ CallFails(t) /\ UNCHANGED row
    /\ UNCHANGED <<kind, force, saved, cancelled, runs, mem, lock, lessonVars, edit,
                   takes, chunksMade, videos, edits, crashes>>

\* TryAcquire, which refuses rather than waits.
TryAcquire(t) ==
    /\ at[t] = "lock"
    /\ IF lock = Nobody
       THEN lock' = t /\ Goto(t, "wipe_transcript")
       ELSE Goto(t, "fail") /\ UNCHANGED lock
    /\ UNCHANGED <<rowVars, cancelled, runs, mem, lessonVars, edit, countVars>>

\* DeleteLessonTranscripts, errors dropped.
WipeTranscript(t) ==
    /\ at[t] = "wipe_transcript"
    /\ Goto(t, "list")
    /\ \/ Works /\ transcript' = NoTranscript
       \/ Breaks /\ UNCHANGED transcript
    /\ UNCHANGED <<rowVars, cancelled, runs, mem, lock, video, chunkOf, text, quiz, orphans,
                   edit, takes, chunksMade, videos, edits, crashes>>

\* The chunk ids whose texts are to go; an error leaves the list empty.
ListChunks(t) ==
    /\ at[t] = "list"
    /\ Goto(t, "wipe_quiz")
    /\ \/ CallOk(t) /\ mem' = [mem EXCEPT ![t].chunks = Chunks]
       \/ CallFails(t) /\ UNCHANGED mem
    /\ UNCHANGED <<rowVars, cancelled, runs, lock, lessonVars, edit,
                   takes, chunksMade, videos, edits, crashes>>

\* DeleteLessonInteractionsByLesson, errors logged; without a connection the chunks
\* are not deleted either.
WipeQuiz(t) ==
    /\ at[t] = "wipe_quiz"
    /\ \/ /\ CallOk(t)
          /\ quiz' = [c \in ChunkIds |-> {}] /\ orphans' = FALSE
          /\ Goto(t, "wipe_chunks")
       \/ /\ CallFails(t)
          /\ \E next \in {"wipe_chunks", "wipe_texts"} : Goto(t, next)
          /\ UNCHANGED <<quiz, orphans>>
    /\ UNCHANGED <<rowVars, cancelled, runs, mem, lock, video, transcript, chunkOf, text,
                   edit, takes, chunksMade, videos, edits, crashes>>

\* DELETE of chunk rows: interactions they still have keep a NULL chunk_id.
DeletesChunks ==
    /\ chunkOf' = [c \in ChunkIds |-> NoTranscript]
    /\ quiz' = [c \in ChunkIds |-> {}]
    /\ orphans' = (orphans \/ \E c \in ChunkIds : quiz[c] # {})

WipeChunks_Skipped(t) ==
    /\ at[t] = "wipe_chunks"
    /\ Goto(t, "wipe_texts")
    /\ UNCHANGED <<rowVars, cancelled, runs, mem, lock, lessonVars, edit, countVars>>

\* DeleteLessonTranscriptChunks, errors logged.
WipeChunks(t) ==
    /\ at[t] = "wipe_chunks"
    /\ Goto(t, "wipe_texts")
    /\ \/ CallOk(t) /\ DeletesChunks
       \/ CallFails(t) /\ UNCHANGED <<chunkOf, quiz, orphans>>
    /\ UNCHANGED <<rowVars, cancelled, runs, mem, lock, video, transcript, text, edit,
                   takes, chunksMade, videos, edits, crashes>>

\* DeleteChunkTranscript for the listed chunks, errors dropped.
DeleteTexts(chunks) ==
    \/ Works /\ text' = [c \in ChunkIds |-> IF c \in chunks THEN NoTranscript ELSE text[c]]
    \/ Breaks /\ chunks # {} /\ UNCHANGED text

WipeTexts(t) ==
    /\ at[t] = "wipe_texts"
    /\ DeleteTexts(mem[t].chunks)
    /\ Goto(t, "stt")
    /\ UNCHANGED <<rowVars, cancelled, runs, mem, lock, video, transcript, chunkOf, quiz,
                   orphans, edit, takes, chunksMade, videos, edits, crashes>>

Transcribe_FailsLocked(t) ==
    /\ at[t] = "stt"
    /\ \/ ~cancelled[t] /\ Goto(t, "save_transcript")
       \/ Goto(t, "fail")
    /\ UNCHANGED <<rowVars, cancelled, runs, mem, lock, lessonVars, edit, countVars>>

\* Speech to text, which may fail or return garbage; the deferred Release runs.
Transcribe(t) ==
    /\ at[t] = "stt"
    /\ \/ ~cancelled[t] /\ Goto(t, "save_transcript") /\ UNCHANGED lock
       \/ Goto(t, "fail") /\ lock' = Nobody
    /\ UNCHANGED <<rowVars, cancelled, runs, mem, lessonVars, edit, countVars>>

\* SaveTranscript and SaveSegments; a failure is logged.
SaveTranscript(t) ==
    /\ at[t] = "save_transcript"
    /\ lock' = Nobody
    /\ Goto(t, AfterTranscribe(t))
    /\ \/ /\ transcript' = [video |-> mem[t].video, take |-> takes + 1]
          /\ takes' = takes + 1
          /\ Works
       \/ Breaks /\ UNCHANGED <<transcript, takes>>
    /\ UNCHANGED <<rowVars, cancelled, runs, mem, video, chunkOf, text, quiz, orphans, edit,
                   chunksMade, videos, edits, crashes>>

TranscribeStep(t) ==
    \/ ReadVideo(t) \/ Purge(t) \/ TryAcquire(t) \/ WipeTranscript(t) \/ ListChunks(t)
    \/ WipeQuiz(t) \/ WipeChunks(t) \/ WipeTexts(t) \/ Transcribe(t) \/ SaveTranscript(t)

--------------------------------------------------------------------------------
(* Chunking: transcript.RunChunk. *)

\* A transcript that cannot be read is one that is not there.
LoadTranscript(t) ==
    /\ at[t] = "load"
    /\ \/ /\ Works
          /\ transcript # NoTranscript
          /\ mem' = [mem EXCEPT ![t].text = transcript]
          /\ Goto(t, "propose")
       \/ /\ IF transcript = NoTranscript THEN Works ELSE Breaks
          /\ Goto(t, "fail")
          /\ UNCHANGED mem
    /\ UNCHANGED <<rowVars, cancelled, runs, lock, lessonVars, edit,
                   takes, chunksMade, videos, edits, crashes>>

\* Gemini proposes boundaries, or fails.
Propose(t) ==
    /\ at[t] = "propose"
    /\ \/ ~cancelled[t] /\ Goto(t, "swap")
       \/ Goto(t, "fail")
    /\ UNCHANGED <<rowVars, cancelled, runs, mem, lock, lessonVars, edit, countVars>>

SwapChunks_KeepsOld(t, n) ==
    LET fresh == (chunksMade + 1)..(chunksMade + n) IN
    /\ at[t] = "swap"
    /\ ~cancelled[t]
    /\ chunkOf' = [c \in ChunkIds |-> IF c \in fresh THEN mem[t].text ELSE chunkOf[c]]
    /\ mem' = [mem EXCEPT ![t].chunks = Chunks, ![t].fresh = fresh]
    /\ chunksMade' = chunksMade + n
    /\ Goto(t, "drop_texts")
    /\ UNCHANGED <<rowVars, cancelled, runs, lock, video, transcript, text, quiz, orphans, edit,
                   takes, videos, edits, crashes, faults>>

\* The transaction: the interactions of the chunks it lists, all chunks of the lesson,
\* n new ones.
SwapChunks(t, n) ==
    LET fresh == (chunksMade + 1)..(chunksMade + n) IN
    /\ at[t] = "swap"
    /\ \/ /\ CallOk(t)
          /\ chunkOf' = [c \in ChunkIds |-> IF c \in fresh THEN mem[t].text ELSE NoTranscript]
          /\ quiz' = [c \in ChunkIds |-> {}]
          /\ mem' = [mem EXCEPT ![t].chunks = Chunks, ![t].fresh = fresh]
          /\ chunksMade' = chunksMade + n
          /\ Goto(t, "drop_texts")
       \/ CallFails(t) /\ Goto(t, "fail") /\ UNCHANGED <<chunkOf, quiz, mem, chunksMade>>
    /\ UNCHANGED <<rowVars, cancelled, runs, lock, video, transcript, text, orphans, edit,
                   takes, videos, edits, crashes>>

DropTexts(t) ==
    /\ at[t] = "drop_texts"
    /\ DeleteTexts(mem[t].chunks)
    /\ Goto(t, "save_texts")
    /\ UNCHANGED <<rowVars, cancelled, runs, mem, lock, video, transcript, chunkOf, quiz,
                   orphans, edit, takes, chunksMade, videos, edits, crashes>>

\* One SaveChunkTranscript per new chunk; a failure is logged.
SaveTexts(t) ==
    LET fresh == mem[t].fresh  next == CHOOSE c \in fresh : \A d \in fresh : c <= d IN
    /\ at[t] = "save_texts"
    /\ mem' = [mem EXCEPT ![t].fresh = @ \ {next}]
    /\ Goto(t, IF fresh = {next} THEN AfterChunk(t) ELSE "save_texts")
    /\ \/ Works /\ text' = [text EXCEPT ![next] = mem[t].text]
       \/ Breaks /\ UNCHANGED text
    /\ UNCHANGED <<rowVars, cancelled, runs, lock, video, transcript, chunkOf, quiz, orphans,
                   edit, takes, chunksMade, videos, edits, crashes>>

ChunkStep(t) ==
    \/ LoadTranscript(t) \/ Propose(t) \/ DropTexts(t) \/ SaveTexts(t)
    \/ \E n \in 1..2 : chunksMade + n <= MaxChunks /\ SwapChunks(t, n)

--------------------------------------------------------------------------------
(* Generating: generation.Service.Run for the whole lesson. *)

LoadTargets(t) ==
    /\ at[t] = "targets"
    /\ \/ /\ CallOk(t)
          /\ mem' = [mem EXCEPT ![t].chunks = Chunks]
          /\ Goto(t, IF Chunks = {} THEN "fail" ELSE IF mem[t].force THEN "next" ELSE "known")
       \/ CallFails(t) /\ Goto(t, "fail") /\ UNCHANGED mem
    /\ UNCHANGED <<rowVars, cancelled, runs, lock, lessonVars, edit,
                   takes, chunksMade, videos, edits, crashes>>

LoadKnown_Nothing(t) ==
    /\ at[t] = "known"
    /\ Goto(t, "next")
    /\ UNCHANGED <<rowVars, cancelled, runs, mem, lock, lessonVars, edit, countVars>>

\* chunkHasInteractions; when it cannot be read every chunk is attempted.
LoadKnown(t) ==
    /\ at[t] = "known"
    /\ Goto(t, "next")
    /\ \/ CallOk(t) /\ mem' = [mem EXCEPT ![t].known = {c \in ChunkIds : quiz[c] # {}}]
       \/ CallFails(t) /\ UNCHANGED mem
    /\ UNCHANGED <<rowVars, cancelled, runs, lock, lessonVars, edit,
                   takes, chunksMade, videos, edits, crashes>>

CurrentChunk(t) == CHOOSE c \in mem[t].chunks : \A d \in mem[t].chunks : c <= d

\* On to the next chunk.
Done(t) == [mem EXCEPT ![t].chunks = @ \ {CurrentChunk(t)}]

\* One turn of the loop up to the answer of the model.  A cancelled context makes Run
\* return nil.  A chunk that has interactions or no text is skipped.
NextChunk(t) ==
    /\ at[t] = "next"
    /\ mem[t].chunks # {}
    /\ \/ cancelled[t] /\ Goto(t, "succeed") /\ UNCHANGED mem
       \/ /\ ~cancelled[t]
          /\ LET skipped == CurrentChunk(t) \in mem[t].known
                            \/ text[CurrentChunk(t)] = NoTranscript
             IN  \/ skipped /\ mem' = Done(t) /\ UNCHANGED at
                 \/ ~skipped /\ Goto(t, "ask") /\ UNCHANGED mem
    /\ UNCHANGED <<rowVars, cancelled, runs, lock, lessonVars, edit, countVars>>

\* The model answers with items, with none, or fails.
Generate(t) ==
    /\ at[t] = "ask"
    /\ \/ cancelled[t] /\ Goto(t, "succeed") /\ UNCHANGED mem
       \/ ~cancelled[t] /\ Goto(t, "keep") /\ UNCHANGED mem
       \/ ~cancelled[t] /\ Goto(t, "next") /\ mem' = Done(t)
       \/ ~cancelled[t] /\ Goto(t, "next") /\ mem' = [Done(t) EXCEPT ![t].failed = TRUE]
    /\ UNCHANGED <<rowVars, cancelled, runs, lock, lessonVars, edit, countVars>>

\* saveInteractionsForChunk: a chunk that is gone violates the foreign key, and a
\* failed save is logged.
SaveInteractions(t) ==
    LET c == CurrentChunk(t)  batch == <<t, runs[t]>> IN
    /\ at[t] = "keep"
    /\ \/ /\ CallOk(t) /\ chunkOf[c] # NoTranscript
          /\ quiz' = [quiz EXCEPT ![c] = IF mem[t].force THEN {batch} ELSE @ \union {batch}]
          /\ mem' = [Done(t) EXCEPT ![t].kept = TRUE]
          /\ Goto(t, "next")
       \/ /\ CallOk(t) /\ chunkOf[c] = NoTranscript
          /\ mem' = Done(t) /\ Goto(t, "next") /\ UNCHANGED quiz
       \/ /\ CallFails(t)
          /\ mem' = Done(t) /\ UNCHANGED quiz
          /\ Goto(t, IF cancelled[t] THEN "succeed" ELSE "next")
    /\ UNCHANGED <<rowVars, cancelled, runs, lock, video, transcript, chunkOf, text, orphans,
                   edit, takes, chunksMade, videos, edits, crashes>>

\* Nothing saved and the model failed is a failure, everything else a success.
Generated(t) ==
    /\ at[t] = "next"
    /\ mem[t].chunks = {}
    /\ Goto(t, IF mem[t].failed /\ ~mem[t].kept THEN "fail" ELSE "succeed")
    /\ UNCHANGED <<rowVars, cancelled, runs, mem, lock, lessonVars, edit, countVars>>

GenerateStep(t) ==
    \/ LoadTargets(t) \/ LoadKnown(t) \/ NextChunk(t) \/ Generate(t)
    \/ SaveInteractions(t) \/ Generated(t)

--------------------------------------------------------------------------------
(* The teacher empties the lesson or uploads another video; one call at a time. *)

EditGoto(step) == edit' = [edit EXCEPT !.at = step]

\* Both read the video and list the chunks first, an upload only if there was a video.
BeginEdit(step) ==
    /\ edit = NoEdit
    /\ TeacherActs
    /\ edits < MaxEdits
    /\ edits' = edits + 1
    /\ edit' = [at |-> step, had |-> video # 0,
                chunks |-> IF step = "reset_quiz" \/ video # 0 THEN Chunks ELSE {}]
    /\ UNCHANGED <<rowVars, runVars, lessonVars, takes, chunksMade, videos, crashes, faults>>

\* ResetLessonContent: statement by statement on one connection.
ResetQuiz ==
    /\ edit.at = "reset_quiz"
    /\ EditGoto("reset_chunks")
    /\ quiz' = [c \in ChunkIds |-> {}] /\ orphans' = FALSE
    /\ UNCHANGED <<rowVars, runVars, video, transcript, chunkOf, text, countVars>>

ResetChunks ==
    /\ edit.at = "reset_chunks"
    /\ EditGoto("reset_tasks")
    /\ DeletesChunks
    /\ UNCHANGED <<rowVars, runVars, video, transcript, text, countVars>>

AllRowsDeleted == [t \in Tasks |-> IF t \in Rows THEN "deleted" ELSE row[t]]

ResetTasks ==
    /\ edit.at = "reset_tasks"
    /\ EditGoto("reset_video")
    /\ row' = AllRowsDeleted
    /\ UNCHANGED <<kind, force, saved, runVars, lessonVars, countVars>>

ResetVideo ==
    /\ edit.at = "reset_video"
    /\ EditGoto("clean_transcript")
    /\ video' = 0
    /\ UNCHANGED <<rowVars, runVars, transcript, chunkOf, text, quiz, orphans, countVars>>

\* UpdateLessonVideo's transaction.
UploadVideo ==
    /\ edit.at = "upload"
    /\ video' = videos + 1 /\ videos' = videos + 1
    /\ IF edit.had
       THEN /\ EditGoto("clean_transcript")
            /\ quiz' = [c \in ChunkIds |-> {}] /\ orphans' = FALSE
            /\ chunkOf' = [c \in ChunkIds |-> NoTranscript]
            /\ row' = AllRowsDeleted
       ELSE edit' = NoEdit /\ UNCHANGED <<quiz, orphans, chunkOf, row>>
    /\ UNCHANGED <<kind, force, saved, runVars, transcript, text,
                   takes, chunksMade, edits, crashes, faults>>

CleanTranscript ==
    /\ edit.at = "clean_transcript"
    /\ EditGoto("clean_texts")
    /\ transcript' = NoTranscript
    /\ UNCHANGED <<rowVars, runVars, video, chunkOf, text, quiz, orphans, countVars>>

CleanTexts ==
    /\ edit.at = "clean_texts"
    /\ edit' = NoEdit
    /\ text' = [c \in ChunkIds |-> IF c \in edit.chunks THEN NoTranscript ELSE text[c]]
    /\ UNCHANGED <<rowVars, runVars, video, transcript, chunkOf, quiz, orphans, countVars>>

EditStep ==
    \/ BeginEdit("reset_quiz") \/ BeginEdit("upload")
    \/ ResetQuiz \/ ResetChunks \/ ResetTasks \/ ResetVideo \/ UploadVideo
    \/ CleanTranscript \/ CleanTexts

--------------------------------------------------------------------------------

QueueStep ==
    \/ \E k \in Started, f \in BOOLEAN : StartLessonTask(k, f)
    \/ \E t \in Tasks : CancelLessonTask(t) \/ Claim(t) \/ Lose(t) \/ Reap(t)
    \/ Crash

ExecutorStep(t) ==
    TranscribeStep(t) \/ ChunkStep(t) \/ GenerateStep(t) \/ CheckpointStep(t) \/ Finish(t)

Next ==
    \/ QueueStep
    \/ \E t \in Tasks : ExecutorStep(t)
    \/ EditStep

Spec == Init /\ [][Next]_vars

--------------------------------------------------------------------------------
(* Properties. *)

Steps == {"idle", "succeed", "fail", "transcribed", "chunked",
          "video", "purge", "lock", "wipe_transcript", "list", "wipe_quiz", "wipe_chunks",
          "wipe_texts", "stt", "save_transcript",
          "load", "propose", "swap", "drop_texts", "save_texts",
          "targets", "known", "next", "ask", "keep"}
EditSteps == {"idle", "reset_quiz", "reset_chunks", "reset_tasks", "reset_video", "upload",
              "clean_transcript", "clean_texts"}
Transcripts == [video: 0..(MaxEdits + 1), take: Nat]
Batches == Tasks \X (1..MaxRuns)

\* The types of the variables; interactions hang on existing chunks only, and a task
\* that does not run has no goroutine.
TypeOK ==
    /\ kind \in [Tasks -> Kinds \union {"none"}]
    /\ force \in [Tasks -> BOOLEAN]
    /\ row \in [Tasks -> Active \union {"absent", "succeeded", "failed", "cancelled", "deleted"}]
    /\ saved \in [Tasks -> 0..2]
    /\ at \in [Tasks -> Steps]
    /\ cancelled \in [Tasks -> BOOLEAN]
    /\ runs \in [Tasks -> 0..MaxRuns]
    /\ mem \in [Tasks -> [video: 0..(MaxEdits + 1), text: Transcripts, chunks: SUBSET ChunkIds,
                          fresh: SUBSET ChunkIds, known: SUBSET ChunkIds, force: BOOLEAN,
                          kept: BOOLEAN, failed: BOOLEAN]]
    /\ lock \in Tasks \union {Nobody}
    /\ video \in 0..(MaxEdits + 1)
    /\ transcript \in Transcripts
    /\ chunkOf \in [ChunkIds -> Transcripts]
    /\ text \in [ChunkIds -> Transcripts]
    /\ quiz \in [ChunkIds -> SUBSET Batches]
    /\ orphans \in BOOLEAN
    /\ edit \in [at: EditSteps, had: BOOLEAN, chunks: SUBSET ChunkIds]
    /\ \A c \in ChunkIds : quiz[c] # {} => c \in Chunks
    /\ \A t \in Tasks : row[t] \in {"absent", "inqueued"} => at[t] = "idle"

\* The lesson's entry of analysisLocks is held exactly by a goroutine between its
\* TryAcquire and its return, whatever fails, is cancelled or crashes on the way; a
\* lock that stayed behind would refuse every later transcription of the lesson.
LockHeldByRunner ==
    \A t \in Tasks :
        lock = t <=> at[t] \in {"wipe_transcript", "list", "wipe_quiz", "wipe_chunks",
                                "wipe_texts", "stt", "save_transcript"}

\* generation/service.go: chunks that have questions are skipped "so a
\* re-run/pipeline-resume never touches them (this is what prevents duplicate
\* accumulation on resume)": while at most one crash or failing call happens, a task
\* leaves at most one batch in a chunk however often it is claimed, whatever other
\* tasks, cancellations, resets and uploads do meanwhile.
NoResumeDuplicates ==
    \A c \in ChunkIds : \A b, d \in quiz[c] : b[1] = d[1] => b = d

\* extract.go: a re-transcription "leaves a consistent state instead of orphaned
\* chunks".  When nothing is going on, the chunks were cut from the transcript the
\* lesson has, and no interaction has lost its chunk.
ContentConsistent ==
    Quiet => /\ \A c \in Chunks : chunkOf[c] = transcript
             /\ ~orphans

\* While teachers are patient, a chunk has the batch of one generation, through
\* crashes, resumes and repeated tasks.
OneGenerationEach == \A c \in ChunkIds : Cardinality(quiz[c]) <= 1

\* pipeline_run.go: a pipeline that succeeds, resumed or not, leaves a transcript of
\* the uploaded video, chunks cut from it and the text of each of them.
PipelineDelivers ==
    [][\A t \in Tasks :
          kind[t] = "pipeline_run" /\ row[t] # "succeeded" /\ row'[t] = "succeeded" =>
            /\ transcript # NoTranscript /\ transcript.video = video
            /\ Chunks # {}
            /\ \A c \in Chunks : chunkOf[c] = transcript /\ text[c] = transcript]_vars

================================================================================
