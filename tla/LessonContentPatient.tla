--------------------------- MODULE LessonContentPatient ---------------------------
(***************************************************************************)
(* What TLAPS proves about LessonContent for patient teachers and stores   *)
(* whose calls do not fail, for any number of tasks, runs, chunks, edits   *)
(* and crashes: the lesson is consistent whenever nothing is going on, a   *)
(* chunk has the batch of one generation, and a pipeline that succeeds     *)
(* delivers.  At most one task or one edit is going on, so a crash leaves  *)
(* a half-done rewriting to the task that will do it again from the start. *)
(***************************************************************************)
EXTENDS LessonContentProofs

--------------------------------------------------------------------------------
(* The invariant. *)

Transcribing == {"video", "purge", "lock", "wipe_transcript", "list", "wipe_quiz",
                 "wipe_chunks", "wipe_texts", "stt", "save_transcript"}
Cutting == {"propose", "swap", "drop_texts", "save_texts"}
Generating == {"targets", "known", "next", "ask", "keep"}

\* Something of the task is going on or is still to come.
Busy(t) == at[t] # "idle" \/ row[t] \in Active

OneAtATime ==
    /\ \A t, u \in Tasks : Busy(t) /\ Busy(u) => t = u
    /\ \A t \in Tasks : Busy(t) => edit = NoEdit

NoQuiz == \A c \in ChunkIds : quiz[c] = {}
NoChunks == \A c \in ChunkIds : chunkOf[c] = NoTranscript
Consistent == \A c \in ChunkIds : chunkOf[c] \in {NoTranscript, transcript}
OneBatch == \A c \in ChunkIds : \A b, d \in quiz[c] : b = d
HasTranscript == transcript # NoTranscript /\ transcript.video = video
HasTexts ==
    /\ Chunks # {}
    /\ \A c \in ChunkIds : chunkOf[c] # NoTranscript => text[c] = transcript

\* A pipeline with the stages up to one in its checkpoint.
Reaches(t, stage) == kind[t] = "pipeline_run" /\ saved[t] = stage

\* A goroutine has its row and its context.
Owned(t) == ~cancelled[t] /\ (at[t] # "idle" => row[t] = "processing")

\* Which tasks take which steps, and behind which checkpoint.
Staged(t) ==
    /\ kind[t] = "none" => saved[t] = 0
    /\ at[t] \in Transcribing => kind[t] = "transcribe" \/ Reaches(t, 0)
    /\ at[t] = "transcribed" => Reaches(t, 0)
    /\ at[t] \in {"load"} \union Cutting => kind[t] = "chunk" \/ Reaches(t, 1)
    /\ at[t] = "chunked" => Reaches(t, 1)
    /\ at[t] \in Generating => kind[t] = "quiz_gen" \/ Reaches(t, 2)
    /\ at[t] = "succeed" /\ kind[t] = "pipeline_run" => saved[t] = 2

\* A task that has the old content to delete, in this run or in the next.
Rewriting(t) ==
    /\ kind[t] = "transcribe" \/ Reaches(t, 0)
    /\ row[t] \in Active
    /\ at[t] \in {"idle", "video", "purge", "lock", "wipe_transcript", "list",
                  "wipe_quiz", "wipe_chunks"}

\* What holds while a task transcribes.
Transcribes(t) ==
    /\ row[t] \in Active /\ kind[t] \in {"transcribe", "pipeline_run"} => video # 0
    /\ at[t] \in Transcribing \ {"video"} => mem[t].video = video
    /\ at[t] = "wipe_chunks" => NoQuiz
    /\ at[t] \in {"wipe_texts", "stt", "save_transcript"} => NoChunks

\* While it chunks.
Cuts(t) ==
    /\ at[t] \in Cutting => mem[t].text = transcript /\ transcript # NoTranscript
    /\ at[t] \in {"drop_texts", "save_texts"} => Chunks # {}
    /\ at[t] = "drop_texts" => Chunks \subseteq mem[t].fresh
    /\ at[t] = "save_texts" => \A c \in Chunks \ mem[t].fresh : text[c] = transcript

\* While it generates.
Fills(t) ==
    at[t] \in Filling /\ ~mem[t].force =>
        \A c \in mem[t].chunks \ mem[t].known : quiz[c] = {}

\* What a pipeline has done stays done until it ends.
Keeps(t) ==
    kind[t] = "pipeline_run" /\ row[t] \in Active =>
        /\ saved[t] >= 1 \/ at[t] = "transcribed" => HasTranscript
        /\ saved[t] = 2 \/ at[t] = "chunked" => HasTexts

Own(t) == Owned(t) /\ Staged(t) /\ Transcribes(t) /\ Cuts(t) /\ Fills(t) /\ Keeps(t)

EditInv ==
    /\ edit.at = "reset_chunks" => NoQuiz
    /\ edit.at \in {"reset_tasks", "reset_video", "clean_transcript", "clean_texts"} => NoChunks

\* The lesson: only a task that rewrites it may have left it inconsistent.
LessonInv ==
    /\ ~orphans
    /\ Consistent \/ \E t \in Tasks : Rewriting(t)
    /\ OneBatch

PatientInv ==
    /\ Resumable /\ LockHeldByRunner
    /\ OneAtATime /\ EditInv /\ LessonInv
    /\ \A t \in Tasks : Own(t)

Calm == Patient /\ MaxFaults = 0

--------------------------------------------------------------------------------
(* A goroutine is alone. *)

\* The lesson as the one task that is going on sees it.
Sole(t) == ~orphans /\ OneBatch /\ (Consistent \/ Rewriting(t))

Alone(t) ==
    /\ Typed /\ AsksUnknown /\ MaxFaults = 0
    /\ Own(t) /\ Sole(t)
    /\ row[t] = "processing"
    /\ at[t] \notin LockSteps => lock = Nobody

\* While teachers are patient a running goroutine excludes any other one and any edit.
LEMMA RunnerIsAlone ==
    ASSUME PatientInv, Calm, NEW t \in Tasks, at[t] # "idle"
    PROVE  /\ Alone(t)
           /\ edit = NoEdit
           /\ \A u \in Tasks \ {t} : at[u] = "idle" /\ row[u] \notin Active
<1>1. /\ edit = NoEdit
      /\ \A u \in Tasks \ {t} : at[u] = "idle" /\ row[u] \notin Active
  BY DEF PatientInv, OneAtATime, Busy
<1>2. row[t] = "processing"
  BY DEF PatientInv, Own, Owned
<1>3. Sole(t)
  BY <1>1 DEF PatientInv, LessonInv, Sole, Rewriting
<1>4. at[t] \notin LockSteps => lock = Nobody
  BY <1>1 DEF PatientInv, Resumable, Typed, RunTypes, LockHeldByRunner, LockSteps
<1> QED
  BY <1>1, <1>2, <1>3, <1>4 DEF PatientInv, Resumable, Calm, Alone

\* Its calls work.
LEMMA CallsWork ==
    ASSUME NEW t \in Tasks, Alone(t)
    PROVE  ~cancelled[t] /\ ~CallFails(t) /\ ~Breaks
BY DEF Alone, Own, Owned, Typed, Counted, CallFails, Breaks

\* What every step of it but its last leaves alone.
Acts(t) ==
    /\ UNCHANGED <<kind, edit, cancelled>>
    /\ row'[t] = row[t] /\ at'[t] # "idle"
    /\ \A u \in Tasks \ {t} : /\ at'[u] = at[u] /\ saved'[u] = saved[u]
                              /\ row'[u] \in {row[u], "deleted"}

\* Until it returns, an executor changes its own goroutine and deletes rows, no more.
LEMMA ExecutorActs ==
    ASSUME Typed, NEW t \in Tasks, ExecutorStep(t), ~Finish(t)
    PROVE  Acts(t)
<1> USE DEF rowVars, runVars, lessonVars, countVars
<1>t. /\ at \in [Tasks -> Steps] /\ row \in [Tasks -> Rowed] /\ saved \in [Tasks -> 0..2]
  BY DEF Typed, RowTypes, RunTypes
<1>1. StepOf(t)
  BY ExecutorSteps
<1>2. /\ at'[t] # "idle" /\ cancelled' = cancelled
      /\ \A u \in Tasks \ {t} : at'[u] = at[u] /\ row'[u] \in {row[u], "deleted"}
  BY <1>1, <1>t DEF StepOf
<1>3. CASE TranscribeStep(t)
  <2>1. row'[t] = row[t]
    BY <1>3, <1>t DEF TranscribeStep, ReadVideo, Purge, TryAcquire, WipeTranscript, ListChunks,
       WipeQuiz, WipeChunks, WipeTexts, Transcribe, SaveTranscript
  <2>2. UNCHANGED <<kind, edit, saved>>
    BY <1>3 DEF TranscribeStep, ReadVideo, Purge, TryAcquire, WipeTranscript, ListChunks,
       WipeQuiz, WipeChunks, WipeTexts, Transcribe, SaveTranscript
  <2> QED
    BY <1>2, <2>1, <2>2 DEF Acts
<1>4. CASE ChunkStep(t)
  <2>1. UNCHANGED <<kind, edit, saved, row>>
    BY <1>4 DEF ChunkStep, LoadTranscript, Propose, DropTexts, SaveTexts, SwapChunks
  <2> QED
    BY <1>2, <2>1 DEF Acts
<1>5. CASE GenerateStep(t)
  <2>1. UNCHANGED <<kind, edit, saved, row>>
    BY <1>5 DEF GenerateStep, LoadTargets, LoadKnown, NextChunk, Generate,
       SaveInteractions, Generated
  <2> QED
    BY <1>2, <2>1 DEF Acts
<1>6. CASE CheckpointStep(t)
  <2>1. UNCHANGED <<kind, edit, row>> /\ \A u \in Tasks \ {t} : saved'[u] = saved[u]
    BY <1>6, <1>t DEF CheckpointStep, Checkpoint
  <2> QED
    BY <1>2, <2>1 DEF Acts
<1> QED
  BY <1>3, <1>4, <1>5, <1>6 DEF ExecutorStep

\* So it is enough to look at the task itself.
LEMMA OwnStepSuffices ==
    ASSUME PatientInv, Calm, NEW t \in Tasks, at[t] # "idle", Acts(t), Own(t)', Sole(t)'
    PROVE  /\ OneAtATime' /\ EditInv' /\ LessonInv'
           /\ \A u \in Tasks : Own(u)'
<1>1. /\ edit' = NoEdit
      /\ \A u \in Tasks \ {t} : at'[u] = "idle" /\ row'[u] \notin Active
  BY RunnerIsAlone DEF Acts, Active
<1>2. OneAtATime'
  BY <1>1 DEF OneAtATime, Busy
<1>3. EditInv'
  BY <1>1 DEF EditInv, NoEdit
<1>4. LessonInv'
  BY DEF LessonInv, Sole
<1>5. ASSUME NEW u \in Tasks \ {t}
      PROVE  Own(u)'
  <2>1. ~cancelled'[u] /\ (kind'[u] = "none" => saved'[u] = 0)
    BY DEF PatientInv, Own, Owned, Staged, Acts
  <2>2. Owned(u)' /\ Staged(u)'
    BY <1>1, <2>1 DEF Owned, Staged, Transcribing, Cutting, Generating
  <2>3. Transcribes(u)' /\ Cuts(u)'
    BY <1>1 DEF Transcribes, Cuts, Transcribing, Cutting
  <2>4. Fills(u)' /\ Keeps(u)'
    BY <1>1 DEF Fills, Keeps, Filling
  <2> QED
    BY <2>2, <2>3, <2>4 DEF Own
<1> QED
  BY <1>2, <1>3, <1>4, <1>5

--------------------------------------------------------------------------------
(* The steps of a task that is alone. *)

LEMMA TranscribeOwn ==
    ASSUME NEW t \in Tasks, Alone(t), TranscribeStep(t)
    PROVE  Own(t)' /\ Sole(t)'
<1> USE DEF Goto, rowVars, runVars, lessonVars, countVars
<1>t. /\ at \in [Tasks -> Steps] /\ row \in [Tasks -> Rowed] /\ mem \in [Tasks -> Mems]
      /\ mem[t] \in Mems /\ mem[t].video \in Videos
  BY DEF Alone, Typed, RowTypes, RunTypes, Mems
<1>w. ~cancelled[t] /\ ~CallFails(t) /\ ~Breaks
  BY CallsWork
<1>a. /\ at[t] \in Transcribing /\ row[t] = "processing"
      /\ kind[t] = "transcribe" \/ Reaches(t, 0)
      /\ video # 0
      /\ at[t] # "video" => mem[t].video = video
      /\ ~orphans /\ OneBatch /\ (Consistent \/ Rewriting(t))
  <2>1. at[t] \in Transcribing
    BY DEF TranscribeStep, ReadVideo, Purge, TryAcquire, WipeTranscript, ListChunks,
       WipeQuiz, WipeChunks, WipeTexts, Transcribe, SaveTranscript, Transcribing
  <2> QED
    BY <2>1 DEF Alone, Own, Staged, Transcribes, Sole, Active, Reaches
\* The steps that leave the kind, the checkpoint, the row and the video alone.
<1>0. ASSUME UNCHANGED <<kind, saved, cancelled, video>>, row'[t] = row[t],
             at'[t] \in (Transcribing \ {"video"}) \union {"fail", "succeed", "transcribed"},
             at'[t] = "succeed" => kind[t] = "transcribe",
             at'[t] = "transcribed" => kind[t] = "pipeline_run" /\ HasTranscript',
             at'[t] \in Transcribing => mem'[t].video = video,
             at'[t] = "wipe_chunks" => NoQuiz',
             at'[t] \in {"wipe_texts", "stt", "save_transcript"} => NoChunks'
      PROVE  Own(t)'
  <2>1. Owned(t)' /\ Staged(t)'
    BY <1>0, <1>a, <1>w DEF Owned, Staged, Reaches, Transcribing, Cutting, Generating
  <2>2. Transcribes(t)'
    BY <1>0, <1>a DEF Transcribes, Transcribing
  <2>3. Cuts(t)' /\ Fills(t)'
    BY <1>0 DEF Cuts, Fills, Cutting, Filling, Transcribing
  <2>4. Keeps(t)'
    BY <1>0, <1>a DEF Keeps, Reaches, Transcribing
  <2> QED
    BY <2>1, <2>2, <2>3, <2>4 DEF Own
\* Those that do not touch the chunks and stay where they are not missed.
<1>00. ASSUME UNCHANGED <<kind, saved, quiz, orphans>>, row'[t] = row[t],
              at'[t] \in {"purge", "lock", "wipe_transcript", "list", "wipe_quiz", "wipe_chunks"}
       PROVE  Sole(t)'
  BY <1>00, <1>a DEF Sole, OneBatch, Rewriting, Reaches, Active
<1>1. CASE ReadVideo(t)
  <2>1. /\ at'[t] = "purge" /\ mem'[t].video = video
        /\ UNCHANGED <<rowVars, cancelled, lessonVars>>
    BY <1>1, <1>a, <1>t, <1>w DEF ReadVideo, Mems
  <2> QED
    BY <1>0, <1>00, <2>1 DEF Transcribing
<1>2. CASE Purge(t)
  <2>1. /\ at'[t] = "lock" /\ row'[t] = row[t]
        /\ UNCHANGED <<kind, saved, cancelled, mem, lessonVars>>
    BY <1>2, <1>t, <1>w DEF Purge
  <2>2. at[t] # "video"
    BY <1>2 DEF Purge
  <2> QED
    BY <1>0, <1>00, <1>a, <2>1, <2>2 DEF Transcribing
<1>3. CASE TryAcquire(t)
  <2>1. lock = Nobody
    BY <1>3 DEF TryAcquire, Alone, LockSteps
  <2>2. at'[t] = "wipe_transcript" /\ UNCHANGED <<rowVars, cancelled, mem, lessonVars>>
    BY <1>3, <1>t, <2>1 DEF TryAcquire
  <2>3. at[t] # "video"
    BY <1>3 DEF TryAcquire
  <2> QED
    BY <1>0, <1>00, <1>a, <2>2, <2>3 DEF Transcribing
<1>4. CASE WipeTranscript(t)
  <2>1. /\ at'[t] = "list" /\ at[t] # "video"
        /\ UNCHANGED <<rowVars, cancelled, mem, video, quiz, orphans>>
    BY <1>4, <1>t DEF WipeTranscript
  <2> QED
    BY <1>0, <1>00, <1>a, <2>1 DEF Transcribing
<1>5. CASE ListChunks(t)
  <2>1. /\ at'[t] = "wipe_quiz" /\ at[t] # "video" /\ mem'[t].video = mem[t].video
        /\ UNCHANGED <<rowVars, cancelled, lessonVars>>
    BY <1>5, <1>t, <1>w DEF ListChunks, Mems
  <2> QED
    BY <1>0, <1>00, <1>a, <2>1 DEF Transcribing
<1>6. CASE WipeQuiz(t)
  <2>1. /\ at'[t] = "wipe_chunks" /\ at[t] # "video"
        /\ quiz' = [c \in ChunkIds |-> {}] /\ orphans' = FALSE
        /\ UNCHANGED <<rowVars, cancelled, mem, video, transcript, chunkOf>>
    BY <1>6, <1>t, <1>w DEF WipeQuiz
  <2>2. NoQuiz'
    BY <2>1 DEF NoQuiz
  <2>3. Own(t)'
    BY <1>0, <1>a, <2>1, <2>2 DEF Transcribing
  <2>4. Sole(t)'
    BY <1>a, <2>1 DEF Sole, OneBatch, Rewriting, Reaches, Active
  <2> QED
    BY <2>3, <2>4
<1>7. CASE WipeChunks(t)
  <2>1. /\ at'[t] = "wipe_texts" /\ at[t] = "wipe_chunks"
        /\ UNCHANGED <<rowVars, cancelled, mem, video, transcript>>
    BY <1>7, <1>t DEF WipeChunks
  <2>2. DeletesChunks
    BY <1>7, <1>w DEF WipeChunks
  <2>3. NoQuiz
    BY <2>1 DEF Alone, Own, Transcribes
  <2>4. NoChunks' /\ OneBatch' /\ ~orphans' /\ Consistent'
    BY <1>a, <2>2, <2>3 DEF DeletesChunks, NoChunks, NoQuiz, OneBatch, Consistent
  <2> QED
    BY <1>0, <1>a, <2>1, <2>4 DEF Transcribing, Sole
<1>c. ASSUME at[t] \in {"wipe_texts", "stt", "save_transcript"},
             UNCHANGED <<chunkOf, quiz, orphans>>
      PROVE  NoChunks' /\ Sole(t)'
  BY <1>c, <1>a DEF Alone, Own, Transcribes, NoChunks, Sole, OneBatch, Consistent
<1>8. CASE WipeTexts(t)
  <2>1. /\ at'[t] = "stt" /\ at[t] = "wipe_texts"
        /\ UNCHANGED <<rowVars, cancelled, mem, video, transcript, chunkOf, quiz, orphans>>
    BY <1>8, <1>t DEF WipeTexts
  <2> QED
    BY <1>0, <1>a, <1>c, <2>1 DEF Transcribing
<1>9. CASE Transcribe(t)
  <2>1. /\ at'[t] \in {"save_transcript", "fail"} /\ at[t] = "stt"
        /\ UNCHANGED <<rowVars, cancelled, mem, lessonVars>>
    BY <1>9, <1>t DEF Transcribe
  <2> QED
    BY <1>0, <1>a, <1>c, <2>1 DEF Transcribing
<1>10. CASE SaveTranscript(t)
  <2>1. /\ at'[t] = AfterTranscribe(t) /\ at[t] = "save_transcript"
        /\ transcript' = [video |-> mem[t].video, take |-> takes + 1]
        /\ UNCHANGED <<rowVars, cancelled, mem, video, chunkOf, quiz, orphans>>
    BY <1>10, <1>t, <1>w DEF SaveTranscript
  <2>2. HasTranscript'
    BY <1>a, <2>1 DEF HasTranscript, NoTranscript
  <2> QED
    BY <1>0, <1>a, <1>c, <2>1, <2>2 DEF AfterTranscribe, Reaches, Transcribing
<1> QED
  BY <1>1, <1>2, <1>3, <1>4, <1>5, <1>6, <1>7, <1>8, <1>9, <1>10 DEF TranscribeStep

\* Cutting the transcript keeps what the run that cuts it owes the lesson.
LEMMA ChunkOwn ==
    ASSUME NEW t \in Tasks, Alone(t), ChunkStep(t)
    PROVE  Own(t)' /\ Sole(t)'
<1> USE DEF Goto, rowVars, runVars, lessonVars, countVars
<1>t. /\ at \in [Tasks -> Steps] /\ mem \in [Tasks -> Mems] /\ mem[t] \in Mems
      /\ text \in [ChunkIds -> Transcripts] /\ chunkOf \in [ChunkIds -> Transcripts]
  BY DEF Alone, Typed, RunTypes, LessonTypes
<1>w. ~cancelled[t] /\ ~CallFails(t) /\ ~Breaks
  BY CallsWork
<1>a. /\ at[t] \in {"load"} \union Cutting /\ row[t] = "processing"
      /\ kind[t] = "chunk" \/ Reaches(t, 1)
      /\ kind[t] = "pipeline_run" => video # 0 /\ HasTranscript
      /\ at[t] \in Cutting => mem[t].text = transcript /\ transcript # NoTranscript
      /\ ~orphans /\ OneBatch /\ Consistent
  <2>1. at[t] \in {"load"} \union Cutting
    BY DEF ChunkStep, LoadTranscript, Propose, DropTexts, SaveTexts, SwapChunks, Cutting
  <2> QED
    BY <2>1 DEF Alone, Own, Staged, Transcribes, Cuts, Keeps, Sole, Active, Reaches,
       Rewriting, Cutting
<1>0. ASSUME UNCHANGED <<rowVars, cancelled, video, transcript>>,
             at'[t] \in Cutting \union {"fail", "succeed", "chunked"},
             at'[t] = "succeed" => kind[t] = "chunk",
             at'[t] = "chunked" => kind[t] = "pipeline_run" /\ HasTexts',
             Cuts(t)'
      PROVE  Own(t)'
  <2>1. Owned(t)' /\ Staged(t)'
    BY <1>0, <1>a, <1>w DEF Owned, Staged, Reaches, Transcribing, Cutting, Generating
  <2>2. Transcribes(t)'
    BY <1>0, <1>a DEF Transcribes, Transcribing, Cutting, Reaches
  <2>3. Fills(t)'
    BY <1>0 DEF Fills, Cutting, Filling
  <2>4. Keeps(t)'
    BY <1>0, <1>a DEF Keeps, Reaches, Cutting, HasTranscript
  <2> QED
    BY <1>0, <2>1, <2>2, <2>3, <2>4 DEF Own
<1>00. ASSUME UNCHANGED <<chunkOf, quiz, orphans, transcript>>
       PROVE  Sole(t)'
  BY <1>00, <1>a DEF Sole, OneBatch, Consistent
<1>1. CASE LoadTranscript(t)
  <2>1. /\ UNCHANGED <<rowVars, cancelled, lessonVars>>
        /\ \/ at'[t] = "propose" /\ mem'[t].text = transcript /\ transcript # NoTranscript
           \/ at'[t] = "fail"
    BY <1>1, <1>t DEF LoadTranscript, Mems
  <2>2. Cuts(t)'
    BY <2>1 DEF Cuts, Cutting
  <2> QED
    BY <1>0, <1>00, <2>1, <2>2 DEF Cutting
<1>2. CASE Propose(t)
  <2>1. /\ UNCHANGED <<rowVars, cancelled, mem, lessonVars>>
        /\ at'[t] \in {"swap", "fail"} /\ at[t] = "propose"
    BY <1>2, <1>t DEF Propose
  <2>2. Cuts(t)'
    BY <1>a, <2>1 DEF Cuts, Cutting
  <2> QED
    BY <1>0, <1>00, <2>1, <2>2 DEF Cutting
<1>3. ASSUME NEW n \in 1..2, chunksMade + n <= MaxChunks, SwapChunks(t, n)
      PROVE  Own(t)' /\ Sole(t)'
  <2> DEFINE fresh == (chunksMade + 1)..(chunksMade + n)
  <2>1. /\ UNCHANGED <<rowVars, cancelled, video, transcript, orphans>>
        /\ at'[t] = "drop_texts" /\ at[t] = "swap"
        /\ chunkOf' = [c \in ChunkIds |-> IF c \in fresh THEN mem[t].text ELSE NoTranscript]
        /\ quiz' = [c \in ChunkIds |-> {}]
        /\ mem' = [mem EXCEPT ![t].chunks = Chunks, ![t].fresh = fresh]
    BY <1>3, <1>t, <1>w DEF SwapChunks
  <2>2. chunksMade + 1 \in fresh /\ chunksMade + 1 \in ChunkIds
    <3>1. chunksMade \in 0..MaxChunks
      BY DEF Alone, Typed, Counted
    <3> QED
      BY <1>3, <3>1, ContentAssumption DEF ChunkIds
  <2> HIDE DEF fresh
  <2>3. mem'[t].fresh = fresh /\ mem'[t].text = mem[t].text
    BY <1>t, <2>1 DEF Mems
  <2>4. mem[t].text = transcript /\ transcript # NoTranscript
    BY <1>a, <2>1 DEF Cutting
  <2>5. Chunks' # {} /\ Chunks' \subseteq fresh
    BY <2>1, <2>2, <2>4 DEF Chunks
  <2>6. Cuts(t)'
    BY <2>1, <2>3, <2>4, <2>5 DEF Cuts, Cutting
  <2>7. Sole(t)'
    BY <1>a, <2>1, <2>4 DEF Sole, OneBatch, Consistent
  <2> QED
    BY <1>0, <2>1, <2>6, <2>7 DEF Cutting
<1>4. CASE DropTexts(t)
  <2>1. /\ UNCHANGED <<rowVars, cancelled, mem, video, transcript, chunkOf, quiz, orphans>>
        /\ at'[t] = "save_texts" /\ at[t] = "drop_texts"
    BY <1>4, <1>t DEF DropTexts
  <2>2. Chunks' = Chunks /\ Chunks # {} /\ Chunks \subseteq mem[t].fresh
    BY <2>1 DEF Alone, Own, Cuts, Chunks
  <2>3. Cuts(t)'
    BY <1>a, <2>1, <2>2 DEF Cuts, Cutting
  <2> QED
    BY <1>0, <1>00, <2>1, <2>3 DEF Cutting
<1>5. CASE SaveTexts(t)
  <2> DEFINE next == CHOOSE c \in mem[t].fresh : \A d \in mem[t].fresh : c <= d
  <2>1. /\ UNCHANGED <<rowVars, cancelled, video, transcript, chunkOf, quiz, orphans>>
        /\ at' = [at EXCEPT ![t] = IF mem[t].fresh = {next} THEN AfterChunk(t)
                                                            ELSE "save_texts"]
        /\ at[t] = "save_texts"
        /\ mem' = [mem EXCEPT ![t].fresh = @ \ {next}]
        /\ text' = [text EXCEPT ![next] = mem[t].text]
    BY <1>5, <1>w DEF SaveTexts
  <2> HIDE DEF next
  <2>2. mem'[t].fresh = mem[t].fresh \ {next} /\ mem'[t].text = mem[t].text
    BY <1>t, <2>1 DEF Mems
  <2>3. /\ mem[t].text = transcript /\ transcript # NoTranscript /\ Chunks # {}
        /\ \A c \in Chunks \ mem[t].fresh : text[c] = transcript
    BY <1>a, <2>1 DEF Alone, Own, Cuts, Cutting
  <2>4. Chunks' = Chunks /\ Chunks \subseteq ChunkIds
    BY <2>1 DEF Chunks
  <2>5. \A c \in Chunks \ mem'[t].fresh : text'[c] = transcript
    BY <1>t, <2>1, <2>2, <2>3, <2>4
  <2>6. CASE mem[t].fresh = {next}
    <3>1. at'[t] = AfterChunk(t) /\ mem'[t].fresh = {}
      BY <1>t, <2>1, <2>2, <2>6
    <3>2. HasTexts'
      BY <2>1, <2>3, <2>4, <2>5, <3>1 DEF HasTexts, Chunks
    <3>3. Cuts(t)'
      BY <3>1 DEF Cuts, AfterChunk, Cutting
    <3> QED
      BY <1>0, <1>00, <1>a, <2>1, <3>1, <3>2, <3>3 DEF AfterChunk, Reaches
  <2>7. CASE mem[t].fresh # {next}
    <3>1. at'[t] = "save_texts"
      BY <1>t, <2>1, <2>7
    <3>2. Cuts(t)'
      BY <2>1, <2>2, <2>3, <2>4, <2>5, <3>1 DEF Cuts, Cutting
    <3> QED
      BY <1>0, <1>00, <2>1, <3>1, <3>2 DEF Cutting
  <2> QED
    BY <2>6, <2>7
<1> QED
  BY <1>1, <1>2, <1>3, <1>4, <1>5 DEF ChunkStep

\* Generating questions keeps what the run that generates them owes the lesson.
LEMMA GenerateOwn ==
    ASSUME NEW t \in Tasks, Alone(t), GenerateStep(t)
    PROVE  Own(t)' /\ Sole(t)'
<1> USE DEF Goto, rowVars, runVars, lessonVars, countVars
<1>t. /\ at \in [Tasks -> Steps] /\ mem \in [Tasks -> Mems] /\ mem[t] \in Mems
      /\ quiz \in [ChunkIds -> SUBSET Batches] /\ mem[t].chunks \subseteq ChunkIds
      /\ Typed
  BY DEF Alone, Typed, RunTypes, LessonTypes, Mems
<1>w. ~cancelled[t] /\ ~CallFails(t) /\ ~Breaks
  BY CallsWork
<1>a. /\ at[t] \in Generating /\ row[t] = "processing"
      /\ kind[t] = "quiz_gen" \/ Reaches(t, 2)
      /\ kind[t] = "pipeline_run" => video # 0 /\ HasTranscript /\ HasTexts
      /\ ~orphans /\ OneBatch /\ Consistent
      /\ Fills(t)
  <2>1. at[t] \in Generating
    BY DEF GenerateStep, LoadTargets, LoadKnown, NextChunk, Generate, SaveInteractions,
       Generated, Generating
  <2> QED
    BY <2>1 DEF Alone, Own, Staged, Transcribes, Keeps, Sole, Active, Reaches,
       Rewriting, Generating
<1>0. ASSUME UNCHANGED <<rowVars, cancelled, video, transcript, chunkOf, text>>,
             at'[t] \in Generating \union {"fail", "succeed"},
             Fills(t)'
      PROVE  Own(t)'
  <2>1. Owned(t)' /\ Staged(t)'
    BY <1>0, <1>a, <1>w DEF Owned, Staged, Reaches, Transcribing, Cutting, Generating
  <2>2. Transcribes(t)'
    BY <1>0, <1>a DEF Transcribes, Transcribing, Generating, Reaches
  <2>3. Cuts(t)'
    BY <1>0 DEF Cuts, Cutting, Generating
  <2>4. Keeps(t)'
    BY <1>0, <1>a DEF Keeps, Reaches, HasTranscript, HasTexts, Chunks, Generating
  <2> QED
    BY <1>0, <2>1, <2>2, <2>3, <2>4 DEF Own
<1>00. ASSUME UNCHANGED <<chunkOf, quiz, orphans, transcript>>
       PROVE  Sole(t)'
  BY <1>00, <1>a DEF Sole, OneBatch, Consistent
<1>d. /\ Done(t)[t].chunks \subseteq mem[t].chunks /\ Done(t)[t].known = mem[t].known
      /\ Done(t)[t].force = mem[t].force
  BY <1>t, DoneShrinks
<1>1. CASE LoadTargets(t)
  <2>1. /\ UNCHANGED <<rowVars, cancelled, lessonVars>>
        /\ at'[t] \in {"fail", "known"} \/ (at'[t] = "next" /\ mem[t].force)
        /\ mem'[t].force = mem[t].force
    BY <1>1, <1>t, <1>w DEF LoadTargets, Mems
  <2>2. Fills(t)'
    BY <2>1 DEF Fills, Filling
  <2> QED
    BY <1>0, <1>00, <2>1, <2>2 DEF Generating
<1>2. CASE LoadKnown(t)
  <2>1. /\ UNCHANGED <<rowVars, cancelled, lessonVars>> /\ at'[t] = "next"
        /\ mem'[t].known = {c \in ChunkIds : quiz[c] # {}}
        /\ mem'[t].chunks = mem[t].chunks
    BY <1>2, <1>t, <1>w DEF LoadKnown, Mems
  <2>2. Fills(t)'
    BY <1>t, <2>1 DEF Fills
  <2> QED
    BY <1>0, <1>00, <2>1, <2>2 DEF Generating
<1>3. ASSUME UNCHANGED <<rowVars, cancelled, lessonVars>>, at[t] \in Filling,
             at'[t] \in Filling \union {"fail", "succeed"},
             mem' = mem \/ mem' = Done(t) \/ mem' = [Done(t) EXCEPT ![t].failed = TRUE]
      PROVE  Own(t)' /\ Sole(t)'
  <2>1. Done(t) \in [Tasks -> Mems] /\ Done(t)[t] \in Mems
    BY <1>t, MemWrites
  <2>2. /\ mem'[t].chunks \subseteq mem[t].chunks /\ mem'[t].known = mem[t].known
        /\ mem'[t].force = mem[t].force
    BY <1>3, <1>d, <2>1 DEF Mems
  <2>3. Fills(t)'
    BY <1>3, <1>a, <2>2 DEF Fills, Filling
  <2> QED
    BY <1>0, <1>00, <1>3, <2>3 DEF Generating, Filling
<1>4. CASE NextChunk(t)
  BY <1>3, <1>4, <1>t DEF NextChunk, Filling
<1>5. CASE Generate(t)
  BY <1>3, <1>5, <1>t DEF Generate, Filling
<1>6. CASE Generated(t)
  BY <1>3, <1>6, <1>t DEF Generated, Filling
<1>7. CASE SaveInteractions(t)
  <2> DEFINE c0 == CurrentChunk(t)
             batch == <<t, runs[t]>>
  <2>1. c0 \in mem[t].chunks \ mem[t].known
    <3>1. at[t] = "keep" /\ mem[t].chunks # {}
      BY <1>7 DEF SaveInteractions, Alone, AsksUnknown
    <3>2. c0 \in mem[t].chunks /\ \A d \in mem[t].chunks : c0 <= d
      BY <1>t, <3>1, CurrentIsLeast
    <3> QED
      BY <3>1, <3>2 DEF Alone, AsksUnknown
  <2>2. /\ UNCHANGED <<rowVars, cancelled, video, transcript, chunkOf, text, orphans>>
        /\ at[t] = "keep" /\ at'[t] = "next"
    BY <1>7, <1>t, <1>w DEF SaveInteractions
  <2>3. \/ quiz' = [quiz EXCEPT ![c0] = IF mem[t].force THEN {batch} ELSE @ \union {batch}]
        \/ quiz' = quiz
    BY <1>7 DEF SaveInteractions
  <2>4. /\ mem'[t].chunks = mem[t].chunks \ {c0} /\ mem'[t].known = mem[t].known
        /\ mem'[t].force = mem[t].force
    <3>1. mem' = Done(t) \/ mem' = [Done(t) EXCEPT ![t].kept = TRUE]
      BY <1>7 DEF SaveInteractions
    <3>2. Done(t) \in [Tasks -> Mems] /\ Done(t)[t] \in Mems
      BY <1>t, MemWrites
    <3>3. /\ mem'[t].chunks = Done(t)[t].chunks /\ mem'[t].known = Done(t)[t].known
          /\ mem'[t].force = Done(t)[t].force
      BY <3>1, <3>2 DEF Mems
    <3> QED
      BY <1>t, <3>3, DoneShrinks
  <2> HIDE DEF c0, batch
  <2>5. mem[t].force \/ quiz[c0] = {}
    BY <1>a, <2>1, <2>2 DEF Fills, Filling
  <2>6. /\ \A c \in ChunkIds : c # c0 => quiz'[c] = quiz[c]
        /\ quiz'[c0] = quiz[c0] \/ quiz'[c0] = {batch}
    BY <1>t, <2>1, <2>3, <2>5
  <2>7. OneBatch'
    BY <1>a, <2>6 DEF OneBatch
  <2>8. Sole(t)'
    BY <1>a, <2>2, <2>7 DEF Sole, Consistent
  <2>9. Fills(t)'
    BY <1>a, <1>t, <2>2, <2>4, <2>6 DEF Fills, Filling
  <2> QED
    BY <1>0, <2>2, <2>8, <2>9 DEF Generating
<1> QED
  BY <1>1, <1>2, <1>4, <1>5, <1>6, <1>7 DEF GenerateStep

\* A checkpoint saves a stage whose result the lesson has.
LEMMA CheckpointOwn ==
    ASSUME NEW t \in Tasks, Alone(t), CheckpointStep(t)
    PROVE  Own(t)' /\ Sole(t)'
<1> USE DEF Goto, rowVars, runVars, lessonVars, countVars
<1>t. at \in [Tasks -> Steps] /\ saved \in [Tasks -> 0..2]
  BY DEF Alone, Typed, RowTypes, RunTypes
<1>w. ~cancelled[t] /\ ~CallFails(t) /\ row[t] = "processing"
  BY CallsWork DEF Alone
<1>a. /\ kind[t] = "pipeline_run" /\ video # 0 /\ HasTranscript
      /\ ~orphans /\ OneBatch /\ Consistent
      /\ at[t] = "chunked" => HasTexts
  <2>1. at[t] \in {"transcribed", "chunked"}
    BY DEF CheckpointStep, Checkpoint
  <2> QED
    BY <1>w, <2>1 DEF Alone, Own, Staged, Transcribes, Keeps, Sole, Active, Reaches, Rewriting
<1>1. /\ UNCHANGED <<kind, row, cancelled, lessonVars>>
      /\ \/ at[t] = "transcribed" /\ at'[t] = "load" /\ saved'[t] = 1
         \/ at[t] = "chunked" /\ at'[t] = "targets" /\ saved'[t] = 2
  BY <1>t, <1>w DEF CheckpointStep, Checkpoint
<1>2. Owned(t)' /\ Staged(t)'
  BY <1>1, <1>a, <1>w DEF Owned, Staged, Reaches, Transcribing, Cutting, Generating
<1>3. Transcribes(t)' /\ Cuts(t)' /\ Fills(t)'
  BY <1>1, <1>a DEF Transcribes, Transcribing, Cuts, Cutting, Fills, Filling
<1>4. Keeps(t)'
  BY <1>1, <1>a DEF Keeps, HasTranscript, HasTexts, Chunks
<1>5. Sole(t)'
  BY <1>1, <1>a DEF Sole, OneBatch, Consistent
<1> QED
  BY <1>2, <1>3, <1>4, <1>5 DEF Own

\* The last step leaves nothing to anybody.
LEMMA FinishLeaves ==
    ASSUME PatientInv, Calm, NEW t \in Tasks, Finish(t)
    PROVE  OneAtATime' /\ EditInv' /\ LessonInv' /\ \A u \in Tasks : Own(u)'
<1> USE DEF Goto, rowVars, runVars, lessonVars, countVars
<1>t. /\ at \in [Tasks -> Steps] /\ row \in [Tasks -> Rowed] /\ cancelled \in [Tasks -> BOOLEAN]
  BY DEF PatientInv, Resumable, Typed, RowTypes, RunTypes
<1>1. at[t] \in {"succeed", "fail"}
  BY DEF Finish
<1>2. /\ Alone(t) /\ edit = NoEdit
      /\ \A u \in Tasks \ {t} : at[u] = "idle" /\ row[u] \notin Active
  BY <1>1, RunnerIsAlone
<1>3. ~CallFails(t) /\ row[t] = "processing"
  BY <1>2, CallsWork DEF Alone
<1>4. /\ at' = [at EXCEPT ![t] = "idle"] /\ cancelled' = [cancelled EXCEPT ![t] = FALSE]
      /\ row' = [row EXCEPT ![t] = IF at[t] = "succeed" THEN "succeeded" ELSE "failed"]
      /\ UNCHANGED <<kind, saved, edit, lessonVars>>
  BY <1>3 DEF Finish
<1>5. \A u \in Tasks : at'[u] = "idle" /\ row'[u] \notin Active
  BY <1>2, <1>4, <1>t DEF Active
<1>6. \A u \in Tasks : ~cancelled'[u] /\ (kind'[u] = "none" => saved'[u] = 0)
  BY <1>4, <1>t DEF PatientInv, Own, Owned, Staged
<1>7. OneAtATime' /\ EditInv'
  BY <1>2, <1>4, <1>5 DEF OneAtATime, Busy, EditInv, NoEdit
<1>8. LessonInv'
  BY <1>1, <1>2, <1>4 DEF Alone, Sole, Rewriting, LessonInv, OneBatch, Consistent
<1>9. ASSUME NEW u \in Tasks
      PROVE  Own(u)'
  <2>1. Owned(u)' /\ Staged(u)'
    BY <1>5, <1>6 DEF Owned, Staged, Transcribing, Cutting, Generating
  <2>2. Transcribes(u)' /\ Cuts(u)' /\ Fills(u)' /\ Keeps(u)'
    BY <1>5 DEF Transcribes, Transcribing, Cuts, Cutting, Fills, Filling, Keeps
  <2> QED
    BY <2>1, <2>2 DEF Own
<1> QED
  BY <1>7, <1>8, <1>9

--------------------------------------------------------------------------------
(* The queue and the teacher. *)

\* A task without a goroutine owes only what its row says.
LEMMA RestingOwn ==
    ASSUME NEW u \in Tasks, at'[u] = "idle", ~cancelled'[u],
           kind'[u] = "none" => saved'[u] = 0,
           \/ row'[u] \notin Active
           \/ /\ kind'[u] \in {"transcribe", "pipeline_run"} => video' # 0
              /\ kind'[u] = "pipeline_run" /\ saved'[u] >= 1 => HasTranscript'
              /\ kind'[u] = "pipeline_run" /\ saved'[u] = 2 => HasTexts'
    PROVE  Own(u)'
<1>1. Owned(u)' /\ Staged(u)'
  BY DEF Owned, Staged, Transcribing, Cutting, Generating
<1>2. Transcribes(u)' /\ Cuts(u)' /\ Fills(u)'
  BY DEF Transcribes, Transcribing, Cuts, Cutting, Fills, Filling
<1>3. Keeps(u)'
  BY DEF Keeps
<1> QED
  BY <1>1, <1>2, <1>3 DEF Own

\* What is said of the lesson depends on its variables only.
LEMMA LessonUntouched ==
    ASSUME UNCHANGED lessonVars
    PROVE  /\ Consistent' = Consistent /\ OneBatch' = OneBatch /\ orphans' = orphans
           /\ HasTranscript' = HasTranscript /\ HasTexts' = HasTexts
           /\ NoQuiz' = NoQuiz /\ NoChunks' = NoChunks /\ video' = video
           /\ transcript' = transcript /\ quiz' = quiz /\ chunkOf' = chunkOf
BY DEF lessonVars, Consistent, OneBatch, HasTranscript, HasTexts, NoQuiz, NoChunks, Chunks

\* What a task owes by its row, when it rests.
LEMMA RestingOwes ==
    ASSUME PatientInv, NEW u \in Tasks
    PROVE  /\ ~cancelled[u] /\ (kind[u] = "none" => saved[u] = 0)
           /\ row[u] \in Active =>
                /\ kind[u] \in {"transcribe", "pipeline_run"} => video # 0
                /\ kind[u] = "pipeline_run" /\ saved[u] >= 1 => HasTranscript
                /\ kind[u] = "pipeline_run" /\ saved[u] = 2 => HasTexts
BY DEF PatientInv, Own, Owned, Staged, Transcribes, Keeps

\* Starts, claims, cancellations, losses, reaps and crashes keep the invariant.
LEMMA QueueLeaves ==
    ASSUME PatientInv, Calm, QueueStep
    PROVE  OneAtATime' /\ EditInv' /\ LessonInv' /\ \A u \in Tasks : Own(u)'
<1>t. /\ at \in [Tasks -> Steps] /\ row \in [Tasks -> Rowed] /\ cancelled \in [Tasks -> BOOLEAN]
      /\ kind \in [Tasks -> Kinds \union {"none"}] /\ saved \in [Tasks -> 0..2]
      /\ Typed
  BY DEF PatientInv, Resumable, Typed, RowTypes, RunTypes
<1>1. ASSUME NEW k \in Started, NEW f \in BOOLEAN, StartLessonTask(k, f)
      PROVE  OneAtATime' /\ EditInv' /\ LessonInv' /\ \A u \in Tasks : Own(u)'
  <2>1. PICK t \in Tasks :
          /\ kind[t] = "none" /\ TeacherActs /\ Preflight(k)
          /\ kind' = [kind EXCEPT ![t] = k] /\ row' = [row EXCEPT ![t] = "inqueued"]
          /\ UNCHANGED <<saved, runVars, lessonVars, edit>>
    BY <1>1 DEF StartLessonTask
  <2>2. edit = NoEdit /\ \A u \in Tasks : at[u] = "idle" /\ row[u] \notin Active
    BY <2>1 DEF TeacherActs, Quiet, Calm
  <2>3. /\ kind'[t] = k /\ k # "none" /\ row'[t] = "inqueued" /\ saved'[t] = 0
        /\ \A u \in Tasks \ {t} : kind'[u] = kind[u] /\ row'[u] = row[u]
        /\ \A u \in Tasks : at'[u] = "idle" /\ ~cancelled'[u] /\ saved'[u] = saved[u]
    BY <1>t, <2>1, <2>2, RestingOwes, ContentAssumption DEF runVars, Kinds
  <2>4. OneAtATime'
    BY <2>1, <2>2, <2>3 DEF OneAtATime, Busy
  <2>5. EditInv' /\ LessonInv'
    BY <2>1, <2>2, LessonUntouched DEF EditInv, NoEdit, PatientInv, LessonInv, Rewriting
  <2>6. Own(t)'
    <3>1. k \in {"transcribe", "pipeline_run"} => video' # 0
      BY <2>1, LessonUntouched DEF Preflight
    <3> QED
      BY <2>3, <3>1, RestingOwn
  <2>7. ASSUME NEW u \in Tasks \ {t}
        PROVE  Own(u)'
    BY <2>2, <2>3, RestingOwn, RestingOwes
  <2> QED
    BY <2>4, <2>5, <2>6, <2>7
<1>2. ASSUME NEW t \in Tasks, CancelLessonTask(t) \/ Lose(t)
      PROVE  FALSE
  BY <1>2 DEF CancelLessonTask, Lose, Calm, PatientInv, Own, Owned
<1>3. ASSUME NEW t \in Tasks, row[t] \in Active, at[t] = "idle",
             UNCHANGED <<kind, saved, cancelled, lessonVars, edit>>,
             row'[t] \in Active, \A u \in Tasks \ {t} : row'[u] = row[u] /\ at'[u] = at[u],
             Own(t)',
             Rewriting(t) => Rewriting(t)'
      PROVE  OneAtATime' /\ EditInv' /\ LessonInv' /\ \A u \in Tasks : Own(u)'
  <2>1. edit = NoEdit /\ \A u \in Tasks \ {t} : at[u] = "idle" /\ row[u] \notin Active
    BY <1>3 DEF PatientInv, OneAtATime, Busy
  <2>2. OneAtATime'
    BY <1>3, <2>1 DEF OneAtATime, Busy
  <2>3. EditInv'
    BY <1>3, <2>1 DEF EditInv, NoEdit
  <2>4. Consistent \/ Rewriting(t)
    BY <2>1 DEF PatientInv, LessonInv, Rewriting
  <2>5. LessonInv'
    BY <1>3, <2>4, LessonUntouched DEF PatientInv, LessonInv
  <2>6. ASSUME NEW u \in Tasks \ {t}
        PROVE  Own(u)'
    BY <1>3, <2>1, RestingOwn, RestingOwes
  <2> QED
    BY <1>3, <2>2, <2>3, <2>5, <2>6
<1>4. ASSUME NEW t \in Tasks, Claim(t)
      PROVE  OneAtATime' /\ EditInv' /\ LessonInv' /\ \A u \in Tasks : Own(u)'
  <2>1. /\ row[t] = "inqueued" /\ at[t] = "idle"
        /\ row'[t] = "processing" /\ at'[t] = FirstStep(t)
        /\ UNCHANGED <<kind, saved, cancelled, lessonVars, edit>>
        /\ \A u \in Tasks \ {t} : row'[u] = row[u] /\ at'[u] = at[u]
    BY <1>4, <1>t DEF Claim
  <2>2. kind[t] \in Kinds /\ saved[t] \in 0..2
    BY <1>t, <2>1 DEF Typed, Claimed
  <2>3. \/ FirstStep(t) = "video" /\ (kind[t] = "transcribe" \/ Reaches(t, 0))
        \/ FirstStep(t) = "load" /\ (kind[t] = "chunk" \/ Reaches(t, 1))
        \/ FirstStep(t) = "targets" /\ (kind[t] = "quiz_gen" \/ Reaches(t, 2))
    <3>1. CASE kind[t] = "pipeline_run"
      <4>1. FirstStep(t) = <<"video", "load", "targets">>[saved[t] + 1]
        BY <3>1 DEF FirstStep
      <4>2. saved[t] = 0 \/ saved[t] = 1 \/ saved[t] = 2
        BY <2>2
      <4> QED
        BY <3>1, <4>1, <4>2 DEF Reaches
    <3>2. CASE kind[t] # "pipeline_run"
      BY <2>2, <3>2 DEF FirstStep, Kinds
    <3> QED
      BY <3>1, <3>2
  <2>4. Owned(t)' /\ Staged(t)'
    BY <2>1, <2>2, <2>3, RestingOwes
       DEF Owned, Staged, Reaches, Transcribing, Cutting, Generating, Kinds
  <2>5. Transcribes(t)' /\ Cuts(t)' /\ Fills(t)'
    BY <2>1, <2>3, RestingOwes, LessonUntouched
       DEF Transcribes, Transcribing, Cuts, Cutting, Fills, Filling, Active
  <2>6. Keeps(t)'
    BY <2>1, <2>3, RestingOwes, LessonUntouched DEF Keeps, Active
  <2>7. Rewriting(t) => Rewriting(t)'
    BY <2>1, <2>3 DEF Rewriting, Reaches, Active
  <2>8. Own(t)'
    BY <2>4, <2>5, <2>6 DEF Own
  <2> QED
    BY <1>3, <2>1, <2>7, <2>8 DEF Active
<1>5. ASSUME NEW t \in Tasks, Reap(t)
      PROVE  OneAtATime' /\ EditInv' /\ LessonInv' /\ \A u \in Tasks : Own(u)'
  <2>1. /\ row[t] = "processing" /\ at[t] = "idle"
        /\ row'[t] = "inqueued" /\ at'[t] = "idle"
        /\ UNCHANGED <<kind, saved, cancelled, lessonVars, edit>>
        /\ \A u \in Tasks \ {t} : row'[u] = row[u] /\ at'[u] = at[u]
    BY <1>5, <1>t DEF Reap, runVars
  <2>2. Own(t)'
    BY <2>1, RestingOwn, RestingOwes, LessonUntouched DEF Active
  <2>3. Rewriting(t) => Rewriting(t)'
    BY <2>1 DEF Rewriting, Reaches, Active
  <2> QED
    BY <1>3, <2>1, <2>2, <2>3 DEF Active
<1>6. CASE Crash
  <2>1. /\ \A u \in Tasks : at'[u] = "idle" /\ ~cancelled'[u]
        /\ edit' = NoEdit /\ UNCHANGED <<kind, row, saved, lessonVars>>
    BY <1>6 DEF Crash, rowVars
  <2>2. OneAtATime'
    BY <2>1 DEF PatientInv, OneAtATime, Busy
  <2>3. EditInv'
    BY <2>1 DEF EditInv, NoEdit
  <2>4. \A u \in Tasks : Rewriting(u) => Rewriting(u)'
    BY <2>1 DEF Rewriting, Reaches
  <2>5. LessonInv'
    BY <2>1, <2>4, LessonUntouched DEF PatientInv, LessonInv
  <2>6. ASSUME NEW u \in Tasks
        PROVE  Own(u)'
    BY <2>1, RestingOwn, RestingOwes, LessonUntouched
  <2> QED
    BY <2>2, <2>3, <2>5, <2>6
<1> QED
  BY <1>1, <1>2, <1>4, <1>5, <1>6 DEF QueueStep

\* A reset or an upload, alone at work, keeps the invariant.
LEMMA EditLeaves ==
    ASSUME PatientInv, Calm, EditStep
    PROVE  OneAtATime' /\ EditInv' /\ LessonInv' /\ \A u \in Tasks : Own(u)'
<1> USE DEF EditGoto, rowVars, runVars, lessonVars, countVars
<1>t. /\ edit \in [at: EditSteps, had: BOOLEAN, chunks: SUBSET ChunkIds] /\ Typed
  BY DEF PatientInv, Resumable, Typed, EditTypes
<1>1. \A u \in Tasks : at[u] = "idle" /\ row[u] \notin Active
  <2>1. CASE edit = NoEdit
    <3>1. TeacherActs
      BY <2>1 DEF EditStep, BeginEdit, ResetQuiz, ResetChunks, ResetTasks, ResetVideo,
         UploadVideo, CleanTranscript, CleanTexts, NoEdit
    <3> QED
      BY <3>1 DEF TeacherActs, Quiet, Calm
  <2>2. CASE edit # NoEdit
    BY <2>2 DEF PatientInv, OneAtATime, Busy
  <2> QED
    BY <2>1, <2>2
<1>2. \A u \in Tasks : at'[u] = "idle" /\ row'[u] \notin Active /\ ~cancelled'[u]
  <2>1. /\ UNCHANGED <<at, cancelled>>
        /\ \A u \in Tasks : row'[u] = row[u] \/ row'[u] = "deleted"
    BY <1>t, EditSteps_Frame
  <2> QED
    BY <1>1, <2>1, RestingOwes DEF Active
<1>3. UNCHANGED <<kind, saved>>
  BY DEF EditStep, BeginEdit, ResetQuiz, ResetChunks, ResetTasks, ResetVideo,
     UploadVideo, CleanTranscript, CleanTexts
<1>4. OneAtATime'
  BY <1>2 DEF OneAtATime, Busy
<1>5. ASSUME NEW u \in Tasks
      PROVE  Own(u)'
  BY <1>2, <1>3, RestingOwn, RestingOwes
<1>6. ~orphans /\ Consistent /\ OneBatch
  BY <1>1 DEF PatientInv, LessonInv, Rewriting
<1>7. SUFFICES EditInv' /\ ~orphans' /\ Consistent' /\ OneBatch'
  BY <1>4, <1>5 DEF LessonInv
<1>8. ASSUME UNCHANGED lessonVars, edit'.at \in {"idle", "reset_quiz", "upload"}
      PROVE  EditInv' /\ ~orphans' /\ Consistent' /\ OneBatch'
  BY <1>6, <1>8, LessonUntouched DEF EditInv
<1>9. ASSUME NEW step \in {"reset_quiz", "upload"}, BeginEdit(step)
      PROVE  EditInv' /\ ~orphans' /\ Consistent' /\ OneBatch'
  BY <1>8, <1>9 DEF BeginEdit
<1>10. CASE ResetQuiz
  <2>1. /\ edit'.at = "reset_chunks" /\ quiz' = [c \in ChunkIds |-> {}] /\ orphans' = FALSE
        /\ UNCHANGED <<transcript, chunkOf>>
    BY <1>10, <1>t DEF ResetQuiz
  <2> QED
    BY <1>6, <2>1 DEF EditInv, NoQuiz, Consistent, OneBatch
<1>11. CASE ResetChunks
  <2>1. NoQuiz /\ DeletesChunks /\ edit'.at = "reset_tasks" /\ UNCHANGED transcript
    BY <1>11, <1>t DEF ResetChunks, PatientInv, EditInv
  <2>2. NoChunks' /\ ~orphans' /\ OneBatch' /\ Consistent'
    BY <1>6, <2>1 DEF DeletesChunks, NoChunks, NoQuiz, OneBatch, Consistent
  <2> QED
    BY <2>1, <2>2 DEF EditInv
<1>12. CASE ResetTasks \/ ResetVideo
  <2>1. /\ NoChunks /\ edit'.at \in {"reset_video", "clean_transcript"}
        /\ UNCHANGED <<transcript, chunkOf, quiz, orphans>>
    BY <1>12, <1>t DEF ResetTasks, ResetVideo, PatientInv, EditInv
  <2> QED
    BY <1>6, <2>1 DEF EditInv, NoChunks, Consistent, OneBatch
<1>13. CASE UploadVideo
  <2>1. CASE edit.had
    <3>1. /\ edit'.at = "clean_transcript" /\ quiz' = [c \in ChunkIds |-> {}]
          /\ orphans' = FALSE /\ chunkOf' = [c \in ChunkIds |-> NoTranscript]
      BY <1>13, <1>t, <2>1 DEF UploadVideo
    <3> QED
      BY <3>1 DEF EditInv, NoChunks, Consistent, OneBatch
  <2>2. CASE ~edit.had
    <3>1. edit'.at = "idle" /\ UNCHANGED <<transcript, chunkOf, quiz, orphans>>
      BY <1>13, <2>2 DEF UploadVideo, NoEdit
    <3> QED
      BY <1>6, <3>1 DEF EditInv, Consistent, OneBatch
  <2> QED
    BY <2>1, <2>2
<1>14. CASE CleanTranscript
  <2>1. NoChunks /\ edit'.at = "clean_texts" /\ UNCHANGED <<chunkOf, quiz, orphans>>
    BY <1>14, <1>t DEF CleanTranscript, PatientInv, EditInv
  <2> QED
    BY <1>6, <2>1 DEF EditInv, NoChunks, Consistent, OneBatch
<1>15. CASE CleanTexts
  <2>1. edit'.at = "idle" /\ UNCHANGED <<transcript, chunkOf, quiz, orphans>>
    BY <1>15 DEF CleanTexts, NoEdit
  <2> QED
    BY <1>6, <2>1 DEF EditInv, Consistent, OneBatch
<1> QED
  BY <1>9, <1>10, <1>11, <1>12, <1>13, <1>14, <1>15 DEF EditStep

--------------------------------------------------------------------------------
(* The theorems. *)

LEMMA PatientKept ==
    ASSUME PatientInv, Calm, [Next]_vars
    PROVE  PatientInv'
<1>1. Resumable' /\ LockHeldByRunner'
  BY ResumableKept, LockKept DEF PatientInv, Resumable, Calm, FewFaults
<1>2. CASE QueueStep
  BY <1>1, <1>2, QueueLeaves DEF PatientInv
<1>3. CASE EditStep
  BY <1>1, <1>3, EditLeaves DEF PatientInv
<1>4. ASSUME NEW t \in Tasks, Finish(t)
      PROVE  PatientInv'
  BY <1>1, <1>4, FinishLeaves DEF PatientInv
<1>5. ASSUME NEW t \in Tasks, ExecutorStep(t), ~Finish(t)
      PROVE  PatientInv'
  <2>1. Typed
    BY DEF PatientInv, Resumable
  <2>2. at[t] # "idle" /\ Acts(t)
    BY <1>5, <2>1, ExecutorSteps, ExecutorActs DEF StepOf
  <2>3. Alone(t)
    BY <2>2, RunnerIsAlone
  <2>4. Own(t)' /\ Sole(t)'
    BY <1>5, <2>3, TranscribeOwn, ChunkOwn, GenerateOwn, CheckpointOwn DEF ExecutorStep
  <2> QED
    BY <1>1, <2>2, <2>4, OwnStepSuffices DEF PatientInv
<1>6. CASE UNCHANGED vars
  <2>1. UNCHANGED <<rowVars, runVars, edit>> /\ UNCHANGED lessonVars
    BY <1>6 DEF vars
  <2>2. OneAtATime' /\ EditInv' /\ LessonInv'
    BY <2>1, LessonUntouched DEF rowVars, runVars, PatientInv, OneAtATime, Busy, EditInv,
       LessonInv, Rewriting, Reaches
  <2>3. ASSUME NEW u \in Tasks
        PROVE  Own(u)'
    <3>1. /\ Chunks' = Chunks /\ HasTexts' = HasTexts /\ HasTranscript' = HasTranscript
          /\ NoQuiz' = NoQuiz /\ NoChunks' = NoChunks
          /\ UNCHANGED <<video, transcript, chunkOf, text, quiz>>
      BY <2>1, LessonUntouched DEF lessonVars, Chunks
    <3>2. Own(u)
      BY DEF PatientInv
    <3>3. Owned(u)' /\ Staged(u)'
      BY <2>1, <3>2 DEF rowVars, runVars, Own, Owned, Staged, Reaches
    <3>4. Transcribes(u)' /\ Cuts(u)' /\ Fills(u)' /\ Keeps(u)'
      BY <2>1, <3>1, <3>2 DEF rowVars, runVars, Own, Transcribes, Cuts, Fills, Keeps
    <3> QED
      BY <3>3, <3>4 DEF Own
  <2> QED
    BY <1>1, <2>2, <2>3 DEF PatientInv
<1> QED
  BY <1>2, <1>3, <1>4, <1>5, <1>6 DEF Next

\* The empty lesson satisfies the invariant.
LEMMA InitPatient ==
    ASSUME Init
    PROVE  PatientInv
<1>1. Typed
  BY InitTyped
<1>2. Resumable
  <2>1. SecondRunHasFault /\ CancelledLostRow
    BY DEF Init, SecondRunHasFault, CancelledLostRow, Active
  <2>2. BatchesArePast /\ FillsTheEmpty /\ AsksUnknown /\ NoResumeDuplicates
    BY DEF Init, BatchesArePast, FillsTheEmpty, AsksUnknown, NoResumeDuplicates, Filling
  <2> QED
    BY <1>1, <2>1, <2>2 DEF Resumable
<1>3. LockHeldByRunner
  BY DEF Init, LockHeldByRunner, Tasks, Nobody
<1>4. OneAtATime /\ EditInv /\ LessonInv
  BY DEF Init, OneAtATime, Busy, Active, EditInv, NoEdit, LessonInv, Consistent, OneBatch
<1>5. ASSUME NEW t \in Tasks
      PROVE  Own(t)
  <2>1. /\ at[t] = "idle" /\ row[t] = "absent" /\ ~cancelled[t] /\ saved[t] = 0
    BY DEF Init
  <2> QED
    BY <2>1 DEF Own, Owned, Staged, Transcribes, Cuts, Fills, Keeps, Active,
       Transcribing, Cutting, Generating, Filling
<1> QED
  BY <1>2, <1>3, <1>4, <1>5 DEF PatientInv

\* The invariant holds in every state of a calm system.
LEMMA PatientInvariant ==
    ASSUME Calm
    PROVE  Spec => []PatientInv
<1>1. PatientInv /\ [Next]_vars => PatientInv'
  BY PatientKept
<1> QED
  BY <1>1, InitPatient, PTL DEF Spec

\* RunExtract, RunChunk and the resets: whenever nothing is going on, the chunks were cut
\* from the transcript the lesson has and no interaction has lost its chunk, however
\* often the process crashed between the calls that delete and write them.
THEOREM ContentStaysConsistent ==
    ASSUME Calm
    PROVE  Spec => []ContentConsistent
<1>1. PatientInv => ContentConsistent
  <2> SUFFICES ASSUME PatientInv, Quiet
               PROVE  (\A c \in Chunks : chunkOf[c] = transcript) /\ ~orphans
    BY DEF ContentConsistent
  <2>1. Consistent /\ ~orphans
    BY DEF PatientInv, LessonInv, Rewriting, Quiet
  <2> QED
    BY <2>1 DEF Consistent, Chunks
<1> QED
  BY <1>1, PatientInvariant, PTL

\* generation.Service.Run: a chunk has the batch of one generation, through crashes,
\* resumes and repeated tasks.
THEOREM OneGeneration ==
    ASSUME Calm
    PROVE  Spec => []OneGenerationEach
<1>1. PatientInv => OneGenerationEach
  <2> SUFFICES ASSUME PatientInv, NEW c \in ChunkIds
               PROVE  Cardinality(quiz[c]) <= 1
    BY DEF OneGenerationEach
  <2>1. CASE quiz[c] = {}
    BY <2>1, FS_EmptySet
  <2>2. CASE quiz[c] # {}
    <3>1. PICK b \in quiz[c] : quiz[c] = {b}
      BY <2>2 DEF PatientInv, LessonInv, OneBatch
    <3>2. Cardinality({b}) = 1
      BY FS_Singleton
    <3>3. Cardinality(quiz[c]) = 1
      BY <3>1, <3>2
    <3> QED
      BY <3>3
  <2> QED
    BY <2>1, <2>2
<1> QED
  BY <1>1, PatientInvariant, PTL

\* pipeline_run.go: a pipeline that succeeds, resumed from its checkpoint or not, leaves
\* a transcript of the uploaded video, chunks cut from it and the text of each of them.
THEOREM PipelineIsDelivered ==
    ASSUME Calm
    PROVE  Spec => PipelineDelivers
<1> DEFINE Ends(t) == kind[t] = "pipeline_run" /\ row[t] # "succeeded" /\ row'[t] = "succeeded"
<1>1. ASSUME PatientInv, [Next]_vars, NEW t \in Tasks, Ends(t)
      PROVE  /\ transcript # NoTranscript /\ transcript.video = video
             /\ Chunks # {}
             /\ \A c \in Chunks : chunkOf[c] = transcript /\ text[c] = transcript
  <2>t. row \in [Tasks -> Rowed] /\ Typed
    BY <1>1 DEF PatientInv, Resumable, Typed, RowTypes
  <2>1. PICK u \in Tasks : Finish(u)
    <3>1. CASE QueueStep
      <4>1. row'[t] \in {row[t], "inqueued", "cancelled", "processing"}
        BY <2>t, <3>1 DEF QueueStep, StartLessonTask, CancelLessonTask, Claim, Lose, Reap,
           Crash, rowVars
      <4> QED
        BY <1>1, <4>1
    <3>2. CASE EditStep
      BY <1>1, <2>t, <3>2, EditSteps_Frame
    <3>3. ASSUME NEW u \in Tasks, ExecutorStep(u), ~Finish(u)
          PROVE  FALSE
      BY <1>1, <2>t, <3>3, ExecutorSteps DEF StepOf
    <3>4. CASE UNCHANGED vars
      BY <1>1, <3>4 DEF vars, rowVars
    <3> QED
      BY <1>1, <3>1, <3>2, <3>3, <3>4 DEF Next
  <2>2. u = t /\ at[t] = "succeed" /\ row[t] = "processing"
    BY <1>1, <2>t, <2>1 DEF Finish, Goto
  <2>3. saved[t] = 2 /\ HasTranscript /\ HasTexts
    BY <1>1, <2>2 DEF PatientInv, Own, Staged, Keeps, Active
  <2>4. Consistent
    BY <1>1, <2>2, RunnerIsAlone DEF Alone, Sole, Rewriting
  <2> QED
    BY <2>3, <2>4 DEF HasTranscript, HasTexts, Consistent, Chunks
<1>2. PatientInv /\ [Next]_vars =>
        [\A t \in Tasks :
           kind[t] = "pipeline_run" /\ row[t] # "succeeded" /\ row'[t] = "succeeded" =>
             /\ transcript # NoTranscript /\ transcript.video = video
             /\ Chunks # {}
             /\ \A c \in Chunks : chunkOf[c] = transcript /\ text[c] = transcript]_vars
  BY <1>1
<1> QED
  BY <1>2, PatientInvariant, PTL DEF Spec, PipelineDelivers

================================================================================
