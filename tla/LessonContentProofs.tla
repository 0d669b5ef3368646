--------------------------- MODULE LessonContentProofs ---------------------------
(***************************************************************************)
(* What TLAPS proves about LessonContent for any number of tasks, runs,    *)
(* chunks, edits and crashes: the stores stay well-formed, the lesson's    *)
(* transcription lock is held exactly by the goroutine between TryAcquire  *)
(* and its return, and a resumed task leaves one batch per chunk while     *)
(* faults do not combine.                                                  *)
(***************************************************************************)
EXTENDS LessonContent, FiniteSetTheorems, WellFoundedInduction, TLAPS

--------------------------------------------------------------------------------
(* Types. *)

Videos == 0..(MaxEdits + 1)
Rowed == Active \union {"absent", "succeeded", "failed", "cancelled", "deleted"}
Mems == [video: Videos, text: Transcripts, chunks: SUBSET ChunkIds,
         fresh: SUBSET ChunkIds, known: SUBSET ChunkIds, force: BOOLEAN,
         kept: BOOLEAN, failed: BOOLEAN]

RowTypes ==
    /\ kind \in [Tasks -> Kinds \union {"none"}]
    /\ force \in [Tasks -> BOOLEAN]
    /\ row \in [Tasks -> Rowed]
    /\ saved \in [Tasks -> 0..2]

RunTypes ==
    /\ at \in [Tasks -> Steps]
    /\ cancelled \in [Tasks -> BOOLEAN]
    /\ runs \in [Tasks -> 0..MaxRuns]
    /\ mem \in [Tasks -> Mems]
    /\ lock \in Tasks \union {Nobody}

LessonTypes ==
    /\ video \in Videos
    /\ transcript \in Transcripts
    /\ chunkOf \in [ChunkIds -> Transcripts]
    /\ text \in [ChunkIds -> Transcripts]
    /\ quiz \in [ChunkIds -> SUBSET Batches]
    /\ orphans \in BOOLEAN

EditTypes == edit \in [at: EditSteps, had: BOOLEAN, chunks: SUBSET ChunkIds]

\* Interactions hang on existing chunks only.
Hanging == \A c \in ChunkIds : quiz[c] # {} => chunkOf[c] # NoTranscript

\* The counters: every upload but the one that is under way has made its video.
Counted ==
    /\ takes \in Nat
    /\ chunksMade \in 0..MaxChunks
    /\ videos \in Nat /\ video <= videos
    /\ edits \in 0..MaxEdits
    /\ videos <= edits + (IF edit.at = "upload" THEN 0 ELSE 1)
    /\ crashes \in 0..MaxCrashes
    /\ faults \in 0..MaxFaults

\* A row comes with its kind, a goroutine with a claim, and neither an absent nor a
\* queued row has a goroutine.
Claimed ==
    \A t \in Tasks :
        /\ kind[t] = "none" => row[t] = "absent"
        /\ at[t] # "idle" => runs[t] >= 1
        /\ row[t] \in {"absent", "inqueued"} => at[t] = "idle"

\* The type invariant with what keeps it inductive.
Typed ==
    /\ RowTypes /\ RunTypes /\ LessonTypes /\ EditTypes
    /\ Hanging /\ Counted /\ Claimed

\* The inductive types give the type invariant.
LEMMA TypedIsTypeOK ==
    ASSUME Typed
    PROVE  TypeOK
BY DEF Typed, TypeOK, RowTypes, RunTypes, LessonTypes, EditTypes, Hanging, Claimed,
       Chunks, Mems, Videos, Rowed

\* The placeholders have the types of what they stand in for.
LEMMA NothingIsTyped ==
    /\ NoTranscript \in Transcripts
    /\ NoMem \in Mems
    /\ NoEdit \in [at: EditSteps, had: BOOLEAN, chunks: SUBSET ChunkIds]
BY ContentAssumption DEF NoTranscript, Transcripts, NoMem, Mems, Videos, NoEdit, EditSteps

\* The empty lesson is typed.
LEMMA InitTyped ==
    ASSUME Init
    PROVE  Typed
<1>1. RowTypes
  BY DEF Init, RowTypes, Rowed
<1>2. RunTypes /\ EditTypes
  BY NothingIsTyped, ContentAssumption DEF Init, RunTypes, EditTypes, Steps
<1>3. LessonTypes
  <2>1. video \in Videos
    BY ContentAssumption DEF Init, Videos
  <2>2. {} \in SUBSET Batches
    OBVIOUS
  <2> QED
    BY <2>1, <2>2, NothingIsTyped DEF Init, LessonTypes
<1>4. Counted
  BY ContentAssumption DEF Init, Counted, NoEdit
<1>5. Hanging /\ Claimed
  BY DEF Init, Hanging, Claimed
<1> QED
  BY <1>1, <1>2, <1>3, <1>4, <1>5 DEF Typed

\* Chunks are chunk ids.
LEMMA ChunksAreIds == Chunks \in SUBSET ChunkIds
BY DEF Chunks

\* What the steps of a goroutine do to its variables leaves them of their type.
LEMMA MemUpdates ==
    ASSUME NEW f \in [Tasks -> Mems], NEW t \in Tasks
    PROVE  /\ \A v \in Videos : [f EXCEPT ![t].video = v] \in [Tasks -> Mems]
           /\ \A x \in Transcripts : [f EXCEPT ![t].text = x] \in [Tasks -> Mems]
           /\ \A S \in SUBSET ChunkIds : [f EXCEPT ![t].chunks = S] \in [Tasks -> Mems]
           /\ \A S \in SUBSET ChunkIds : [f EXCEPT ![t].fresh = S] \in [Tasks -> Mems]
           /\ \A S \in SUBSET ChunkIds : [f EXCEPT ![t].known = S] \in [Tasks -> Mems]
           /\ \A b \in BOOLEAN : [f EXCEPT ![t].force = b] \in [Tasks -> Mems]
           /\ [f EXCEPT ![t].kept = TRUE] \in [Tasks -> Mems]
           /\ [f EXCEPT ![t].failed = TRUE] \in [Tasks -> Mems]
           /\ \A m \in Mems : [f EXCEPT ![t] = m] \in [Tasks -> Mems]
<1>1. \A v \in Videos : [f[t] EXCEPT !.video = v] \in Mems
  BY DEF Mems
<1>2. \A x \in Transcripts : [f[t] EXCEPT !.text = x] \in Mems
  BY DEF Mems
<1>3. \A S \in SUBSET ChunkIds : [f[t] EXCEPT !.chunks = S] \in Mems
  BY DEF Mems
<1>4. \A S \in SUBSET ChunkIds : [f[t] EXCEPT !.fresh = S] \in Mems
  BY DEF Mems
<1>5. \A S \in SUBSET ChunkIds : [f[t] EXCEPT !.known = S] \in Mems
  BY DEF Mems
<1>6. \A b \in BOOLEAN : [f[t] EXCEPT !.force = b] \in Mems
  BY DEF Mems
<1>7. [f[t] EXCEPT !.kept = TRUE] \in Mems /\ [f[t] EXCEPT !.failed = TRUE] \in Mems
  BY DEF Mems
<1> QED
  BY <1>1, <1>2, <1>3, <1>4, <1>5, <1>6, <1>7

\* The same for the variables of the goroutines as they are.
LEMMA MemWrites ==
    ASSUME Typed, NEW t \in Tasks
    PROVE  /\ [mem EXCEPT ![t].video = video] \in [Tasks -> Mems]
           /\ [mem EXCEPT ![t].text = transcript] \in [Tasks -> Mems]
           /\ [mem EXCEPT ![t].chunks = Chunks] \in [Tasks -> Mems]
           /\ [mem EXCEPT ![t].known = {c \in ChunkIds : quiz[c] # {}}] \in [Tasks -> Mems]
           /\ \A c : [mem EXCEPT ![t].fresh = @ \ {c}] \in [Tasks -> Mems]
           /\ Done(t) \in [Tasks -> Mems]
           /\ [mem EXCEPT ![t] = [NoMem EXCEPT !.force = mem[t].force]] \in [Tasks -> Mems]
           /\ [mem EXCEPT ![t] = NoMem] \in [Tasks -> Mems]
<1>1. mem \in [Tasks -> Mems] /\ mem[t] \in Mems
  BY DEF Typed, RunTypes
<1>2. video \in Videos /\ transcript \in Transcripts
  BY DEF Typed, LessonTypes
<1>3. \A c : mem[t].fresh \ {c} \in SUBSET ChunkIds
  BY <1>1 DEF Mems
<1>4. mem[t].chunks \ {CurrentChunk(t)} \in SUBSET ChunkIds
  BY <1>1 DEF Mems
<1>5. [NoMem EXCEPT !.force = mem[t].force] \in Mems
  BY <1>1, NothingIsTyped DEF Mems
<1>6. /\ [mem EXCEPT ![t].video = video] \in [Tasks -> Mems]
      /\ [mem EXCEPT ![t].text = transcript] \in [Tasks -> Mems]
      /\ [mem EXCEPT ![t].chunks = Chunks] \in [Tasks -> Mems]
      /\ [mem EXCEPT ![t].known = {c \in ChunkIds : quiz[c] # {}}] \in [Tasks -> Mems]
  BY <1>1, <1>2, ChunksAreIds, MemUpdates
<1>7. \A c : [mem EXCEPT ![t].fresh = mem[t].fresh \ {c}] \in [Tasks -> Mems]
  BY <1>1, <1>3, MemUpdates
<1>8. [mem EXCEPT ![t].chunks = mem[t].chunks \ {CurrentChunk(t)}] \in [Tasks -> Mems]
  BY <1>1, <1>4, MemUpdates
<1>9. [mem EXCEPT ![t] = [NoMem EXCEPT !.force = mem[t].force]] \in [Tasks -> Mems]
  BY <1>1, <1>5, MemUpdates
<1>10. [mem EXCEPT ![t] = NoMem] \in [Tasks -> Mems]
  BY <1>1, NothingIsTyped, MemUpdates
<1> QED
  BY <1>6, <1>7, <1>8, <1>9, <1>10 DEF Done

\* Starts, claims, losses, reaps, cancellations and crashes keep the types.
LEMMA QueueTyped ==
    ASSUME Typed, QueueStep
    PROVE  Typed'
<1> USE DEF Typed
<1>1. ASSUME NEW k \in Started, NEW f \in BOOLEAN, StartLessonTask(k, f)
      PROVE  Typed'
  <2>1. k \in Kinds
    BY ContentAssumption
  <2> QED
    BY <1>1, <2>1 DEF StartLessonTask, RowTypes, RunTypes, LessonTypes, EditTypes, Hanging,
       Counted, Claimed, runVars, lessonVars, countVars, Rowed, Active, Kinds
<1>2. ASSUME NEW t \in Tasks, CancelLessonTask(t)
      PROVE  Typed'
  BY <1>2 DEF CancelLessonTask, RowTypes, RunTypes, LessonTypes, EditTypes, Hanging,
     Counted, Claimed, runVars, lessonVars, countVars, Rowed, Active
<1>3. ASSUME NEW t \in Tasks, Claim(t)
      PROVE  Typed'
  <2>1. FirstStep(t) \in Steps
    <3>1. kind[t] \in Kinds
      BY <1>3 DEF Claim, Claimed, RowTypes
    <3>2. kind[t] = "pipeline_run" =>
            <<"video", "load", "targets">>[saved[t] + 1] \in {"video", "load", "targets"}
      BY DEF RowTypes
    <3> QED
      BY <3>1, <3>2 DEF FirstStep, Kinds, Steps
  <2>2. GenForce(t) \in BOOLEAN
    BY DEF GenForce, RowTypes
  <2>3. mem' \in [Tasks -> Mems]
    BY <1>3, <2>2 DEF Claim, RunTypes, Mems
  <2>4. runs[t] + 1 \in 0..MaxRuns /\ runs[t] + 1 >= 1
    BY <1>3, ContentAssumption DEF Claim, RunTypes
  <2>5. RunTypes'
    BY <1>3, <2>1, <2>3, <2>4 DEF Claim, RunTypes
  <2>6. RowTypes' /\ LessonTypes' /\ EditTypes' /\ Hanging' /\ Counted'
    BY <1>3 DEF Claim, RowTypes, LessonTypes, EditTypes, Hanging, Counted,
       lessonVars, countVars, Rowed, Active
  <2>7. Claimed'
    BY <1>3, <2>4 DEF Claim, Claimed, RowTypes, RunTypes
  <2> QED
    BY <2>5, <2>6, <2>7
<1>4. ASSUME NEW t \in Tasks, Lose(t)
      PROVE  Typed'
  BY <1>4 DEF Lose, RowTypes, RunTypes, LessonTypes, EditTypes, Hanging,
     Counted, Claimed, rowVars, lessonVars, countVars
<1>5. ASSUME NEW t \in Tasks, Reap(t)
      PROVE  Typed'
  BY <1>5 DEF Reap, RowTypes, RunTypes, LessonTypes, EditTypes, Hanging,
     Counted, Claimed, runVars, lessonVars, countVars, Rowed, Active
<1>6. ASSUME Crash
      PROVE  Typed'
  <2>1. Counted'
    BY <1>6, ContentAssumption DEF Crash, Counted, lessonVars, NoEdit, EditTypes
  <2> QED
    BY <1>6, <2>1, NothingIsTyped DEF Crash, RowTypes, RunTypes, LessonTypes, EditTypes, Hanging,
       Claimed, rowVars, lessonVars, Steps
<1> QED
  BY <1>1, <1>2, <1>3, <1>4, <1>5, <1>6 DEF QueueStep

\* A call to a store counts at most one fault.
LEMMA CallsCounted ==
    ASSUME Counted, NEW t \in Tasks, CallOk(t) \/ CallFails(t) \/ Works \/ Breaks
    PROVE  faults' \in 0..MaxFaults
BY ContentAssumption DEF Counted, CallOk, CallFails, Works, Breaks

\* The steps of a transcription keep the types.
LEMMA TranscribeTyped ==
    ASSUME Typed, NEW t \in Tasks, TranscribeStep(t)
    PROVE  Typed'
<1>m. /\ mem \in [Tasks -> Mems]
      /\ [mem EXCEPT ![t].video = video] \in [Tasks -> Mems]
      /\ [mem EXCEPT ![t].chunks = Chunks] \in [Tasks -> Mems]
  BY MemWrites DEF Typed, RunTypes
<1> USE DEF Typed, RowTypes, RunTypes, LessonTypes, EditTypes, Hanging, Claimed, Goto,
            rowVars, runVars, lessonVars, countVars, Steps
<1> DEFINE Rest == UNCHANGED <<takes, chunksMade, videos, edits, crashes, edit, video>>
<1>0. ASSUME Rest, faults' \in 0..MaxFaults
      PROVE  Counted'
  BY <1>0 DEF Counted
<1>1. ASSUME ReadVideo(t)
      PROVE  Typed'
  <2>1. mem' \in [Tasks -> Mems]
    <3>1. mem' = [mem EXCEPT ![t].video = video] \/ mem' = mem
      BY <1>1, Zenon DEF ReadVideo
    <3> QED
      BY <1>m, <3>1, Zenon
  <2>2. Counted'
    BY <1>0, <1>1, CallsCounted DEF ReadVideo
  <2> QED
    BY <1>1, <2>1, <2>2 DEF ReadVideo
<1>2. ASSUME Purge(t)
      PROVE  Typed'
  <2>1. row' \in [Tasks -> Rowed]
    BY <1>2 DEF Purge, Rowed
  <2>2. Counted'
    BY <1>0, <1>2, CallsCounted DEF Purge
  <2>3. Claimed'
    BY <1>2 DEF Purge, Rows
  <2> QED
    BY <1>2, <2>1, <2>2, <2>3 DEF Purge
<1>3. ASSUME TryAcquire(t)
      PROVE  Typed'
  BY <1>3 DEF TryAcquire, Counted
<1>4. ASSUME WipeTranscript(t)
      PROVE  Typed'
  <2>1. Counted'
    BY <1>0, <1>4, CallsCounted DEF WipeTranscript
  <2> QED
    BY <1>4, <2>1, NothingIsTyped DEF WipeTranscript
<1>5. ASSUME ListChunks(t)
      PROVE  Typed'
  <2>1. mem' \in [Tasks -> Mems]
    <3>1. mem' = [mem EXCEPT ![t].chunks = Chunks] \/ mem' = mem
      BY <1>5, Zenon DEF ListChunks
    <3> QED
      BY <1>m, <3>1, Zenon
  <2>2. Counted'
    BY <1>0, <1>5, CallsCounted DEF ListChunks
  <2> QED
    BY <1>5, <2>1, <2>2 DEF ListChunks
<1>6. ASSUME WipeQuiz(t)
      PROVE  Typed'
  <2>1. \/ quiz' = [c \in ChunkIds |-> {}] /\ orphans' = FALSE
        \/ UNCHANGED <<quiz, orphans>>
    BY <1>6 DEF WipeQuiz
  <2>2. at' \in [Tasks -> Steps] /\ at[t] # "idle" /\ at'[t] # "idle"
    BY <1>6 DEF WipeQuiz
  <2>3. \A u \in Tasks : u # t => at'[u] = at[u]
    BY <1>6 DEF WipeQuiz
  <2>4. LessonTypes' /\ Hanging'
    BY <1>6, <2>1 DEF WipeQuiz
  <2>5. Claimed'
    BY <1>6, <2>2, <2>3 DEF WipeQuiz
  <2>6. Counted'
    BY <1>0, <1>6, CallsCounted DEF WipeQuiz
  <2> QED
    BY <1>6, <2>2, <2>4, <2>5, <2>6 DEF WipeQuiz
<1>7. ASSUME WipeChunks(t)
      PROVE  Typed'
  <2>1. DeletesChunks \/ UNCHANGED <<chunkOf, quiz, orphans>>
    BY <1>7 DEF WipeChunks
  <2>2. /\ quiz' \in [ChunkIds -> SUBSET Batches] /\ Hanging'
        /\ chunkOf' \in [ChunkIds -> Transcripts] /\ orphans' \in BOOLEAN
    <3>1. CASE DeletesChunks
      <4>1. chunkOf' \in [ChunkIds -> Transcripts]
        BY <3>1, NothingIsTyped DEF DeletesChunks
      <4>2. quiz' = [c \in ChunkIds |-> {}] /\ orphans' \in BOOLEAN
        BY <3>1 DEF DeletesChunks
      <4> QED
        BY <4>1, <4>2
    <3>2. CASE UNCHANGED <<chunkOf, quiz, orphans>>
      BY <3>2
    <3> QED
      BY <2>1, <3>1, <3>2
  <2>3. Counted'
    BY <1>0, <1>7, CallsCounted DEF WipeChunks
  <2> QED
    BY <1>7, <2>2, <2>3 DEF WipeChunks
<1>8. ASSUME WipeTexts(t)
      PROVE  Typed'
  <2>1. text' \in [ChunkIds -> Transcripts]
    BY <1>8, NothingIsTyped DEF WipeTexts, DeleteTexts
  <2>2. Counted'
    BY <1>0, <1>8, CallsCounted DEF WipeTexts, DeleteTexts
  <2> QED
    BY <1>8, <2>1, <2>2 DEF WipeTexts
<1>9. ASSUME Transcribe(t)
      PROVE  Typed'
  BY <1>9 DEF Transcribe, Counted
<1>10. ASSUME SaveTranscript(t)
      PROVE  Typed'
  <2>1. AfterTranscribe(t) \in {"transcribed", "succeed"}
    BY DEF AfterTranscribe
  <2>2. transcript' \in Transcripts
    <3>1. mem[t].video \in Videos /\ takes + 1 \in Nat
      BY DEF Mems, Counted
    <3> QED
      BY <1>10, <3>1 DEF SaveTranscript, Transcripts, Videos
  <2>3. Counted'
    BY <1>10, CallsCounted DEF SaveTranscript, Counted
  <2> QED
    BY <1>10, <2>1, <2>2, <2>3 DEF SaveTranscript
<1> QED
  BY <1>1, <1>2, <1>3, <1>4, <1>5, <1>6, <1>7, <1>8, <1>9, <1>10 DEF TranscribeStep

\* The steps that cut a transcript keep the types.
LEMMA ChunkTyped ==
    ASSUME Typed, NEW t \in Tasks, ChunkStep(t)
    PROVE  Typed'
<1>m. /\ mem \in [Tasks -> Mems]
      /\ [mem EXCEPT ![t].text = transcript] \in [Tasks -> Mems]
      /\ \A c : [mem EXCEPT ![t].fresh = @ \ {c}] \in [Tasks -> Mems]
  BY MemWrites DEF Typed, RunTypes
<1> USE DEF Typed, RowTypes, RunTypes, LessonTypes, EditTypes, Hanging, Claimed, Goto,
            rowVars, runVars, lessonVars, countVars, Steps
<1> DEFINE Rest == UNCHANGED <<takes, chunksMade, videos, edits, crashes, edit, video>>
<1>0. ASSUME Rest, faults' \in 0..MaxFaults
      PROVE  Counted'
  BY <1>0 DEF Counted
<1>1. ASSUME LoadTranscript(t)
      PROVE  Typed'
  <2>1. mem' \in [Tasks -> Mems]
    <3>1. mem' = [mem EXCEPT ![t].text = transcript] \/ mem' = mem
      BY <1>1, Zenon DEF LoadTranscript
    <3> QED
      BY <1>m, <3>1, Zenon
  <2>2. Counted'
    BY <1>0, <1>1, CallsCounted DEF LoadTranscript
  <2> QED
    BY <1>1, <2>1, <2>2 DEF LoadTranscript
<1>2. ASSUME Propose(t)
      PROVE  Typed'
  BY <1>2 DEF Propose, Counted
<1>3. ASSUME DropTexts(t)
      PROVE  Typed'
  <2>1. text' \in [ChunkIds -> Transcripts]
    BY <1>3, NothingIsTyped DEF DropTexts, DeleteTexts
  <2>2. Counted'
    BY <1>0, <1>3, CallsCounted DEF DropTexts, DeleteTexts
  <2> QED
    BY <1>3, <2>1, <2>2 DEF DropTexts
<1>4. ASSUME SaveTexts(t)
      PROVE  Typed'
  <2> DEFINE next == CHOOSE c \in mem[t].fresh : \A d \in mem[t].fresh : c <= d
  <2>1. AfterChunk(t) \in {"chunked", "succeed"}
    BY DEF AfterChunk
  <2>2. mem' \in [Tasks -> Mems]
    BY <1>4, <1>m, Zenon DEF SaveTexts
  <2>3. text' \in [ChunkIds -> Transcripts]
    <3>1. mem[t].text \in Transcripts
      BY DEF Mems
    <3> QED
      BY <1>4, <3>1 DEF SaveTexts
  <2>4. Counted'
    BY <1>0, <1>4, CallsCounted DEF SaveTexts
  <2> QED
    BY <1>4, <2>1, <2>2, <2>3, <2>4 DEF SaveTexts
<1>5. ASSUME NEW n \in 1..2, chunksMade + n <= MaxChunks, SwapChunks(t, n)
      PROVE  Typed'
  <2> DEFINE fresh == (chunksMade + 1)..(chunksMade + n)
  <2>1. fresh \subseteq ChunkIds
    BY <1>5, ContentAssumption DEF Counted, ChunkIds
  <2>2. mem' \in [Tasks -> Mems]
    <3>1. [mem EXCEPT ![t].chunks = Chunks, ![t].fresh = fresh]
            = [[mem EXCEPT ![t].chunks = Chunks] EXCEPT ![t].fresh = fresh]
      OBVIOUS
    <3>2. [mem EXCEPT ![t].chunks = Chunks] \in [Tasks -> Mems]
      BY ChunksAreIds, MemUpdates
    <3>3. [mem EXCEPT ![t].chunks = Chunks, ![t].fresh = fresh] \in [Tasks -> Mems]
      BY <2>1, <3>1, <3>2, MemUpdates
    <3> QED
      BY <1>5, <3>3 DEF SwapChunks
  <2>3. mem[t].text \in Transcripts
    BY DEF Mems
  <2>4. chunkOf' \in [ChunkIds -> Transcripts] /\ quiz' \in [ChunkIds -> SUBSET Batches]
    <3>1. \/ /\ chunkOf' = [c \in ChunkIds |-> IF c \in fresh THEN mem[t].text
                                                ELSE NoTranscript]
             /\ quiz' = [c \in ChunkIds |-> {}]
          \/ UNCHANGED <<chunkOf, quiz>>
      BY <1>5 DEF SwapChunks
    <3> HIDE DEF fresh
    <3>2. [c \in ChunkIds |-> IF c \in fresh THEN mem[t].text ELSE NoTranscript]
            \in [ChunkIds -> Transcripts]
      BY <2>3, NothingIsTyped
    <3>3. [c \in ChunkIds |-> {}] \in [ChunkIds -> SUBSET Batches]
      OBVIOUS
    <3> QED
      BY <3>1, <3>2, <3>3
  <2>5. Hanging'
    BY <1>5 DEF SwapChunks
  <2>6. Counted'
    BY <1>5, CallsCounted, ContentAssumption DEF SwapChunks, Counted
  <2> QED
    BY <1>5, <2>2, <2>4, <2>5, <2>6 DEF SwapChunks
<1> QED
  BY <1>1, <1>2, <1>3, <1>4, <1>5 DEF ChunkStep

\* The steps that generate questions keep the types.
LEMMA GenerateTyped ==
    ASSUME Typed, NEW t \in Tasks, GenerateStep(t)
    PROVE  Typed'
<1>m. /\ mem \in [Tasks -> Mems]
      /\ [mem EXCEPT ![t].chunks = Chunks] \in [Tasks -> Mems]
      /\ [mem EXCEPT ![t].known = {c \in ChunkIds : quiz[c] # {}}] \in [Tasks -> Mems]
      /\ Done(t) \in [Tasks -> Mems]
  BY MemWrites DEF Typed, RunTypes
<1> USE DEF Typed, RowTypes, RunTypes, LessonTypes, EditTypes, Hanging, Claimed, Goto,
            rowVars, runVars, lessonVars, countVars, Steps
<1> DEFINE Rest == UNCHANGED <<takes, chunksMade, videos, edits, crashes, edit, video>>
<1>0. ASSUME Rest, faults' \in 0..MaxFaults
      PROVE  Counted'
  BY <1>0 DEF Counted
<1>1. ASSUME LoadTargets(t)
      PROVE  Typed'
  <2>1. mem' \in [Tasks -> Mems]
    <3>1. mem' = [mem EXCEPT ![t].chunks = Chunks] \/ mem' = mem
      BY <1>1, Zenon DEF LoadTargets
    <3> QED
      BY <1>m, <3>1, Zenon
  <2>2. Counted'
    BY <1>0, <1>1, CallsCounted DEF LoadTargets
  <2> QED
    BY <1>1, <2>1, <2>2 DEF LoadTargets
<1>2. ASSUME LoadKnown(t)
      PROVE  Typed'
  <2>1. mem' \in [Tasks -> Mems]
    <3>1. mem' = [mem EXCEPT ![t].known = {c \in ChunkIds : quiz[c] # {}}] \/ mem' = mem
      BY <1>2, Zenon DEF LoadKnown
    <3> QED
      BY <1>m, <3>1, Zenon
  <2>2. Counted'
    BY <1>0, <1>2, CallsCounted DEF LoadKnown
  <2> QED
    BY <1>2, <2>1, <2>2 DEF LoadKnown
<1>3. ASSUME NextChunk(t)
      PROVE  Typed'
  BY <1>3, <1>m DEF NextChunk, Counted
<1>4. ASSUME Generate(t)
      PROVE  Typed'
  <2>1. [Done(t) EXCEPT ![t].failed = TRUE] \in [Tasks -> Mems]
    BY <1>m, MemUpdates, Zenon
  <2> QED
    BY <1>4, <1>m, <2>1 DEF Generate, Counted
<1>5. ASSUME SaveInteractions(t)
      PROVE  Typed'
  <2> DEFINE c == CurrentChunk(t)  batch == <<t, runs[t]>>
  <2>1. [Done(t) EXCEPT ![t].kept = TRUE] \in [Tasks -> Mems]
    BY <1>m, MemUpdates, Zenon
  <2>2. batch \in Batches
    BY <1>5 DEF SaveInteractions, Batches
  <2>3. quiz' \in [ChunkIds -> SUBSET Batches]
    BY <1>5, <2>2 DEF SaveInteractions
  <2>4. Hanging'
    BY <1>5 DEF SaveInteractions
  <2>5. Counted'
    BY <1>0, <1>5, CallsCounted DEF SaveInteractions
  <2> QED
    BY <1>5, <1>m, <2>1, <2>3, <2>4, <2>5 DEF SaveInteractions
<1>6. ASSUME Generated(t)
      PROVE  Typed'
  BY <1>6 DEF Generated, Counted
<1> QED
  BY <1>1, <1>2, <1>3, <1>4, <1>5, <1>6 DEF GenerateStep

\* Checkpoints and the return of a goroutine keep the types.
LEMMA CloseTyped ==
    ASSUME Typed, NEW t \in Tasks, CheckpointStep(t) \/ Finish(t)
    PROVE  Typed'
<1>m. /\ mem \in [Tasks -> Mems]
      /\ [mem EXCEPT ![t] = [NoMem EXCEPT !.force = mem[t].force]] \in [Tasks -> Mems]
      /\ [mem EXCEPT ![t] = NoMem] \in [Tasks -> Mems]
  BY MemWrites DEF Typed, RunTypes
<1> USE DEF Typed, RowTypes, RunTypes, LessonTypes, EditTypes, Hanging, Claimed, Goto,
            rowVars, runVars, lessonVars, countVars, Steps
<1> DEFINE Rest == UNCHANGED <<takes, chunksMade, videos, edits, crashes, edit, video>>
<1>0. ASSUME Rest, faults' \in 0..MaxFaults
      PROVE  Counted'
  BY <1>0 DEF Counted
<1>1. ASSUME NEW step \in {"transcribed", "chunked"}, NEW stage \in 0..2,
             NEW next \in {"load", "targets"}, Checkpoint(t, step, stage, next)
      PROVE  Typed'
  <2>1. saved' \in [Tasks -> 0..2]
    BY <1>1 DEF Checkpoint
  <2>2. Counted'
    BY <1>0, <1>1, CallsCounted DEF Checkpoint
  <2>3. mem' \in [Tasks -> Mems]
    BY <1>1, <1>m, Zenon DEF Checkpoint
  <2> QED
    BY <1>1, <2>1, <2>2, <2>3 DEF Checkpoint
<1>2. ASSUME Finish(t)
      PROVE  Typed'
  <2>1. row' \in [Tasks -> Rowed]
    BY <1>2 DEF Finish, Rowed
  <2>2. Counted'
    BY <1>0, <1>2, CallsCounted DEF Finish
  <2>3. mem' \in [Tasks -> Mems]
    BY <1>2, <1>m, Zenon DEF Finish
  <2>4. Claimed'
    <3>1. row' = row \/ (row[t] = "processing" /\ \E s \in {"succeeded", "failed"} :
                           row' = [row EXCEPT ![t] = s])
      BY <1>2 DEF Finish
    <3> QED
      BY <1>2, <3>1 DEF Finish
  <2> QED
    BY <1>2, <2>1, <2>2, <2>3, <2>4 DEF Finish
<1> QED
  BY <1>1, <1>2 DEF CheckpointStep

\* Resets and uploads keep the types.
LEMMA EditTyped ==
    ASSUME Typed, EditStep
    PROVE  Typed'
<1> USE DEF Typed, RowTypes, RunTypes, LessonTypes, EditTypes, Hanging, Claimed, EditGoto,
            rowVars, runVars, lessonVars, countVars, EditSteps
<1>1. ASSUME NEW step \in {"reset_quiz", "upload"}, BeginEdit(step)
      PROVE  Typed'
  <2>1. edit'.at = step /\ edit' \in [at: EditSteps, had: BOOLEAN, chunks: SUBSET ChunkIds]
    BY <1>1, ChunksAreIds DEF BeginEdit
  <2>2. Counted'
    BY <1>1, <2>1, ContentAssumption DEF BeginEdit, Counted, NoEdit
  <2> QED
    BY <1>1, <2>1, <2>2 DEF BeginEdit
<1>2. ASSUME ResetQuiz
      PROVE  Typed'
  BY <1>2 DEF ResetQuiz, Counted
<1>3. ASSUME ResetChunks
      PROVE  Typed'
  <2>1. chunkOf' \in [ChunkIds -> Transcripts]
    BY <1>3, NothingIsTyped DEF ResetChunks, DeletesChunks
  <2>2. quiz' = [c \in ChunkIds |-> {}] /\ orphans' \in BOOLEAN
    BY <1>3 DEF ResetChunks, DeletesChunks
  <2> QED
    BY <1>3, <2>1, <2>2 DEF ResetChunks, Counted
<1>4. ASSUME row' = AllRowsDeleted, UNCHANGED <<kind, at, runs>>
      PROVE  row' \in [Tasks -> Rowed] /\ Claimed'
  BY <1>4 DEF AllRowsDeleted, Rows, Rowed
<1>5. ASSUME ResetTasks
      PROVE  Typed'
  BY <1>4, <1>5 DEF ResetTasks, Counted
<1>6. ASSUME ResetVideo
      PROVE  Typed'
  <2>1. 0 \in Videos
    BY ContentAssumption DEF Videos
  <2> QED
    BY <1>6, <2>1 DEF ResetVideo, Counted
<1>7. ASSUME UploadVideo
      PROVE  Typed'
  <2>1. videos + 1 \in Videos
    BY <1>7, ContentAssumption DEF UploadVideo, Counted, Videos
  <2>2. edit'.at # "upload"
    BY <1>7 DEF UploadVideo, NoEdit
  <2>3. Counted'
    BY <1>7, <2>2, ContentAssumption DEF UploadVideo, Counted
  <2>4. \/ /\ quiz' = [c \in ChunkIds |-> {}] /\ orphans' = FALSE
           /\ chunkOf' = [c \in ChunkIds |-> NoTranscript]
        \/ UNCHANGED <<quiz, orphans, chunkOf>>
    BY <1>7 DEF UploadVideo
  <2>5. [c \in ChunkIds |-> NoTranscript] \in [ChunkIds -> Transcripts]
    BY NothingIsTyped
  <2>6. LessonTypes' /\ Hanging'
    BY <1>7, <2>1, <2>4, <2>5 DEF UploadVideo
  <2>7. RowTypes' /\ RunTypes' /\ Claimed'
    BY <1>4, <1>7 DEF UploadVideo
  <2>8. EditTypes'
    BY <1>7, NothingIsTyped DEF UploadVideo
  <2> QED
    BY <2>3, <2>6, <2>7, <2>8
<1>8. ASSUME CleanTranscript
      PROVE  Typed'
  BY <1>8, NothingIsTyped DEF CleanTranscript, Counted
<1>9. ASSUME CleanTexts
      PROVE  Typed'
  <2>1. text' \in [ChunkIds -> Transcripts]
    BY <1>9, NothingIsTyped DEF CleanTexts
  <2>2. edit' = NoEdit /\ edit'.at # "upload"
    BY <1>9 DEF CleanTexts, NoEdit
  <2> QED
    BY <1>9, <2>1, <2>2, NothingIsTyped DEF CleanTexts, Counted
<1> QED
  BY <1>1, <1>2, <1>3, <1>5, <1>6, <1>7, <1>8, <1>9 DEF EditStep

\* Every step keeps the types.
LEMMA NextTyped ==
    ASSUME Typed, [Next]_vars
    PROVE  Typed'
<1>1. CASE QueueStep
  BY <1>1, QueueTyped
<1>2. ASSUME NEW t \in Tasks, ExecutorStep(t)
      PROVE  Typed'
  BY <1>2, TranscribeTyped, ChunkTyped, GenerateTyped, CloseTyped DEF ExecutorStep
<1>3. CASE EditStep
  BY <1>3, EditTyped
<1>4. CASE UNCHANGED vars
  BY <1>4 DEF vars, rowVars, runVars, lessonVars, countVars, Typed, RowTypes, RunTypes,
     LessonTypes, EditTypes, Hanging, Counted, Claimed
<1> QED
  BY <1>1, <1>2, <1>3, <1>4 DEF Next

\* The stores, the goroutines and the counters stay well-formed, interactions hang on
\* existing chunks only, and a task that does not run has no goroutine: for any number
\* of tasks, runs, chunks, edits, crashes and faults.
THEOREM ContentTypes == Spec => []TypeOK
<1>1. Typed => TypeOK
  BY TypedIsTypeOK
<1> QED
  BY <1>1, InitTyped, NextTyped, PTL DEF Spec

--------------------------------------------------------------------------------
(* The lesson's entry of analysisLocks. *)

LockSteps == {"wipe_transcript", "list", "wipe_quiz", "wipe_chunks", "wipe_texts",
              "stt", "save_transcript"}

\* A goroutine that neither enters nor leaves the locked part leaves the lock right.
LEMMA MoveKeepsLock ==
    ASSUME RunTypes, LockHeldByRunner, UNCHANGED lock,
           NEW t \in Tasks, NEW s, at' = [at EXCEPT ![t] = s],
           at[t] \in LockSteps <=> s \in LockSteps
    PROVE  LockHeldByRunner'
BY DEF RunTypes, LockHeldByRunner, LockSteps

\* One that leaves it gives the lock back.
LEMMA ReturnReleases ==
    ASSUME RunTypes, LockHeldByRunner, lock' = Nobody,
           NEW t \in Tasks, NEW s, at' = [at EXCEPT ![t] = s],
           at[t] \in LockSteps, s \notin LockSteps
    PROVE  LockHeldByRunner'
BY DEF RunTypes, LockHeldByRunner, LockSteps, Tasks, Nobody

\* Every step keeps the lock with the goroutine that took it.
LEMMA LockKept ==
    ASSUME Typed, LockHeldByRunner, [Next]_vars
    PROVE  LockHeldByRunner'
<1> USE DEF Typed
<1>1. ASSUME UNCHANGED <<at, lock>>
      PROVE  LockHeldByRunner'
  BY <1>1 DEF LockHeldByRunner
<1>2. CASE QueueStep
  <2>1. ASSUME NEW t \in Tasks, Claim(t)
        PROVE  LockHeldByRunner'
    <3>1. FirstStep(t) \notin LockSteps
      <4>1. kind[t] \in Kinds
        BY <2>1 DEF Claim, Claimed, RowTypes
      <4>2. kind[t] = "pipeline_run" =>
              <<"video", "load", "targets">>[saved[t] + 1] \in {"video", "load", "targets"}
        BY DEF RowTypes
      <4> QED
        BY <4>1, <4>2 DEF FirstStep, Kinds, LockSteps
    <3>2. at[t] \notin LockSteps
      BY <2>1 DEF Claim, LockSteps
    <3> QED
      BY <2>1, <3>1, <3>2, MoveKeepsLock DEF Claim
  <2>2. CASE Crash
    BY <2>2 DEF Crash, LockHeldByRunner, Tasks, Nobody
  <2> QED
    BY <1>1, <1>2, <2>1, <2>2
       DEF QueueStep, StartLessonTask, CancelLessonTask, Lose, Reap, runVars
<1>3. ASSUME NEW t \in Tasks, TranscribeStep(t)
      PROVE  LockHeldByRunner'
  <2>1. CASE ReadVideo(t) \/ Purge(t)
    BY <2>1, MoveKeepsLock DEF ReadVideo, Purge, Goto, LockSteps
  <2>2. CASE TryAcquire(t)
    <3>1. CASE lock = Nobody
      <4>1. lock' = t /\ at' = [at EXCEPT ![t] = "wipe_transcript"]
        BY <2>2, <3>1 DEF TryAcquire, Goto
      <4>2. \A u \in Tasks : at[u] \notin LockSteps
        BY <3>1 DEF LockHeldByRunner, LockSteps, Tasks, Nobody
      <4>3. at'[t] = "wipe_transcript" /\ \A u \in Tasks : u # t => at'[u] = at[u]
        BY <4>1 DEF RunTypes
      <4> QED
        BY <4>1, <4>2, <4>3 DEF LockHeldByRunner, LockSteps
    <3>2. CASE lock # Nobody
      BY <2>2, <3>2, MoveKeepsLock DEF TryAcquire, Goto, LockSteps
    <3> QED
      BY <3>1, <3>2
  <2>3. CASE WipeTranscript(t) \/ ListChunks(t) \/ WipeTexts(t)
    BY <2>3, MoveKeepsLock DEF WipeTranscript, ListChunks, WipeTexts, Goto, LockSteps
  <2>4. CASE WipeQuiz(t) \/ WipeChunks(t)
    BY <2>4, MoveKeepsLock DEF WipeQuiz, WipeChunks, Goto, LockSteps
  <2>5. CASE Transcribe(t)
    BY <2>5, MoveKeepsLock, ReturnReleases DEF Transcribe, Goto, LockSteps
  <2>6. CASE SaveTranscript(t)
    <3>1. AfterTranscribe(t) \notin LockSteps
      BY DEF AfterTranscribe, LockSteps
    <3> QED
      BY <2>6, <3>1, ReturnReleases DEF SaveTranscript, Goto, LockSteps
  <2> QED
    BY <1>3, <2>1, <2>2, <2>3, <2>4, <2>5, <2>6 DEF TranscribeStep
<1>4. ASSUME NEW t \in Tasks, ChunkStep(t)
      PROVE  LockHeldByRunner'
  <2>1. \E s : /\ at' = [at EXCEPT ![t] = s]
               /\ s \in {"fail", "propose", "swap", "drop_texts", "save_texts", AfterChunk(t)}
    BY <1>4 DEF ChunkStep, LoadTranscript, Propose, DropTexts, SaveTexts, SwapChunks, Goto
  <2>2. AfterChunk(t) \notin LockSteps
    BY DEF AfterChunk, LockSteps
  <2>3. at[t] \notin LockSteps /\ lock' = lock
    BY <1>4 DEF ChunkStep, LoadTranscript, Propose, DropTexts, SaveTexts, SwapChunks, LockSteps
  <2> QED
    BY <2>1, <2>2, <2>3, MoveKeepsLock DEF LockSteps
<1>5. ASSUME NEW t \in Tasks, GenerateStep(t)
      PROVE  LockHeldByRunner'
  <2>1. \E s \in {"fail", "succeed", "known", "next", "ask", "keep"} :
          at' = [at EXCEPT ![t] = s]
    <3>1. at = [at EXCEPT ![t] = at[t]]
      BY DEF RunTypes
    <3> QED
      BY <1>5, <3>1 DEF GenerateStep, LoadTargets, LoadKnown, NextChunk, Generate,
         SaveInteractions, Generated, Goto
  <2>2. at[t] \notin LockSteps /\ lock' = lock
    BY <1>5 DEF GenerateStep, LoadTargets, LoadKnown, NextChunk, Generate,
       SaveInteractions, Generated, LockSteps
  <2> QED
    BY <2>1, <2>2, MoveKeepsLock DEF LockSteps
<1>6. ASSUME NEW t \in Tasks, CheckpointStep(t) \/ Finish(t)
      PROVE  LockHeldByRunner'
  <2>1. \E s \in {"idle", "load", "targets"} : at' = [at EXCEPT ![t] = s]
    BY <1>6 DEF CheckpointStep, Checkpoint, Finish, Goto
  <2>2. at[t] \notin LockSteps /\ lock' = lock
    BY <1>6 DEF CheckpointStep, Checkpoint, Finish, LockSteps
  <2> QED
    BY <2>1, <2>2, MoveKeepsLock DEF LockSteps
<1>7. CASE EditStep
  BY <1>1, <1>7 DEF EditStep, BeginEdit, ResetQuiz, ResetChunks, ResetTasks, ResetVideo,
     UploadVideo, CleanTranscript, CleanTexts, runVars
<1>8. CASE UNCHANGED vars
  BY <1>1, <1>8 DEF vars, runVars
<1> QED
  BY <1>2, <1>3, <1>4, <1>5, <1>6, <1>7, <1>8 DEF Next, ExecutorStep

\* TryAcquire and the deferred Release: however many tasks run, fail, are cancelled or
\* crash, the lock is held exactly by the goroutine between the two.
THEOREM LockIsHeld == Spec => []LockHeldByRunner
<1>1. Init => LockHeldByRunner
  BY DEF Init, LockHeldByRunner, Tasks, Nobody
<1> QED
  BY <1>1, InitTyped, NextTyped, LockKept, PTL DEF Spec

--------------------------------------------------------------------------------
(* A resumed task leaves one batch per chunk. *)

\* The faults that chunkHasInteractions tolerates: none, or one failing call where no
\* process crashes.  (After a crash, a failing call lets the second run ask again.)
FewFaults == MaxFaults = 0 \/ (MaxFaults = 1 /\ MaxCrashes = 0)

Filling == {"next", "ask", "keep"}
Over == {"idle", "succeed", "fail"}

\* A task is claimed twice, or can be, only after a crash or a failing call.
SecondRunHasFault ==
    \A t \in Tasks :
        /\ row[t] = "absent" => runs[t] = 0
        /\ runs[t] >= 2 => crashes + faults >= 1
        /\ row[t] = "inqueued" /\ runs[t] >= 1 => crashes + faults >= 1
        /\ row[t] = "processing" /\ at[t] = "idle" => crashes + faults >= 1

\* A cancelled goroutine has lost its row.
CancelledLostRow ==
    \A t \in Tasks : cancelled[t] => at[t] # "idle" /\ row[t] \notin Active

\* Batches are of runs that have been, and of earlier runs until a run generates.
BatchesArePast ==
    \A c \in ChunkIds : \A b \in quiz[c] :
        /\ b[2] <= runs[b[1]]
        /\ at[b[1]] \notin Filling \union Over => b[2] < runs[b[1]]

\* What a task may still fill has no batch of it.
FillsTheEmpty ==
    \A t \in Tasks :
        at[t] \in Filling /\ ~mem[t].force /\ ~cancelled[t] =>
            \A c \in mem[t].chunks \ mem[t].known : \A b \in quiz[c] : b[1] # t

\* A task asks for a chunk that it did not find filled.
AsksUnknown ==
    \A t \in Tasks :
        at[t] \in {"ask", "keep"} =>
            /\ mem[t].chunks # {}
            /\ \A c \in mem[t].chunks :
                  (\A d \in mem[t].chunks : c <= d) => c \notin mem[t].known

Resumable ==
    /\ Typed
    /\ SecondRunHasFault /\ CancelledLostRow
    /\ BatchesArePast /\ FillsTheEmpty /\ AsksUnknown
    /\ NoResumeDuplicates

\* A set of numbers that is not empty has a least one.
LEMMA LeastExists ==
    ASSUME NEW S \in SUBSET Nat, S # {}
    PROVE  \E n \in S : \A m \in S : n <= m
<1> DEFINE T == {0..n : n \in S}
<1>1. T \subseteq FiniteSubsetsOf(Nat) /\ T # {}
  <2>1. \A n \in S : IsFiniteSet(0..n)
    BY FS_Interval
  <2>2. \A n \in S : 0..n \subseteq Nat
    OBVIOUS
  <2> QED
    BY <2>1, <2>2 DEF FiniteSubsetsOf
<1>2. PICK I \in T : \A J \in T : ~(<<J, I>> \in StrictSubsetOrdering(Nat))
  BY <1>1, FS_StrictSubsetOrderingWellFounded, WFMin
<1>3. PICK n \in S : I = 0..n
  BY <1>2
<1>4. \A m \in S : ~(m < n)
  <2> SUFFICES ASSUME NEW m \in S, m < n PROVE FALSE
    OBVIOUS
  <2>1. 0..m \subseteq 0..n /\ 0..m # 0..n
    BY SMT
  <2>2. 0..m \in T /\ 0..m \in SUBSET Nat /\ I \in SUBSET Nat
    BY <1>3
  <2>3. <<0..m, I>> \in StrictSubsetOrdering(Nat)
    BY <1>3, <2>1, <2>2 DEF StrictSubsetOrdering
  <2> QED
    BY <1>2, <2>2, <2>3
<1> QED
  BY <1>4

\* The loop takes the chunks in order.
LEMMA CurrentIsLeast ==
    ASSUME Typed, NEW t \in Tasks, mem[t].chunks # {}
    PROVE  /\ CurrentChunk(t) \in mem[t].chunks
           /\ CurrentChunk(t) \in ChunkIds
           /\ \A d \in mem[t].chunks : CurrentChunk(t) <= d
<1>1. mem[t].chunks \subseteq ChunkIds /\ ChunkIds \subseteq Nat
  BY ContentAssumption DEF Typed, RunTypes, Mems, ChunkIds
<1>2. \E c \in mem[t].chunks : \A d \in mem[t].chunks : c <= d
  BY <1>1, LeastExists
<1> QED
  BY <1>1, <1>2 DEF CurrentChunk

\* What every step of a goroutine but its last does to the queue and to its run.
StepOf(t) ==
    /\ at[t] # "idle"
    /\ \E s \in Steps \ {"idle"} :
          /\ at' = [at EXCEPT ![t] = s]
          /\ at[t] \in Filling \union Over => s \in Filling \union Over
          /\ s \in Filling => GenerateStep(t)
    /\ UNCHANGED <<runs, cancelled, crashes>>
    /\ faults' \in Nat /\ faults' >= faults
    /\ \A u \in Tasks : row'[u] = row[u] \/ (row[u] # "absent" /\ row'[u] = "deleted")
    /\ \A u \in Tasks : u # t => mem'[u] = mem[u]
    /\ ~SaveInteractions(t) => \A c \in ChunkIds : quiz'[c] \subseteq quiz[c]

\* Every executor step but the return is such a step.
LEMMA ExecutorSteps ==
    ASSUME Typed, NEW t \in Tasks, ExecutorStep(t), ~Finish(t)
    PROVE  StepOf(t)
<1> USE DEF Typed, RunTypes, Goto
<1>0. ASSUME CallOk(t) \/ CallFails(t) \/ Works \/ Breaks
      PROVE  faults' \in Nat /\ faults' >= faults
  BY <1>0, ContentAssumption DEF Counted, CallOk, CallFails, Works, Breaks
<1>t. faults \in Nat
  BY ContentAssumption DEF Counted
<1>q. /\ (quiz' = quiz) => \A c \in ChunkIds : quiz'[c] \subseteq quiz[c]
      /\ (quiz' = [c \in ChunkIds |-> {}]) => \A c \in ChunkIds : quiz'[c] \subseteq quiz[c]
  OBVIOUS
<1> USE DEF rowVars, runVars, lessonVars, countVars
<1>1. CASE TranscribeStep(t)
  <2>1. \E s \in {"fail", "purge", "lock", "wipe_transcript", "list", "wipe_quiz", "wipe_chunks",
                  "wipe_texts", "stt", "save_transcript", AfterTranscribe(t)} :
          at' = [at EXCEPT ![t] = s]
    BY <1>1 DEF TranscribeStep, ReadVideo, Purge, TryAcquire, WipeTranscript, ListChunks,
       WipeQuiz, WipeChunks, WipeTexts, Transcribe, SaveTranscript
  <2>2. AfterTranscribe(t) \in {"transcribed", "succeed"}
    BY DEF AfterTranscribe
  <2>3. at[t] \notin Filling \union Over
    BY <1>1 DEF TranscribeStep, ReadVideo, Purge, TryAcquire, WipeTranscript, ListChunks,
       WipeQuiz, WipeChunks, WipeTexts, Transcribe, SaveTranscript, Filling, Over
  <2>4. UNCHANGED <<runs, cancelled, crashes>>
    BY <1>1 DEF TranscribeStep, ReadVideo, Purge, TryAcquire, WipeTranscript, ListChunks,
       WipeQuiz, WipeChunks, WipeTexts, Transcribe, SaveTranscript
  <2>5. CallOk(t) \/ CallFails(t) \/ Works \/ Breaks
    BY <1>1 DEF TranscribeStep, ReadVideo, Purge, TryAcquire, WipeTranscript, ListChunks,
       WipeQuiz, WipeChunks, WipeTexts, Transcribe, SaveTranscript, DeleteTexts, Works
  <2>6. \A u \in Tasks : row'[u] = row[u] \/ (row[u] # "absent" /\ row'[u] = "deleted")
    <3>1. CASE Purge(t)
      BY <3>1 DEF Purge, Rows
    <3> QED
      BY <1>1, <3>1 DEF TranscribeStep, ReadVideo, TryAcquire, WipeTranscript, ListChunks,
         WipeQuiz, WipeChunks, WipeTexts, Transcribe, SaveTranscript
  <2>7. \A u \in Tasks : u # t => mem'[u] = mem[u]
    BY <1>1 DEF TranscribeStep, ReadVideo, Purge, TryAcquire, WipeTranscript, ListChunks,
       WipeQuiz, WipeChunks, WipeTexts, Transcribe, SaveTranscript
  <2>8. \A c \in ChunkIds : quiz'[c] \subseteq quiz[c]
    <3>1. quiz' = quiz \/ quiz' = [c \in ChunkIds |-> {}]
      BY <1>1 DEF TranscribeStep, ReadVideo, Purge, TryAcquire, WipeTranscript, ListChunks,
         WipeQuiz, WipeChunks, DeletesChunks, WipeTexts, Transcribe, SaveTranscript
    <3> QED
      BY <1>q, <3>1
  <2>9. \E s \in Steps \ {"idle"} : at' = [at EXCEPT ![t] = s] /\ s \notin Filling
    BY <2>1, <2>2 DEF Steps, Filling
  <2> QED
    BY <1>0, <2>3, <2>4, <2>5, <2>6, <2>7, <2>8, <2>9 DEF StepOf, Over
<1>2. CASE ChunkStep(t)
  <2>1. \E s \in {"fail", "propose", "swap", "drop_texts", "save_texts", AfterChunk(t)} :
          at' = [at EXCEPT ![t] = s]
    BY <1>2 DEF ChunkStep, LoadTranscript, Propose, DropTexts, SaveTexts, SwapChunks
  <2>2. AfterChunk(t) \in {"chunked", "succeed"}
    BY DEF AfterChunk
  <2>3. at[t] \notin Filling \union Over
    BY <1>2 DEF ChunkStep, LoadTranscript, Propose, DropTexts, SaveTexts, SwapChunks,
       Filling, Over
  <2>4. UNCHANGED <<row, runs, cancelled, crashes>>
    BY <1>2 DEF ChunkStep, LoadTranscript, Propose, DropTexts, SaveTexts, SwapChunks
  <2>5. CallOk(t) \/ CallFails(t) \/ Works \/ Breaks
    BY <1>2 DEF ChunkStep, LoadTranscript, Propose, DropTexts, SaveTexts, SwapChunks,
       DeleteTexts, Works
  <2>6. \A u \in Tasks : u # t => mem'[u] = mem[u]
    BY <1>2 DEF ChunkStep, LoadTranscript, Propose, DropTexts, SaveTexts, SwapChunks
  <2>7. \A c \in ChunkIds : quiz'[c] \subseteq quiz[c]
    <3>1. quiz' = quiz \/ quiz' = [c \in ChunkIds |-> {}]
      BY <1>2 DEF ChunkStep, LoadTranscript, Propose, DropTexts, SaveTexts, SwapChunks
    <3> QED
      BY <1>q, <3>1
  <2>8. \E s \in Steps \ {"idle"} : at' = [at EXCEPT ![t] = s] /\ s \notin Filling
    BY <2>1, <2>2 DEF Steps, Filling
  <2> QED
    BY <1>0, <2>3, <2>4, <2>5, <2>6, <2>7, <2>8 DEF StepOf, Over
<1>3. CASE GenerateStep(t)
  <2>1. \E s \in {"fail", "succeed", "known", "next", "ask", "keep"} :
          /\ at' = [at EXCEPT ![t] = s]
          /\ at[t] \in Filling \union Over => s # "known"
    <3>1. at = [at EXCEPT ![t] = at[t]]
      OBVIOUS
    <3> QED
      BY <1>3, <3>1 DEF GenerateStep, LoadTargets, LoadKnown, NextChunk, Generate,
         SaveInteractions, Generated, Filling, Over
  <2>2. at[t] # "idle"
    BY <1>3 DEF GenerateStep, LoadTargets, LoadKnown, NextChunk, Generate,
       SaveInteractions, Generated
  <2>3. UNCHANGED <<row, runs, cancelled, crashes>>
    BY <1>3 DEF GenerateStep, LoadTargets, LoadKnown, NextChunk, Generate,
       SaveInteractions, Generated
  <2>4. CallOk(t) \/ CallFails(t) \/ Works \/ Breaks
    BY <1>3 DEF GenerateStep, LoadTargets, LoadKnown, NextChunk, Generate,
       SaveInteractions, Generated, Works
  <2>5. \A u \in Tasks : u # t => mem'[u] = mem[u]
    BY <1>3 DEF GenerateStep, LoadTargets, LoadKnown, NextChunk, Generate,
       SaveInteractions, Generated, Done
  <2>6. ~SaveInteractions(t) => \A c \in ChunkIds : quiz'[c] \subseteq quiz[c]
    BY <1>3 DEF GenerateStep, LoadTargets, LoadKnown, NextChunk, Generate, Generated
  <2>7. \E s \in Steps \ {"idle"} :
          /\ at' = [at EXCEPT ![t] = s]
          /\ at[t] \in Filling \union Over => s \in Filling \union Over
    BY <2>1 DEF Steps, Filling, Over
  <2> QED
    BY <1>0, <1>3, <2>2, <2>3, <2>4, <2>5, <2>6, <2>7 DEF StepOf
<1>4. CASE CheckpointStep(t)
  <2>1. \E s \in {"load", "targets"} : at' = [at EXCEPT ![t] = s]
    BY <1>4 DEF CheckpointStep, Checkpoint
  <2>2. at[t] \notin Filling \union Over /\ UNCHANGED <<row, runs, cancelled, crashes, quiz>>
    BY <1>4 DEF CheckpointStep, Checkpoint, Filling, Over
  <2>3. CallOk(t) \/ CallFails(t)
    BY <1>4 DEF CheckpointStep, Checkpoint
  <2>4. \A u \in Tasks : u # t => mem'[u] = mem[u]
    BY <1>4 DEF CheckpointStep, Checkpoint
  <2>5. \E s \in Steps \ {"idle"} : at' = [at EXCEPT ![t] = s] /\ s \notin Filling
    BY <2>1 DEF Steps, Filling
  <2> QED
    BY <1>0, <2>2, <2>3, <2>4, <2>5 DEF StepOf, Over
<1> QED
  BY <1>1, <1>2, <1>3, <1>4 DEF ExecutorStep

\* What an edit does to the queue and to the goroutines.
LEMMA EditSteps_Frame ==
    ASSUME Typed, EditStep
    PROVE  /\ UNCHANGED <<runVars, crashes, faults>>
           /\ \A u \in Tasks : row'[u] = row[u] \/ (row[u] # "absent" /\ row'[u] = "deleted")
           /\ \A c \in ChunkIds : quiz'[c] \subseteq quiz[c]
<1>1. UNCHANGED <<runVars, crashes, faults>>
  BY DEF EditStep, BeginEdit, ResetQuiz, ResetChunks, ResetTasks, ResetVideo, UploadVideo,
     CleanTranscript, CleanTexts, countVars
<1>2. row' = row \/ row' = AllRowsDeleted
  BY DEF EditStep, BeginEdit, ResetQuiz, ResetChunks, ResetTasks, ResetVideo, UploadVideo,
     CleanTranscript, CleanTexts, rowVars
<1>3. quiz' = quiz \/ quiz' = [c \in ChunkIds |-> {}]
  BY DEF EditStep, BeginEdit, ResetQuiz, ResetChunks, ResetTasks, ResetVideo, UploadVideo,
     CleanTranscript, CleanTexts, DeletesChunks, lessonVars
<1>4. \A u \in Tasks : row'[u] = row[u] \/ (row[u] # "absent" /\ row'[u] = "deleted")
  BY <1>2 DEF AllRowsDeleted, Rows
<1>5. \A c \in ChunkIds : quiz'[c] \subseteq quiz[c]
  BY <1>3
<1> QED
  BY <1>1, <1>4, <1>5

\* Every step keeps that a second run was paid for by a crash or a failing call.
LEMMA SecondRunKept ==
    ASSUME Typed, SecondRunHasFault, CancelledLostRow, [Next]_vars
    PROVE  SecondRunHasFault' /\ CancelledLostRow'
<1>t. /\ row \in [Tasks -> Rowed] /\ at \in [Tasks -> Steps] /\ runs \in [Tasks -> 0..MaxRuns]
      /\ cancelled \in [Tasks -> BOOLEAN]
      /\ crashes \in Nat /\ faults \in Nat
      /\ \A t \in Tasks : row[t] \in {"absent", "inqueued"} => at[t] = "idle"
  BY ContentAssumption DEF Typed, RowTypes, RunTypes, Counted, Claimed
<1> USE <1>t DEF SecondRunHasFault, CancelledLostRow, Active
<1>1. ASSUME NEW k \in Started, NEW f \in BOOLEAN, StartLessonTask(k, f)
      PROVE  SecondRunHasFault' /\ CancelledLostRow'
  <2>1. PICK t \in Tasks : /\ kind[t] = "none" /\ row' = [row EXCEPT ![t] = "inqueued"]
                           /\ UNCHANGED <<runVars, countVars>>
    BY <1>1 DEF StartLessonTask
  <2>2. row[t] = "absent"
    BY <2>1 DEF Typed, Claimed
  <2> QED
    BY <2>1, <2>2 DEF runVars, countVars
<1>2. ASSUME NEW t \in Tasks, CancelLessonTask(t)
      PROVE  SecondRunHasFault' /\ CancelledLostRow'
  BY <1>2 DEF CancelLessonTask, runVars, countVars
<1>3. ASSUME NEW t \in Tasks, Claim(t)
      PROVE  SecondRunHasFault' /\ CancelledLostRow'
  <2>1. /\ row[t] = "inqueued" /\ row' = [row EXCEPT ![t] = "processing"]
        /\ runs' = [runs EXCEPT ![t] = @ + 1]
        /\ at' = [at EXCEPT ![t] = FirstStep(t)]
        /\ UNCHANGED <<cancelled, crashes, faults>>
    BY <1>3 DEF Claim, countVars
  <2>2. FirstStep(t) # "idle"
    <3>1. kind[t] \in Kinds
      BY <1>3 DEF Claim, Typed, Claimed, RowTypes
    <3>2. kind[t] = "pipeline_run" =>
            <<"video", "load", "targets">>[saved[t] + 1] \in {"video", "load", "targets"}
      BY DEF Typed, RowTypes
    <3> QED
      BY <3>1, <3>2 DEF FirstStep, Kinds
  <2> QED
    BY <2>1, <2>2
<1>4. ASSUME NEW t \in Tasks, Lose(t)
      PROVE  SecondRunHasFault' /\ CancelledLostRow'
  BY <1>4 DEF Lose, rowVars, countVars
<1>5. ASSUME NEW t \in Tasks, Reap(t)
      PROVE  SecondRunHasFault' /\ CancelledLostRow'
  BY <1>5 DEF Reap, runVars, countVars
<1>6. CASE Crash
  BY <1>6 DEF Crash, rowVars
<1>7. ASSUME NEW t \in Tasks, StepOf(t)
      PROVE  SecondRunHasFault' /\ CancelledLostRow'
  <2>1. PICK s \in Steps \ {"idle"} : at' = [at EXCEPT ![t] = s]
    BY <1>7 DEF StepOf
  <2>2. \A u \in Tasks : (at'[u] = "idle") <=> (at[u] = "idle")
    BY <1>7, <2>1 DEF StepOf
  <2>3. /\ UNCHANGED <<runs, cancelled, crashes>> /\ faults' \in Nat /\ faults' >= faults
        /\ \A u \in Tasks : row'[u] = row[u] \/ (row[u] # "absent" /\ row'[u] = "deleted")
    BY <1>7 DEF StepOf
  <2>4. SecondRunHasFault'
    BY <2>2, <2>3
  <2>5. CancelledLostRow'
    BY <2>2, <2>3
  <2> QED
    BY <2>4, <2>5
<1>8. ASSUME NEW t \in Tasks, Finish(t)
      PROVE  SecondRunHasFault' /\ CancelledLostRow'
  <2>1. /\ at[t] # "idle"
        /\ at' = [at EXCEPT ![t] = "idle"] /\ cancelled' = [cancelled EXCEPT ![t] = FALSE]
        /\ UNCHANGED <<runs, crashes>>
    BY <1>8 DEF Finish, Goto
  <2>2. \/ /\ faults' = faults
           /\ \E s \in {row[t], "succeeded", "failed"} :
                 /\ row[t] = "processing" => s # row[t]
                 /\ row' = [row EXCEPT ![t] = s]
        \/ cancelled[t] /\ row' = row /\ faults' = faults
        \/ row' = row /\ faults' = faults + 1
    <3>1. row = [row EXCEPT ![t] = row[t]]
      OBVIOUS
    <3> QED
      BY <1>8, <3>1 DEF Finish, CallOk, CallFails, Works, Breaks
  <2>3. \A u \in Tasks : u # t => /\ at'[u] = at[u] /\ cancelled'[u] = cancelled[u]
                                  /\ row'[u] = row[u]
    BY <2>1, <2>2
  <2>4. /\ at'[t] = "idle" /\ ~cancelled'[t]
        /\ row'[t] = "processing" => crashes' + faults' >= 1
        /\ row'[t] \notin {"absent", "inqueued"}
    <3>1. at'[t] = "idle" /\ ~cancelled'[t]
      BY <2>1
    <3>2. row[t] \notin {"absent", "inqueued"}
      BY <2>1
    <3>3. row'[t] \in {row[t], "succeeded", "failed"}
      BY <2>2
    <3>4. row'[t] = "processing" => crashes' + faults' >= 1
      <4>1. CASE row' = row /\ faults' = faults + 1
        BY <2>1, <4>1
      <4>2. CASE cancelled[t] /\ row' = row
        BY <4>2
      <4> QED
        BY <2>2, <4>1, <4>2
    <3> QED
      BY <3>1, <3>2, <3>3, <3>4
  <2>5. faults' \in Nat /\ faults' >= faults
    BY <2>2
  <2>6. SecondRunHasFault'
    <3>1. runs' = runs /\ (crashes + faults >= 1 => crashes' + faults' >= 1)
      <4>1. runs' = runs /\ crashes' = crashes
        BY <2>1
      <4>2. \A m, n, k \in Nat : n >= m /\ k + m >= 1 => k + n >= 1
        OBVIOUS
      <4> QED
        BY <4>1, <4>2, <2>5
    <3> QED
      BY <2>3, <2>4, <3>1
  <2>7. CancelledLostRow'
    BY <2>3, <2>4
  <2> QED
    BY <2>6, <2>7
<1>9. CASE EditStep
  BY <1>9, EditSteps_Frame DEF runVars
<1>10. CASE UNCHANGED vars
  BY <1>10 DEF vars, rowVars, runVars, countVars
<1> QED
  BY <1>1, <1>2, <1>3, <1>4, <1>5, <1>6, <1>7, <1>8, <1>9, <1>10, ExecutorSteps
     DEF Next, QueueStep, ExecutorStep

\* What every step but those of StepOf does: batches are only deleted, and a goroutine
\* begins a new run, ends, or stays as it is.
OtherStep == QueueStep \/ EditStep \/ UNCHANGED vars \/ \E t \in Tasks : Finish(t)

Elsewhere ==
    /\ \A c \in ChunkIds : quiz'[c] \subseteq quiz[c]
    /\ \A u \in Tasks :
          /\ runs'[u] \in Nat /\ runs'[u] >= runs[u]
          /\ at'[u] \in Over \/ at'[u] = at[u]
             \/ (runs'[u] = runs[u] + 1 /\ at'[u] \notin Filling)
          /\ at'[u] \in Filling => mem'[u] = mem[u] /\ at'[u] = at[u]
                                   /\ (cancelled[u] => cancelled'[u])

\* The queue, the editors and a return are elsewhere for every generation.
LEMMA OtherSteps ==
    ASSUME Typed, OtherStep
    PROVE  Elsewhere
<1>t. /\ at \in [Tasks -> Steps] /\ runs \in [Tasks -> 0..MaxRuns]
      /\ cancelled \in [Tasks -> BOOLEAN] /\ mem \in [Tasks -> Mems]
      /\ \A u \in Tasks : runs[u] \in Nat
  BY ContentAssumption DEF Typed, RunTypes
<1> USE <1>t DEF Elsewhere
<1>0. ASSUME quiz' = quiz \/ quiz' = [c \in ChunkIds |-> {}], UNCHANGED <<runs, at, mem>>,
             \A u \in Tasks : cancelled[u] => cancelled'[u]
      PROVE  Elsewhere
  BY <1>0
<1>1. ASSUME NEW k \in Started, NEW f \in BOOLEAN, StartLessonTask(k, f)
      PROVE  Elsewhere
  BY <1>0, <1>1 DEF StartLessonTask, runVars, lessonVars
<1>2. ASSUME NEW t \in Tasks, CancelLessonTask(t) \/ Reap(t)
      PROVE  Elsewhere
  BY <1>0, <1>2 DEF CancelLessonTask, Reap, runVars, lessonVars
<1>3. ASSUME NEW t \in Tasks, Claim(t)
      PROVE  Elsewhere
  <2>1. /\ runs' = [runs EXCEPT ![t] = @ + 1] /\ at' = [at EXCEPT ![t] = FirstStep(t)]
        /\ mem' = [mem EXCEPT ![t].force = GenForce(t)]
        /\ UNCHANGED <<cancelled, quiz>>
    BY <1>3 DEF Claim, lessonVars
  <2>2. FirstStep(t) \notin Filling
    <3>1. kind[t] \in Kinds
      BY <1>3 DEF Claim, Typed, Claimed, RowTypes
    <3>2. kind[t] = "pipeline_run" =>
            <<"video", "load", "targets">>[saved[t] + 1] \in {"video", "load", "targets"}
      BY DEF Typed, RowTypes
    <3> QED
      BY <3>1, <3>2 DEF FirstStep, Kinds, Filling
  <2>3. /\ runs'[t] = runs[t] + 1 /\ at'[t] = FirstStep(t)
        /\ \A u \in Tasks : u # t => runs'[u] = runs[u] /\ at'[u] = at[u] /\ mem'[u] = mem[u]
    BY <2>1
  <2> QED
    BY <2>1, <2>2, <2>3
<1>4. ASSUME NEW t \in Tasks, Lose(t)
      PROVE  Elsewhere
  BY <1>0, <1>4 DEF Lose, lessonVars
<1>5. CASE Crash
  BY <1>5 DEF Crash, lessonVars, Over, Filling
<1>6. ASSUME NEW t \in Tasks, Finish(t)
      PROVE  Elsewhere
  <2>1. /\ at' = [at EXCEPT ![t] = "idle"] /\ mem' = [mem EXCEPT ![t] = NoMem]
        /\ cancelled' = [cancelled EXCEPT ![t] = FALSE]
        /\ UNCHANGED <<runs, quiz>>
    BY <1>6 DEF Finish, Goto, lessonVars
  <2>2. /\ at'[t] = "idle"
        /\ \A u \in Tasks : u # t => /\ at'[u] = at[u] /\ mem'[u] = mem[u]
                                     /\ cancelled'[u] = cancelled[u]
    BY <2>1
  <2> QED
    BY <2>1, <2>2 DEF Over, Filling
<1>7. CASE EditStep
  BY <1>7, EditSteps_Frame DEF runVars
<1>8. CASE UNCHANGED vars
  BY <1>0, <1>8 DEF vars, runVars, lessonVars
<1> QED
  BY <1>1, <1>2, <1>3, <1>4, <1>5, <1>6, <1>7, <1>8 DEF OtherStep, QueueStep

\* What happens elsewhere keeps the statements about every generation.
LEMMA ElsewhereKeeps ==
    ASSUME Resumable, Elsewhere
    PROVE  BatchesArePast' /\ FillsTheEmpty' /\ AsksUnknown' /\ NoResumeDuplicates'
<1>t. /\ quiz \in [ChunkIds -> SUBSET Batches] /\ \A u \in Tasks : runs[u] \in Nat
      /\ \A b \in Batches : b[1] \in Tasks /\ b[2] \in Nat
  BY ContentAssumption DEF Resumable, Typed, LessonTypes, RunTypes, Batches
<1>1. BatchesArePast'
  <2>1. SUFFICES ASSUME NEW c \in ChunkIds, NEW b \in quiz'[c]
                 PROVE  /\ b[2] <= runs'[b[1]]
                        /\ at'[b[1]] \notin Filling \union Over => b[2] < runs'[b[1]]
    BY DEF BatchesArePast
  <2>2. /\ b \in quiz[c] /\ b[1] \in Tasks /\ b[2] \in Nat
    BY <1>t, <2>1 DEF Elsewhere
  <2>3. /\ b[2] <= runs[b[1]]
        /\ at[b[1]] \notin Filling \union Over => b[2] < runs[b[1]]
    BY <2>2 DEF Resumable, BatchesArePast
  <2>4. /\ runs[b[1]] \in Nat /\ runs'[b[1]] \in Nat /\ runs'[b[1]] >= runs[b[1]]
        /\ at'[b[1]] \in Over \/ at'[b[1]] = at[b[1]] \/ runs'[b[1]] = runs[b[1]] + 1
    BY <1>t, <2>2 DEF Elsewhere
  <2> QED
    BY <2>2, <2>3, <2>4
<1>2. FillsTheEmpty'
  <2>1. SUFFICES ASSUME NEW u \in Tasks, at'[u] \in Filling, ~mem'[u].force, ~cancelled'[u],
                        NEW c \in mem'[u].chunks \ mem'[u].known, c \in ChunkIds,
                        NEW b \in quiz'[c]
                 PROVE  b[1] # u
    <3>1. \A u \in Tasks : at'[u] \in Filling => mem'[u].chunks \subseteq ChunkIds
      BY DEF Elsewhere, Resumable, Typed, RunTypes, Mems
    <3> QED
      BY <3>1 DEF FillsTheEmpty
  <2> QED
    BY <2>1 DEF Elsewhere, Resumable, FillsTheEmpty
<1>3. AsksUnknown'
  BY DEF Elsewhere, Resumable, AsksUnknown, Filling
<1>4. NoResumeDuplicates'
  BY DEF Elsewhere, Resumable, NoResumeDuplicates
<1> QED
  BY <1>1, <1>2, <1>3, <1>4

\* A step of a goroutine that saves no batch, seen by everyone else.
LEMMA OthersBatches ==
    ASSUME Resumable, NEW t \in Tasks, StepOf(t), ~SaveInteractions(t)
    PROVE  /\ BatchesArePast' /\ NoResumeDuplicates'
           /\ \A u \in Tasks \ {t} :
                 /\ at'[u] \in Filling /\ ~mem'[u].force /\ ~cancelled'[u] =>
                      \A c \in mem'[u].chunks \ mem'[u].known : \A b \in quiz'[c] : b[1] # u
                 /\ at'[u] \in {"ask", "keep"} =>
                      /\ mem'[u].chunks # {}
                      /\ \A c \in mem'[u].chunks :
                           (\A d \in mem'[u].chunks : c <= d) => c \notin mem'[u].known
<1>t. /\ quiz \in [ChunkIds -> SUBSET Batches] /\ at \in [Tasks -> Steps]
      /\ \A b \in Batches : b[1] \in Tasks /\ b[2] \in Nat
      /\ \A u \in Tasks : mem[u].chunks \subseteq ChunkIds
  BY ContentAssumption DEF Resumable, Typed, LessonTypes, RunTypes, Batches, Mems
<1>1. PICK s \in Steps \ {"idle"} :
        /\ at' = [at EXCEPT ![t] = s]
        /\ at[t] \in Filling \union Over => s \in Filling \union Over
  BY DEF StepOf
<1>2. /\ \A u \in Tasks : at[u] \in Filling \union Over => at'[u] \in Filling \union Over
      /\ \A u \in Tasks \ {t} : at'[u] = at[u] /\ mem'[u] = mem[u]
      /\ UNCHANGED <<runs, cancelled>> /\ \A c \in ChunkIds : quiz'[c] \subseteq quiz[c]
  BY <1>t, <1>1 DEF StepOf
<1>3. BatchesArePast'
  <2>1. \A c \in ChunkIds : \A b \in quiz'[c] : b \in quiz[c] /\ b[1] \in Tasks
    BY <1>t, <1>2
  <2> QED
    BY <1>2, <2>1 DEF Resumable, BatchesArePast
<1>4. NoResumeDuplicates'
  BY <1>2 DEF Resumable, NoResumeDuplicates
<1>5. ASSUME NEW u \in Tasks \ {t}
      PROVE  /\ at'[u] \in Filling /\ ~mem'[u].force /\ ~cancelled'[u] =>
                  \A c \in mem'[u].chunks \ mem'[u].known : \A b \in quiz'[c] : b[1] # u
             /\ at'[u] \in {"ask", "keep"} =>
                  /\ mem'[u].chunks # {}
                  /\ \A c \in mem'[u].chunks :
                       (\A d \in mem'[u].chunks : c <= d) => c \notin mem'[u].known
  BY <1>t, <1>2 DEF Resumable, FillsTheEmpty, AsksUnknown
<1> QED
  BY <1>3, <1>4, <1>5

\* What FillsTheEmpty and AsksUnknown say of one task.
FillsEmpty(u) ==
    at[u] \in Filling /\ ~mem[u].force /\ ~cancelled[u] =>
        \A c \in mem[u].chunks \ mem[u].known : \A b \in quiz[c] : b[1] # u

AsksOnlyUnknown(u) ==
    at[u] \in {"ask", "keep"} =>
        /\ mem[u].chunks # {}
        /\ \A c \in mem[u].chunks :
              (\A d \in mem[u].chunks : c <= d) => c \notin mem[u].known

\* chunkHasInteractions: the chunks it finds filled are not filled again; when it
\* cannot be read, the run is the first one and nothing is filled by it.
LEMMA KnownIsFilled ==
    ASSUME Resumable, FewFaults, NEW t \in Tasks, LoadKnown(t)
    PROVE  FillsEmpty(t)' /\ AsksOnlyUnknown(t)'
<1>t. /\ quiz \in [ChunkIds -> SUBSET Batches] /\ at \in [Tasks -> Steps]
      /\ mem \in [Tasks -> Mems]
      /\ \A b \in Batches : b[1] \in Tasks /\ b[2] \in Nat /\ b[2] >= 1
      /\ mem[t].chunks \subseteq ChunkIds /\ runs[t] \in Nat
      /\ crashes \in 0..MaxCrashes /\ faults \in 0..MaxFaults
  BY ContentAssumption DEF Resumable, Typed, LessonTypes, RunTypes, Batches, Mems, Counted
<1>1. /\ at'[t] = "next" /\ UNCHANGED <<quiz, cancelled>>
  BY <1>t DEF LoadKnown, Goto, lessonVars
<1>2. CASE mem' = [mem EXCEPT ![t].known = {c \in ChunkIds : quiz[c] # {}}]
  <2>1. /\ mem'[t].known = {c \in ChunkIds : quiz[c] # {}}
        /\ mem'[t].chunks = mem[t].chunks
    BY <1>2, <1>t DEF Mems
  <2>2. \A c \in mem'[t].chunks \ mem'[t].known : quiz'[c] = {}
    BY <1>1, <1>t, <2>1
  <2> QED
    BY <1>1, <2>2 DEF FillsEmpty, AsksOnlyUnknown
<1>3. CASE CallFails(t) /\ mem' = mem
  <2>1. CASE cancelled[t]
    BY <1>1, <2>1 DEF FillsEmpty, AsksOnlyUnknown
  <2>2. CASE ~cancelled[t]
    <3>1. crashes = 0 /\ faults = 0
      BY <1>3, <1>t, <2>2, ContentAssumption DEF CallFails, Breaks, FewFaults
    <3>2. runs[t] < 2
      BY <1>t, <3>1 DEF Resumable, SecondRunHasFault
    <3>3. at[t] \notin Filling \union Over
      BY DEF LoadKnown, Filling, Over
    <3>4. \A c \in ChunkIds : \A b \in quiz[c] : b[1] # t
      BY <1>t, <3>2, <3>3 DEF Resumable, BatchesArePast
    <3> QED
      BY <1>1, <1>3, <1>t, <3>4 DEF FillsEmpty, AsksOnlyUnknown
  <2> QED
    BY <2>1, <2>2
<1> QED
  BY <1>2, <1>3 DEF LoadKnown

\* The chunk that is done with leaves what a task may still fill.
LEMMA DoneShrinks ==
    ASSUME Typed, NEW t \in Tasks
    PROVE  /\ Done(t)[t].chunks = mem[t].chunks \ {CurrentChunk(t)}
           /\ Done(t)[t].known = mem[t].known
           /\ Done(t)[t].force = mem[t].force
           /\ \A u \in Tasks : u # t => Done(t)[u] = mem[u]
<1>1. mem \in [Tasks -> Mems] /\ mem[t] \in Mems
  BY DEF Typed, RunTypes
<1> QED
  BY <1>1 DEF Done, Mems

\* A step of a generation that saves nothing keeps the statements about it.
LEMMA OwnGeneration ==
    ASSUME Resumable, FewFaults, NEW t \in Tasks, GenerateStep(t), ~SaveInteractions(t)
    PROVE  FillsEmpty(t)' /\ AsksOnlyUnknown(t)'
<1>t. /\ at \in [Tasks -> Steps] /\ mem \in [Tasks -> Mems] /\ mem[t] \in Mems /\ Typed
      /\ mem[t].chunks \subseteq ChunkIds
      /\ ChunkIds \subseteq Nat
  BY ContentAssumption DEF Resumable, Typed, RunTypes, Mems, ChunkIds
<1>0. FillsEmpty(t) /\ AsksOnlyUnknown(t)
  BY DEF Resumable, FillsTheEmpty, AsksUnknown, FillsEmpty, AsksOnlyUnknown
<1>1. CASE LoadTargets(t)
  <2>1. at'[t] \in {"fail", "known"} \/ (at'[t] = "next" /\ mem[t].force
                                          /\ mem' = [mem EXCEPT ![t].chunks = Chunks])
    BY <1>1, <1>t DEF LoadTargets, Goto
  <2>2. mem' = [mem EXCEPT ![t].chunks = Chunks] => mem'[t].force = mem[t].force
    BY <1>t DEF Mems
  <2> QED
    BY <2>1, <2>2 DEF FillsEmpty, AsksOnlyUnknown, Filling
<1>2. CASE LoadKnown(t)
  BY <1>2, KnownIsFilled
<1>3. CASE NextChunk(t)
  <2>1. UNCHANGED <<quiz, cancelled>> /\ at[t] = "next" /\ mem[t].chunks # {}
    BY <1>3 DEF NextChunk, lessonVars
  <2>2. \/ at'[t] = "succeed"
        \/ at'[t] = "next" /\ mem' = Done(t)
        \/ at'[t] = "ask" /\ mem' = mem /\ CurrentChunk(t) \notin mem[t].known
    BY <1>3, <1>t DEF NextChunk, Goto
  <2>3. CASE at'[t] = "succeed"
    BY <2>3 DEF FillsEmpty, AsksOnlyUnknown, Filling
  <2>4. CASE at'[t] = "next" /\ mem' = Done(t)
    BY <1>0, <1>t, <2>1, <2>4, DoneShrinks DEF FillsEmpty, AsksOnlyUnknown, Filling
  <2>5. CASE at'[t] = "ask" /\ mem' = mem /\ CurrentChunk(t) \notin mem[t].known
    <3>1. \A c \in mem[t].chunks : (\A d \in mem[t].chunks : c <= d) => c = CurrentChunk(t)
      <4>1. /\ CurrentChunk(t) \in mem[t].chunks
            /\ \A d \in mem[t].chunks : CurrentChunk(t) <= d
        BY <1>t, <2>1, CurrentIsLeast
      <4>2. ASSUME NEW c \in mem[t].chunks, \A d \in mem[t].chunks : c <= d
            PROVE  c = CurrentChunk(t)
        <5>1. c <= CurrentChunk(t) /\ CurrentChunk(t) <= c
          BY <4>1, <4>2
        <5>2. c \in Nat /\ CurrentChunk(t) \in Nat
          BY <1>t, <4>1
        <5> QED
          BY <5>1, <5>2
      <4> QED
        BY <4>2
    <3> QED
      BY <1>0, <2>1, <2>5, <3>1 DEF FillsEmpty, AsksOnlyUnknown, Filling
  <2> QED
    BY <2>2, <2>3, <2>4, <2>5
<1>4. CASE Generate(t)
  <2>1. UNCHANGED <<quiz, cancelled>> /\ at[t] = "ask"
    BY <1>4 DEF Generate, lessonVars
  <2>2. \/ at'[t] = "succeed"
        \/ at'[t] = "keep" /\ mem' = mem
        \/ at'[t] = "next" /\ mem' = Done(t)
        \/ at'[t] = "next" /\ mem' = [Done(t) EXCEPT ![t].failed = TRUE]
    BY <1>4, <1>t DEF Generate, Goto
  <2>3. CASE at'[t] = "succeed"
    BY <2>3 DEF FillsEmpty, AsksOnlyUnknown, Filling
  <2>4. CASE at'[t] = "keep" /\ mem' = mem
    BY <1>0, <2>1, <2>4 DEF FillsEmpty, AsksOnlyUnknown, Filling
  <2>5. CASE at'[t] = "next" /\ (mem' = Done(t) \/ mem' = [Done(t) EXCEPT ![t].failed = TRUE])
    <3>1. Done(t) \in [Tasks -> Mems] /\ Done(t)[t] \in Mems
      BY <1>t, MemWrites
    <3>2. /\ mem'[t].chunks = Done(t)[t].chunks /\ mem'[t].known = Done(t)[t].known
          /\ mem'[t].force = Done(t)[t].force
      BY <2>5, <3>1 DEF Mems
    <3> QED
      BY <1>0, <1>t, <2>1, <2>5, <3>2, DoneShrinks DEF FillsEmpty, AsksOnlyUnknown, Filling
  <2> QED
    BY <2>2, <2>3, <2>4, <2>5
<1>5. CASE Generated(t)
  BY <1>5, <1>t DEF Generated, Goto, FillsEmpty, AsksOnlyUnknown, Filling
<1> QED
  BY <1>1, <1>2, <1>3, <1>4, <1>5 DEF GenerateStep

\* saveInteractionsForChunk, which fills a chunk without a batch of its task or
\* replaces what the chunk has.
LEMMA SaveKeeps ==
    ASSUME Resumable, NEW t \in Tasks, SaveInteractions(t)
    PROVE  BatchesArePast' /\ FillsTheEmpty' /\ AsksUnknown' /\ NoResumeDuplicates'
<1>t. /\ quiz \in [ChunkIds -> SUBSET Batches] /\ at \in [Tasks -> Steps]
      /\ mem \in [Tasks -> Mems] /\ mem[t] \in Mems /\ Typed
      /\ \A b \in Batches : b[1] \in Tasks /\ b[2] \in Nat
      /\ \A u \in Tasks : mem[u].chunks \subseteq ChunkIds /\ runs[u] \in Nat
  BY ContentAssumption DEF Resumable, Typed, LessonTypes, RunTypes, Batches, Mems
<1> DEFINE c0 == CurrentChunk(t)
           batch == <<t, runs[t]>>
<1>1. /\ at[t] = "keep" /\ UNCHANGED <<runs, cancelled>>
      /\ at'[t] \in {"next", "succeed"}
      /\ \A u \in Tasks : u # t => at'[u] = at[u]
  BY <1>t DEF SaveInteractions, Goto
<1>2. mem[t].chunks # {} /\ c0 \in mem[t].chunks /\ c0 \in ChunkIds
      /\ c0 \notin mem[t].known
  <2>1. mem[t].chunks # {}
    BY <1>1 DEF Resumable, AsksUnknown
  <2>2. c0 \in mem[t].chunks /\ \A d \in mem[t].chunks : c0 <= d
    BY <1>t, <2>1, CurrentIsLeast
  <2> QED
    BY <1>1, <1>t, <2>1, <2>2 DEF Resumable, AsksUnknown
<1>3. /\ mem'[t].chunks = mem[t].chunks \ {c0} /\ mem'[t].known = mem[t].known
      /\ mem'[t].force = mem[t].force
      /\ \A u \in Tasks : u # t => mem'[u] = mem[u]
  <2>1. mem' = Done(t) \/ mem' = [Done(t) EXCEPT ![t].kept = TRUE]
    BY DEF SaveInteractions
  <2>2. Done(t) \in [Tasks -> Mems] /\ Done(t)[t] \in Mems
    BY <1>t, MemWrites
  <2>3. /\ mem'[t].chunks = Done(t)[t].chunks /\ mem'[t].known = Done(t)[t].known
        /\ mem'[t].force = Done(t)[t].force
        /\ \A u \in Tasks : u # t => mem'[u] = Done(t)[u]
    BY <2>1, <2>2 DEF Mems
  <2> QED
    BY <1>t, <2>3, DoneShrinks
<1>4. /\ \A c \in ChunkIds : c # c0 => quiz'[c] = quiz[c]
      /\ \/ quiz'[c0] = quiz[c0]
         \/ quiz'[c0] = {batch}
         \/ ~cancelled[t] /\ ~mem[t].force /\ quiz'[c0] = quiz[c0] \union {batch}
  BY <1>2, <1>t DEF SaveInteractions, CallOk
<1>5. \A c \in ChunkIds : \A b \in quiz'[c] : b \in quiz[c] \/ (c = c0 /\ b = batch)
  BY <1>2, <1>4
<1> HIDE DEF c0
<1>6. BatchesArePast'
  <2>1. SUFFICES ASSUME NEW c \in ChunkIds, NEW b \in quiz'[c]
                 PROVE  /\ b[2] <= runs'[b[1]]
                        /\ at'[b[1]] \notin Filling \union Over => b[2] < runs'[b[1]]
    BY DEF BatchesArePast
  <2>2. CASE b \in quiz[c]
    <3>1. /\ b[1] \in Tasks /\ b[2] <= runs[b[1]]
          /\ at[b[1]] \notin Filling \union Over => b[2] < runs[b[1]]
      BY <1>t, <2>2 DEF Resumable, BatchesArePast
    <3> QED
      BY <1>1, <3>1 DEF Filling, Over
  <2>3. CASE b = batch
    BY <1>1, <1>t, <2>3 DEF Filling, Over
  <2> QED
    BY <1>5, <2>1, <2>2, <2>3
<1>7. FillsTheEmpty'
  <2>1. SUFFICES ASSUME NEW u \in Tasks, at'[u] \in Filling, ~mem'[u].force, ~cancelled'[u],
                        NEW c \in mem'[u].chunks \ mem'[u].known, NEW b \in quiz'[c]
                 PROVE  b[1] # u
    BY DEF FillsTheEmpty
  <2>2. c \in ChunkIds
    BY <1>3, <1>t, <2>1
  <2>3. CASE u = t
    <3>1. c # c0 /\ c \in mem[t].chunks \ mem[t].known /\ b \in quiz[c]
      BY <1>3, <1>5, <2>2, <2>3
    <3> QED
      BY <1>1, <1>3, <2>1, <2>3, <3>1 DEF Resumable, FillsTheEmpty, Filling
  <2>4. CASE u # t
    <3>1. b \in quiz[c] \/ b[1] = t
      BY <1>5, <2>2
    <3> QED
      BY <1>1, <1>3, <2>1, <2>4, <3>1 DEF Resumable, FillsTheEmpty
  <2> QED
    BY <2>3, <2>4
<1>8. AsksUnknown'
  BY <1>1, <1>3 DEF Resumable, AsksUnknown
<1>9. NoResumeDuplicates'
  <2>1. SUFFICES ASSUME NEW c \in ChunkIds, NEW b \in quiz'[c], NEW d \in quiz'[c], b[1] = d[1]
                 PROVE  b = d
    BY DEF NoResumeDuplicates
  <2>2. CASE b \in quiz[c] /\ d \in quiz[c]
    BY <2>1, <2>2 DEF Resumable, NoResumeDuplicates
  <2>3. ASSUME ~cancelled[t], ~mem[t].force, c = c0
        PROVE  \A e \in quiz[c] : e[1] # t
    BY <1>1, <1>2, <2>3 DEF Resumable, FillsTheEmpty, Filling
  <2>4. CASE c = c0 /\ (b = batch \/ d = batch)
    <3>1. CASE quiz'[c0] = quiz[c0]
      BY <2>1, <2>2, <2>4, <3>1
    <3>2. CASE quiz'[c0] = {batch}
      BY <2>1, <2>4, <3>2
    <3>3. CASE ~cancelled[t] /\ ~mem[t].force /\ quiz'[c0] = quiz[c0] \union {batch}
      <4>1. /\ b \in quiz[c] \/ b = batch
            /\ d \in quiz[c] \/ d = batch
            /\ \A e \in quiz[c] : e[1] # t
        BY <2>1, <2>3, <2>4, <3>3
      <4>2. batch[1] = t
        OBVIOUS
      <4> QED
        BY <2>1, <2>2, <4>1, <4>2
    <3> QED
      BY <1>4, <3>1, <3>2, <3>3
  <2> QED
    BY <1>5, <2>1, <2>2, <2>4
<1> QED
  BY <1>6, <1>7, <1>8, <1>9

\* Every step keeps the invariant behind the resume.
LEMMA ResumableKept ==
    ASSUME Resumable, FewFaults, [Next]_vars
    PROVE  Resumable'
<1>1. Typed' /\ SecondRunHasFault' /\ CancelledLostRow'
  BY NextTyped, SecondRunKept DEF Resumable
<1>2. CASE OtherStep
  BY <1>1, <1>2, OtherSteps, ElsewhereKeeps DEF Resumable
<1>3. ASSUME NEW t \in Tasks, ExecutorStep(t), ~Finish(t)
      PROVE  BatchesArePast' /\ FillsTheEmpty' /\ AsksUnknown' /\ NoResumeDuplicates'
  <2>1. CASE SaveInteractions(t)
    BY <2>1, SaveKeeps
  <2>2. CASE ~SaveInteractions(t)
    <3>1. StepOf(t)
      BY <1>3, ExecutorSteps DEF Resumable
    <3>2. FillsEmpty(t)' /\ AsksOnlyUnknown(t)'
      <4>1. CASE GenerateStep(t)
        BY <2>2, <4>1, OwnGeneration
      <4>2. CASE ~GenerateStep(t)
        <5>1. at'[t] \notin Filling
          BY <3>1, <4>2 DEF StepOf, Resumable, Typed, RunTypes
        <5> QED
          BY <5>1 DEF FillsEmpty, AsksOnlyUnknown, Filling
      <4> QED
        BY <4>1, <4>2
    <3>3. /\ BatchesArePast' /\ NoResumeDuplicates'
          /\ \A u \in Tasks \ {t} : FillsEmpty(u)' /\ AsksOnlyUnknown(u)'
      BY <2>2, <3>1, OthersBatches DEF FillsEmpty, AsksOnlyUnknown
    <3> QED
      BY <3>2, <3>3 DEF FillsTheEmpty, AsksUnknown, FillsEmpty, AsksOnlyUnknown
  <2> QED
    BY <2>1, <2>2
<1> QED
  BY <1>1, <1>2, <1>3 DEF Next, OtherStep, Resumable

\* While no call fails, or one does and no process crashes, a task leaves at most one batch in a
\* chunk however often it is claimed: chunkHasInteractions is read before generation
\* begins, a chunk is filled once per run, and where it could not be read the task has
\* no earlier run.
THEOREM ResumeLeavesOneBatch ==
    ASSUME FewFaults
    PROVE  Spec => []NoResumeDuplicates
<1>1. Init => Resumable
  <2> SUFFICES ASSUME Init PROVE Resumable
    OBVIOUS
  <2>1. Typed
    BY InitTyped
  <2>2. SecondRunHasFault /\ CancelledLostRow
    BY DEF Init, SecondRunHasFault, CancelledLostRow, Active
  <2>3. BatchesArePast /\ FillsTheEmpty /\ AsksUnknown /\ NoResumeDuplicates
    BY DEF Init, BatchesArePast, FillsTheEmpty, AsksUnknown, NoResumeDuplicates, Filling
  <2> QED
    BY <2>1, <2>2, <2>3 DEF Resumable
<1>2. Resumable => NoResumeDuplicates
  BY DEF Resumable
<1>3. Resumable /\ [Next]_vars => Resumable'
  BY ResumableKept
<1> QED
  BY <1>1, <1>2, <1>3, PTL DEF Spec

================================================================================
