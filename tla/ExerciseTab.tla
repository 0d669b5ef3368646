----------------------------- MODULE ExerciseTab -----------------------------
(***************************************************************************)
(* The "Bài tập" step of a lesson: TabExercises with its sections, rows,   *)
(* forms and dialogs, and the part of the screen around it that shares the *)
(* list of exercises.  The teacher adds, edits, rewrites and deletes       *)
(* exercises while tasks generate others for one chunk or for the lesson.  *)
(*                                                                         *)
(* A handler, or a continuation after an await, is one action.  A call is  *)
(* served in one step and answered in a later one.  An exercise is its id, *)
(* the chunk it belongs to and whether it was edited; its wording, kind    *)
(* and position are left out.                                              *)
(***************************************************************************)
EXTENDS Naturals, FiniteSets, Sequences, SequencesExt, FiniteSetsExt

CONSTANTS
    Chunks,      \* the chunks of the lesson
    MaxForms,    \* forms the teacher keeps open at once
    MaxRows,     \* exercises ever created
    MaxDeeds,    \* calls the teacher makes, runs started, times the step is left, failures
    MaxLeaves,   \* times the teacher leaves the step
    Overtaking,  \* BOOLEAN: the answer of a read may overtake that of an earlier one
    Lossy,       \* BOOLEAN: one call may fail or lose its answer
    None         \* no chunk

VARIABLES
    rows,    \* the exercises stored
    jobs,    \* the GENERATE_INTERACTIONS tasks of the lesson, oldest first
    page,    \* the analysis screen: its list of exercises and what it knows of tasks
    tab,     \* the state of TabExercises
    old,     \* interactionsRef of the instance that was left
    runs,    \* the async functions handleChunkGenerate has started
    ops,     \* the teacher's calls in flight
    reads,   \* analyses being loaded, in the order asked for
    used     \* what has been spent of the bounds

vars == <<rows, jobs, page, tab, old, runs, ops, reads, used>>

Whole == "lesson"
Ids == 1..MaxRows
Row == [id : Ids, chunk : Chunks \cup {None}, edited : BOOLEAN]

Phase == {"idle", "running", "done", "error"}
OpKind == {"add", "save", "rewrite", "delete", "clear", "config", "start"}
NoRow == [id |-> 0, chunk |-> None, edited |-> FALSE]

\* ListLessonInteractions.
Stored == SetToSortSeq(rows, LAMBDA a, b : a.id < b.id)
Has(list, c) == \E i \in DOMAIN list : list[i].chunk = c

Closed == [on |-> FALSE, phase |-> [c \in Chunks |-> "idle"], panels |-> {}, adding |-> None,
           asking |-> None, dialog |-> FALSE, timers |-> {}]

(***************************************************************************)
(* What the screen enables                                                 *)
(***************************************************************************)

Pending(kind) == {o \in ops : o.op = kind /\ ~o.old}
Deleting == Pending("clear") # {}
AddSaving == Pending("add") # {}

\* chunkGenerateBusy of the page: per-chunk generations do not count.
ChunkGenerateBusy == page.whole = "running" \/ \E j \in page.listed : jobs[j].key = Whole

\* disabled (isBusy of the page) and isActuallyBusy.
ActuallyBusy ==
    \/ page.whole = "running" \/ page.listed # {} \/ Deleting
    \/ \E c \in Chunks : tab.phase[c] = "running"

AddingDisabled == ChunkGenerateBusy \/ Deleting

\* Dialogs are modal; the edit dialog of a row cannot be closed while it saves.
Modal == tab.dialog \/ tab.asking # None \/ Pending("save") # {}
Usable == tab.on /\ ~Modal
Forms == {c \in tab.panels : tab.phase[c] # "running"}

SectionEnabled(c) == Usable /\ c \in page.chunks /\ ~AddingDisabled /\ tab.phase[c] # "running"
AddEnabled(c) == Usable /\ c \in page.chunks /\ ~Deleting

\* A lesson without chunks shows its exercises in a flat list.
Flat == page.chunks = {}

\* What disables the rows, listed under their chunk or among the orphans.
RowsDisabled == IF Flat THEN ActuallyBusy ELSE AddingDisabled

\* A row is busy while it saves or deletes; the rewrite dialog does not count.
RowBusy(r) == \E o \in ops : o.row.id = r.id /\ o.op \in {"save", "delete"} /\ ~o.old

(***************************************************************************)
(* Calls and answers                                                       *)
(***************************************************************************)

Send(kind, r, c, force) ==
    /\ used.deeds < MaxDeeds
    /\ ops' = ops \cup {[op |-> kind, row |-> r, chunk |-> c, force |-> force, at |-> "sent",
                         old |-> FALSE, job |-> 0, n |-> used.deeds + 1]}
    /\ used' = [used EXCEPT !.deeds = @ + 1]

\* The openLessonGenerateRequest effect: it runs on mount and whenever the
\* request, the number of chunks or the phase of the lesson's run changes.
Asked(pg, tb) == [tb EXCEPT !.dialog = @ \/ (tb.on /\ pg.request /\ pg.chunks # {} /\ pg.whole # "running")]

\* updateInteractions and updateInteractionsFromCurrent, from the instance
\* that started the call.
Update(isOld, F(_)) ==
    IF isOld THEN old' = F(old) /\ page' = [page EXCEPT !.list = F(old)]
    ELSE page' = [page EXCEPT !.list = F(page.list)] /\ UNCHANGED old

Refresh == reads' = Append(reads, [to |-> 0, served |-> FALSE, list |-> <<>>])

Replace(list, r) == [i \in DOMAIN list |-> IF list[i].id = r.id THEN r ELSE list[i]]

(***************************************************************************)
(* The teacher                                                             *)
(***************************************************************************)

OpenGenerate(c) ==
    /\ SectionEnabled(c) /\ Cardinality(Forms \ {c}) < MaxForms
    /\ tab' = [tab EXCEPT !.panels = @ \cup {c}, !.adding = None, !.phase[c] = "idle"]
    /\ UNCHANGED <<rows, jobs, page, old, runs, ops, reads, used>>

OpenAdd(c) ==
    /\ AddEnabled(c) /\ Cardinality(Forms \ {c}) < MaxForms
    /\ tab' = [tab EXCEPT !.panels = @ \ {c}, !.adding = c]
    /\ UNCHANGED <<rows, jobs, page, old, runs, ops, reads, used>>

CloseAdd ==
    /\ Usable /\ tab.adding # None /\ ~AddSaving
    /\ tab' = [tab EXCEPT !.adding = None]
    /\ UNCHANGED <<rows, jobs, page, old, runs, ops, reads, used>>

\* handleCloseGenerate: "Hủy" and "Đóng" are not shown while the run goes.
CloseGenerate(c) ==
    /\ Usable /\ c \in tab.panels /\ tab.phase[c] # "running"
    /\ tab' = [tab EXCEPT !.panels = @ \ {c}, !.phase[c] = "idle"]
    /\ UNCHANGED <<rows, jobs, page, old, runs, ops, reads, used>>

\* handleChunkGenerate, to its first await.
Generate(c) ==
    /\ Usable /\ c \in tab.panels /\ tab.phase[c] = "idle" /\ ~AddingDisabled
    /\ used.deeds < MaxDeeds /\ used' = [used EXCEPT !.deeds = @ + 1]
    /\ runs' = Append([r \in DOMAIN runs |-> IF runs[r].chunk = c /\ runs[r].at # "off"
                                             THEN [runs[r] EXCEPT !.aborted = TRUE] ELSE runs[r]],
                      [chunk |-> c, at |-> "config", aborted |-> FALSE, old |-> FALSE, job |-> 0])
    /\ tab' = [tab EXCEPT !.phase[c] = "running"]
    /\ UNCHANGED <<rows, jobs, page, old, ops, reads>>

SaveAdd(c) ==
    /\ Usable /\ tab.adding = c /\ ~AddSaving
    /\ Send("add", NoRow, c, FALSE)
    /\ UNCHANGED <<rows, jobs, page, tab, old, runs, reads>>

\* handleSave and handleDelete of a row.
RowOp(r, kind) ==
    /\ Usable /\ ~RowsDisabled /\ ~RowBusy(r)
    /\ Send(kind, r, r.chunk, FALSE)
    /\ UNCHANGED <<rows, jobs, page, tab, old, runs, reads>>

\* handleRegenerate: the dialog may be closed while it waits.
Rewrite(r) ==
    /\ Usable /\ ~RowsDisabled /\ ~RowBusy(r)
    /\ Send("rewrite", r, r.chunk, FALSE)
    /\ UNCHANGED <<rows, jobs, page, tab, old, runs, reads>>

AskDelete(what) ==
    /\ IF what = Whole THEN Usable /\ ~ActuallyBusy /\ page.list # <<>> /\ page.chunks # {}
       ELSE SectionEnabled(what) /\ Has(page.list, what)
    /\ tab' = [tab EXCEPT !.asking = what]
    /\ UNCHANGED <<rows, jobs, page, old, runs, ops, reads, used>>

DropDelete ==
    /\ tab.asking # None
    /\ tab' = [tab EXCEPT !.asking = None]
    /\ UNCHANGED <<rows, jobs, page, old, runs, ops, reads, used>>

ConfirmDelete ==
    /\ tab.asking # None /\ ~Deleting
    /\ Send("clear", NoRow, tab.asking, FALSE)
    /\ tab' = [tab EXCEPT !.asking = None]
    /\ UNCHANGED <<rows, jobs, page, old, runs, reads>>

\* "Tạo thêm" of the header, or "Bắt đầu tạo" of the empty state, which no
\* flag disables.
OpenDialog ==
    /\ Usable /\ page.chunks # {}
    /\ IF page.list # <<>> THEN ~ActuallyBusy ELSE page.whole # "running"
    /\ tab' = [tab EXCEPT !.dialog = TRUE]
    /\ UNCHANGED <<rows, jobs, page, old, runs, ops, reads, used>>

CloseDialog ==
    /\ tab.dialog /\ page.whole # "running"
    /\ tab' = [tab EXCEPT !.dialog = FALSE]
    /\ UNCHANGED <<rows, jobs, page, old, runs, ops, reads, used>>

\* handleGenDialogGenerate: the default configuration is saved first.
ConfirmDialog(force) ==
    /\ tab.dialog /\ page.whole # "running"
    /\ force => page.list # <<>>
    /\ Send("config", NoRow, None, force)
    /\ UNCHANGED <<rows, jobs, page, tab, old, runs, reads>>

\* bumpExerciseOpenRequest: "next action" of the workflow.
Request ==
    /\ ~page.request /\ ~Modal /\ used.deeds < MaxDeeds
    /\ used' = [used EXCEPT !.deeds = @ + 1]
    /\ page' = [page EXCEPT !.request = TRUE]
    /\ tab' = Asked(page', tab)
    /\ UNCHANGED <<rows, jobs, old, runs, ops, reads>>

\* Another step of the workflow is shown: the tab is unmounted, its runs are
\* aborted, its calls go on.
Leave ==
    /\ Usable /\ used.leaves < MaxLeaves /\ used.deeds < MaxDeeds
    /\ used' = [used EXCEPT !.leaves = @ + 1, !.deeds = @ + 1]
    /\ tab' = Closed
    /\ old' = page.list
    /\ runs' = [r \in DOMAIN runs |->
                  IF runs[r].at = "off" THEN runs[r] ELSE [runs[r] EXCEPT !.aborted = TRUE, !.old = TRUE]]
    /\ ops' = {[o EXCEPT !.old = TRUE] : o \in ops}
    /\ UNCHANGED <<rows, jobs, page, reads>>

Return ==
    /\ ~tab.on
    /\ tab' = Asked(page, [Closed EXCEPT !.on = TRUE])
    /\ UNCHANGED <<rows, jobs, page, old, runs, ops, reads, used>>

(***************************************************************************)
(* The service                                                             *)
(***************************************************************************)

Live(j) == jobs[j].st = "active"

\* StartLessonTask: an active task of the same chunk is returned, else one is
\* created.
ActiveJobs(k) == {j \in DOMAIN jobs : jobs[j].key = k /\ Live(j)}
Task(k) == IF ActiveJobs(k) # {} THEN CHOOSE j \in ActiveJobs(k) : TRUE ELSE Len(jobs) + 1
Create(k, force) ==
    jobs' = IF ActiveJobs(k) # {} THEN jobs
            ELSE Append(jobs, [key |-> k, force |-> force, st |-> "active", saved |-> FALSE,
                               todo |-> IF k # Whole THEN {k}
                                        ELSE {c \in Chunks : force \/ ~\E r \in rows : r.chunk = c}])

\* saveInteractionsForChunk: one transaction for a chunk; only a forced run
\* deletes first.
JobSave(j, c) ==
    /\ Live(j) /\ c \in jobs[j].todo /\ used.rows < MaxRows
    /\ LET kept == IF jobs[j].force THEN {r \in rows : r.chunk # c} ELSE rows
       IN rows' = kept \cup {[id |-> used.rows + 1, chunk |-> c, edited |-> FALSE]}
    /\ jobs' = [jobs EXCEPT ![j].todo = @ \ {c}, ![j].saved = TRUE]
    /\ used' = [used EXCEPT !.rows = @ + 1]
    /\ UNCHANGED <<page, tab, old, runs, ops, reads>>

\* The model gives nothing for the chunk.
JobSkip(j, c) ==
    /\ Live(j) /\ c \in jobs[j].todo
    /\ jobs' = [jobs EXCEPT ![j].todo = @ \ {c}]
    /\ UNCHANGED <<rows, page, tab, old, runs, ops, reads, used>>

JobEnd(j) ==
    /\ Live(j) /\ jobs[j].todo = {}
    /\ \E st \in IF jobs[j].saved THEN {"succeeded"} ELSE {"succeeded", "failed"} :
         jobs' = [jobs EXCEPT ![j].st = st]
    /\ UNCHANGED <<rows, page, tab, old, runs, ops, reads, used>>

\* CancelLessonTask, from the task panel or another tab.
JobCancel(j) ==
    /\ Lossy /\ used.deeds < MaxDeeds /\ used.fails = 0 /\ Live(j)
    /\ jobs' = [jobs EXCEPT ![j].st = "canceled"]
    /\ used' = [used EXCEPT !.fails = 1, !.deeds = @ + 1]
    /\ UNCHANGED <<rows, page, tab, old, runs, ops, reads>>

Serve(o) ==
    /\ o.at = "sent"
    /\ LET lacking == o.op \in {"save", "rewrite", "delete"} /\ ~\E r \in rows : r.id = o.row.id
           refused == lacking \/ (o.op = "add" /\ used.rows = MaxRows)
           new == CASE o.op = "add" -> [id |-> used.rows + 1, chunk |-> o.chunk, edited |-> FALSE]
                    [] o.op \in {"save", "rewrite"} -> [o.row EXCEPT !.edited = TRUE]
                    [] OTHER -> o.row
       IN /\ ops' = (ops \ {o}) \cup {[o EXCEPT !.at = IF refused THEN "failed" ELSE "done", !.row = IF refused THEN @ ELSE new,
                                            !.job = IF o.op = "start" THEN Task(Whole) ELSE 0]}
          /\ rows' = CASE refused \/ o.op \in {"config", "start"} -> rows
                       [] o.op = "add" -> rows \cup {new}
                       [] o.op \in {"save", "rewrite"} -> {r \in rows : r.id # new.id} \cup {new}
                       [] o.op = "delete" -> {r \in rows : r.id # o.row.id}
                       [] o.op = "clear" -> {r \in rows : o.chunk # Whole /\ r.chunk # o.chunk}
          /\ used' = IF o.op = "add" /\ ~refused THEN [used EXCEPT !.rows = @ + 1] ELSE used
    /\ IF o.op = "start" THEN Create(Whole, o.force) ELSE UNCHANGED jobs
    /\ UNCHANGED <<page, tab, old, runs, reads>>

\* A call fails before it is served, or its answer is lost.
Lose(o) ==
    /\ Lossy /\ used.deeds < MaxDeeds /\ used.fails = 0 /\ o.at \in {"sent", "done"}
    /\ ops' = (ops \ {o}) \cup {[o EXCEPT !.at = "failed"]}
    /\ used' = [used EXCEPT !.fails = 1, !.deeds = @ + 1]
    /\ UNCHANGED <<rows, jobs, page, tab, old, runs, reads>>

\* GetLessonAnalysis, for a loader that waits or for the page refreshed.
ServeRead(i) ==
    /\ i \in DOMAIN reads /\ ~reads[i].served
    /\ reads' = [reads EXCEPT ![i].served = TRUE, ![i].list = Stored]
    /\ UNCHANGED <<rows, jobs, page, tab, old, runs, ops, used>>

(***************************************************************************)
(* Answers of the teacher's calls                                          *)
(***************************************************************************)

Answered(o) == o \in ops /\ o.at = "done" /\ ops' = ops \ {o}

AddAnswer(o) ==
    /\ o.op = "add" /\ Answered(o)
    /\ Update(o.old, LAMBDA list : Append(list, o.row))
    /\ tab' = IF o.old THEN tab ELSE [tab EXCEPT !.adding = None]
    /\ Refresh
    /\ UNCHANGED <<rows, jobs, runs, used>>

\* onUpdate of a saved or rewritten row.
SaveAnswer(o) ==
    /\ o.op \in {"save", "rewrite"} /\ Answered(o)
    /\ Update(o.old, LAMBDA list : Replace(list, o.row))
    /\ Refresh
    /\ UNCHANGED <<rows, jobs, tab, runs, used>>

\* As if the local list were thought enough after a deletion.
DeleteAnswerLocal(o) ==
    /\ o.op = "delete" /\ Answered(o)
    /\ Update(o.old, LAMBDA list : SelectSeq(list, LAMBDA r : r.id # o.row.id))
    /\ UNCHANGED <<rows, jobs, tab, runs, reads, used>>

DeleteAnswer(o) ==
    /\ o.op = "delete" /\ Answered(o)
    /\ Update(o.old, LAMBDA list : SelectSeq(list, LAMBDA r : r.id # o.row.id))
    /\ Refresh
    /\ UNCHANGED <<rows, jobs, tab, runs, used>>

ClearAnswer(o) ==
    /\ o.op = "clear" /\ Answered(o)
    /\ Update(o.old, LAMBDA list : SelectSeq(list, LAMBDA r : o.chunk # Whole /\ r.chunk # o.chunk))
    /\ Refresh
    /\ UNCHANGED <<rows, jobs, tab, runs, used>>

\* The configuration is saved: the dialog closes and the page starts the
\* lesson's generation (handleGenerate).
ConfigAnswer(o) ==
    /\ o.op = "config" /\ o \in ops /\ o.at = "done"
    /\ page' = [page EXCEPT !.whole = "running"]
    /\ tab' = IF o.old THEN tab ELSE [tab EXCEPT !.dialog = FALSE]
    /\ ops' = (ops \ {o}) \cup {[o EXCEPT !.op = "start", !.at = "sent"]}
    /\ UNCHANGED <<rows, jobs, old, runs, reads, used>>

StartAnswer(o) ==
    /\ o.op = "start" /\ Answered(o)
    /\ page' = [page EXCEPT !.listed = @ \cup {o.job}]
    /\ UNCHANGED <<rows, jobs, tab, old, runs, reads, used>>

\* A toast; a lost start puts the lesson's run in error.
FailedAnswer(o) ==
    /\ o \in ops /\ o.at = "failed"
    /\ ops' = ops \ {o}
    /\ IF o.op = "start"
       THEN page' = [page EXCEPT !.whole = "error"] /\ tab' = Asked(page', tab)
       ELSE UNCHANGED <<page, tab>>
    /\ UNCHANGED <<rows, jobs, old, runs, reads, used>>

(***************************************************************************)
(* The page: task list poller and tracker, as far as the tab sees them     *)
(***************************************************************************)

\* useAnalysisTaskTracker: lesson-wide tasks it has seen active and now sees
\* ended; per-chunk tasks are left to the tab.
WholeEnded(st) == \E j \in page.listed : jobs[j].key = Whole /\ jobs[j].st \in st

PagePolls ==
    LET now == {j \in DOMAIN jobs : Live(j)}
        going == \E j \in now : jobs[j].key = Whole
    IN
    /\ now # page.listed \/ (going /\ page.whole # "running")
    /\ page' = [page EXCEPT !.listed = now,
                            !.whole = CASE going -> "running"
                                        [] WholeEnded({"failed", "canceled"}) -> "error"
                                        [] OTHER -> @]
    /\ tab' = IF page'.whole # page.whole THEN Asked(page', tab) ELSE tab
    /\ reads' = IF WholeEnded({"succeeded"})
                THEN Append(reads, [to |-> MaxDeeds + 1, served |-> FALSE, list |-> <<>>]) ELSE reads
    /\ UNCHANGED <<rows, jobs, old, runs, ops, used>>

\* An answer is read: by the refreshed page, by the tracker at the end of the
\* lesson's run, or by a per-chunk run (below).
Arrives(i) ==
    /\ i \in DOMAIN reads /\ reads[i].served
    /\ Overtaking \/ i = 1
    /\ reads' = RemoveAt(reads, i)

PageReads(i) ==
    /\ Arrives(i) /\ reads[i].to = 0
    /\ page' = [page EXCEPT !.list = reads[i].list]
    /\ UNCHANGED <<rows, jobs, tab, old, runs, ops, used>>

TrackerReads(i) ==
    /\ Arrives(i) /\ reads[i].to = MaxDeeds + 1
    /\ page' = [page EXCEPT !.list = reads[i].list, !.whole = "done"]
    /\ tab' = Asked(page', tab)
    /\ UNCHANGED <<rows, jobs, old, runs, ops, used>>

(***************************************************************************)
(* handleChunkGenerate after its awaits                                    *)
(***************************************************************************)

\* setChunkGenState of an unmounted instance changes nothing.
Shows(r, phase) == tab' = IF runs[r].old THEN tab ELSE [tab EXCEPT !.phase[runs[r].chunk] = phase]

\* The head of the polling loop: the only place the abort is looked at.
LoopHead(r) == IF runs[r].aborted THEN "off" ELSE "poll"

RunConfigured(r) ==
    /\ runs[r].at = "config"
    /\ runs' = [runs EXCEPT ![r].at = "start"]
    /\ Shows(r, "running")
    /\ UNCHANGED <<rows, jobs, page, old, ops, reads, used>>

RunStarted(r) ==
    /\ runs[r].at = "start"
    /\ Create(runs[r].chunk, FALSE)
    /\ runs' = [runs EXCEPT ![r].job = Task(runs[r].chunk), ![r].at = LoopHead(r)]
    /\ UNCHANGED <<rows, page, tab, old, ops, reads, used>>

\* The answer of getLessonTask.
RunPolled(r) ==
    /\ runs[r].at = "poll"
    /\ LET st == jobs[runs[r].job].st IN
       /\ runs' = [runs EXCEPT ![r].at = CASE st = "active" -> "sleep" [] st = "succeeded" -> "read"
                                            [] OTHER -> "off"]
       /\ CASE st = "active" -> Shows(r, "running")
            [] st = "failed" -> Shows(r, "error")
            [] st = "canceled" -> Shows(r, "idle")
            [] OTHER -> UNCHANGED tab
       /\ reads' = IF st = "succeeded" THEN Append(reads, [to |-> r, served |-> FALSE, list |-> <<>>]) ELSE reads
    /\ UNCHANGED <<rows, jobs, page, old, ops, used>>

RunWakes(r) ==
    /\ runs[r].at = "sleep"
    /\ runs' = [runs EXCEPT ![r].at = LoopHead(r)]
    /\ UNCHANGED <<rows, jobs, page, tab, old, ops, reads, used>>

\* The whole fresh list replaces the one shown; 500 ms later the panel closes.
RunReads(r, i) ==
    /\ Arrives(i) /\ reads[i].to = r
    /\ runs' = [runs EXCEPT ![r].at = "off"]
    /\ Update(runs[r].old, LAMBDA list : reads[i].list)
    /\ tab' = IF runs[r].old THEN tab
              ELSE [tab EXCEPT !.phase[runs[r].chunk] = "done", !.timers = @ \cup {runs[r].chunk}]
    /\ UNCHANGED <<rows, jobs, ops, used>>

\* The task succeeded but its result could not be loaded: a warning.
RunMisses(r, i) ==
    /\ Lossy /\ used.deeds < MaxDeeds /\ used.fails = 0 /\ i \in DOMAIN reads /\ reads[i].to = r
    /\ used' = [used EXCEPT !.fails = 1, !.deeds = @ + 1]
    /\ reads' = RemoveAt(reads, i)
    /\ runs' = [runs EXCEPT ![r].at = "off"]
    /\ tab' = IF runs[r].old THEN tab
              ELSE [tab EXCEPT !.phase[runs[r].chunk] = "done", !.timers = @ \cup {runs[r].chunk}]
    /\ UNCHANGED <<rows, jobs, page, old, ops>>

RunFails(r) ==
    /\ Lossy /\ used.deeds < MaxDeeds /\ used.fails = 0 /\ runs[r].at \in {"config", "start", "poll"}
    /\ used' = [used EXCEPT !.fails = 1, !.deeds = @ + 1]
    /\ runs' = [runs EXCEPT ![r].at = "off"]
    /\ IF runs[r].aborted THEN UNCHANGED tab ELSE Shows(r, "error")
    /\ UNCHANGED <<rows, jobs, page, old, ops, reads>>

DoneTimer(c) ==
    /\ c \in tab.timers
    /\ tab' = [tab EXCEPT !.timers = @ \ {c}, !.panels = @ \ {c}, !.phase[c] = "idle"]
    /\ UNCHANGED <<rows, jobs, page, old, runs, ops, reads, used>>

(***************************************************************************)
(* Specification                                                           *)
(***************************************************************************)

\* The step is opened with at most one exercise; a lesson without chunks may
\* still have exercises.
Init ==
    /\ \E has \in BOOLEAN, cs \in {Chunks, {}}, c \in Chunks :
         /\ rows = IF has THEN {[id |-> 1, chunk |-> IF cs = {} THEN None ELSE c,
                                 edited |-> FALSE]} ELSE {}
         /\ used = [rows |-> Cardinality(rows), deeds |-> 0, leaves |-> 0, fails |-> 0]
         /\ page = [list |-> Stored, chunks |-> cs, whole |-> "idle", listed |-> {}, request |-> FALSE]
    /\ jobs = <<>> /\ runs = <<>> /\ ops = {} /\ reads = <<>> /\ old = <<>>
    /\ tab = [Closed EXCEPT !.on = TRUE]

Teacher ==
    \/ \E c \in Chunks : OpenGenerate(c) \/ OpenAdd(c) \/ CloseGenerate(c) \/ Generate(c) \/ SaveAdd(c)
    \/ \E r \in Range(page.list) : RowOp(r, "save") \/ RowOp(r, "delete") \/ Rewrite(r)
    \/ \E what \in Chunks \cup {Whole} : AskDelete(what)
    \/ \E force \in BOOLEAN : ConfirmDialog(force)
    \/ CloseAdd \/ DropDelete \/ ConfirmDelete \/ OpenDialog \/ CloseDialog \/ Request \/ Leave \/ Return

Service ==
    \/ \E j \in DOMAIN jobs : JobEnd(j) \/ JobCancel(j) \/ \E c \in Chunks : JobSave(j, c) \/ JobSkip(j, c)
    \/ \E o \in ops : Serve(o) \/ Lose(o)
    \/ \E i \in DOMAIN reads : ServeRead(i)

Browser ==
    \/ \E o \in ops : \/ AddAnswer(o) \/ SaveAnswer(o) \/ DeleteAnswer(o) \/ ClearAnswer(o)
                      \/ ConfigAnswer(o) \/ StartAnswer(o) \/ FailedAnswer(o)
    \/ \E r \in DOMAIN runs : \/ RunConfigured(r) \/ RunStarted(r) \/ RunPolled(r) \/ RunWakes(r) \/ RunFails(r)
                              \/ \E i \in DOMAIN reads : RunReads(r, i) \/ RunMisses(r, i)
    \/ \E i \in DOMAIN reads : PageReads(i) \/ TrackerReads(i)
    \/ \E c \in Chunks : DoneTimer(c)
    \/ PagePolls

Next == Teacher \/ Service \/ Browser

Spec == Init /\ [][Next]_vars

(***************************************************************************)
(* Properties                                                              *)
(***************************************************************************)

\* The screen's state has its shape (the useState and useRef types of
\* TabExercises).
TypeOK ==
    /\ rows \subseteq Row /\ \A r, s \in rows : r.id = s.id => r = s
    /\ page.list \in Seq(Row) /\ page.chunks \in {Chunks, {}} /\ page.whole \in Phase
    /\ page.listed \subseteq DOMAIN jobs
    /\ tab.phase \in [Chunks -> Phase] /\ tab.panels \subseteq Chunks /\ tab.timers \subseteq Chunks
    /\ tab.adding \in Chunks \cup {None} /\ tab.asking \in Chunks \cup {None, Whole}
    /\ \A o \in ops : o.op \in OpKind /\ o.at \in {"sent", "done", "failed"} /\ o.row \in Row \cup {NoRow}
    /\ \A r \in DOMAIN runs : runs[r].at \in {"off", "config", "start", "poll", "sleep", "read"}
    /\ \A i \in DOMAIN reads : reads[i].to \in 0..(MaxDeeds + 1)

\* Nothing is under way, nothing has failed or was canceled, and no run was
\* abandoned before it loaded its result.
AtRest ==
    /\ ops = {} /\ reads = <<>> /\ page.listed = {} /\ used.fails = 0
    /\ \A j \in DOMAIN jobs : ~Live(j)
    /\ \A r \in DOMAIN runs : runs[r].at = "off" /\ ~runs[r].aborted

\* However the teacher's calls, the generations and the refreshes they cause
\* interleave, once everything has come in the list on the screen is the list
\* stored, each exercise once (updateInteractions and router.refresh: the
\* optimistic changes, the list a run puts in their place and the refreshed
\* page agree in the end).
AtRestTrue == AtRest => Range(page.list) = rows /\ Len(page.list) = Cardinality(rows)

\* A chunk shown as generating has a run behind it that will still answer for
\* it: no way out of handleChunkGenerate (an error, a canceled task, a newer
\* run, the 500 ms timer) leaves a spinner that nothing will stop.
SpinnerHasRun ==
    \A c \in Chunks : tab.phase[c] = "running" =>
        \E r \in DOMAIN runs : runs[r].chunk = c /\ runs[r].at # "off" /\ ~runs[r].old

\* The exercises step is true to the lesson: its list at rest and its spinners
\* (tab-exercises.tsx).
TabHolds == AtRestTrue /\ SpinnerHasRun
=============================================================================
