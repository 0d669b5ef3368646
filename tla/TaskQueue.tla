------------------------------- MODULE TaskQueue -------------------------------
(***************************************************************************)
(* The PostgreSQL task queue of richter (internal/taskqueue and            *)
(* sql/queries/tasks.sql): the tasks table, the worker processes that      *)
(* claim, heartbeat and conclude tasks, the scanner that recovers stuck    *)
(* rows, user cancellation, and crashes and restarts of the processes.     *)
(*                                                                         *)
(* One SQL statement is one atomic step (each runs in its own transaction, *)
(* postgres.go).  queue_seq is abstracted to the order it induces: `queue' *)
(* lists the 'inqueued' rows by ascending queue_seq.  Time is abstracted:  *)
(* a heartbeat is "fresh" or "stale", and a row of the queue may be found  *)
(* older than queueStaleAfter at any moment.                               *)
(*                                                                         *)
(* A worker identity is the UUID v7 of ONE process life, so a restarted    *)
(* process is another member of Workers.  Every claim of a task starts an  *)
(* executor goroutine; the goroutine of the e-th claim of t is <<t, e>>.   *)
(***************************************************************************)
EXTENDS Integers, Sequences, FiniteSets, SequencesExt

CONSTANTS
    Tasks,        \* task ids (UUIDs, never reused)
    Workers,      \* worker ids, one per process life
    NoWorker,     \* worker_id IS NULL
    Stages,       \* stages of a task's work (3 for pipeline_run, 1 for the others)
    MaxClaims,    \* bound: claims of one task
    MaxLapses,    \* bound: heartbeats that go stale while their goroutine is tracked
    MaxDbErrors   \* bound: claim, checkpoint or mark calls whose error is swallowed

ASSUME ConstantsAssumption ==
    /\ NoWorker \notin Workers
    /\ Stages \in Nat \ {0}
    /\ MaxClaims \in Nat \ {0}
    /\ MaxLapses \in Nat
    /\ MaxDbErrors \in Nat

VARIABLES
    \* The tasks table.
    status,       \* "absent" before the INSERT, "deleted" after the DELETE
    workerID,     \* worker_id
    heartbeat,    \* "none" (NULL), "fresh" or "stale"
    queue,        \* the inqueued rows by ascending queue_seq
    output,       \* output_payload: the last stage it records, Stages when complete
    progress,     \* message: the claim whose goroutine wrote it, 0 when ''
    \* The worker processes.
    proc,         \* "unborn", "up", "draining" (its context is done) or "down"
    active,       \* Worker.active: task -> claim of the tracked goroutine, 0 for no entry
    losing,       \* the heartbeat goroutine, between affected=0 and what it then does
    \* The executor goroutines.
    pc,           \* "none", "running", "exiting" (runTask has returned) or "gone"
    claimer,      \* the worker that made the claim and runs the goroutine
    cancelled,    \* its context is cancelled
    stage,        \* the last stage it has finished or read from PriorOutput
    \* Bookkeeping of the bounds.
    claims,       \* claims of each task so far
    lapses,       \* lapses so far
    dbErrors      \* swallowed errors so far

tableVars == <<status, workerID, heartbeat, queue, output, progress>>
procVars  == <<proc, active, losing>>
runVars   == <<pc, claimer, cancelled, stage>>
boundVars == <<claims, lapses, dbErrors>>
vars == <<tableVars, procVars, runVars, boundVars>>

Claims == 1..MaxClaims
Terminal == {"succeeded", "failed", "cancelled"}
Statuses == {"absent", "inqueued", "processing", "deleted"} \union Terminal
NotLosing == <<>>

Init ==
    /\ status = [t \in Tasks |-> "absent"]
    /\ workerID = [t \in Tasks |-> NoWorker]
    /\ heartbeat = [t \in Tasks |-> "none"]
    /\ queue = <<>>
    /\ output = [t \in Tasks |-> 0]
    /\ progress = [t \in Tasks |-> 0]
    /\ proc = [w \in Workers |-> "unborn"]
    /\ active = [w \in Workers |-> [t \in Tasks |-> 0]]
    /\ losing = [w \in Workers |-> NotLosing]
    /\ pc = [t \in Tasks |-> [e \in Claims |-> "none"]]
    /\ claimer = [t \in Tasks |-> [e \in Claims |-> NoWorker]]
    /\ cancelled = [t \in Tasks |-> [e \in Claims |-> FALSE]]
    /\ stage = [t \in Tasks |-> [e \in Claims |-> 0]]
    /\ claims = [t \in Tasks |-> 0]
    /\ lapses = 0
    /\ dbErrors = 0

--------------------------------------------------------------------------------
(* Helpers. *)

\* The queue without t, whose queue_seq stops mattering.
Unqueued(t) == RemoveAt(queue, CHOOSE i \in DOMAIN queue : queue[i] = t)

OwnsByStatusOnly(t, w) == status[t] = "processing"

\* WHERE id = t AND worker_id = w AND status = 'processing'.
Owns(t, w) == status[t] = "processing" /\ workerID[t] = w

\* A goroutine that runs and whose context is live: a cancelled context makes
\* every database call of the goroutine fail.
Live(t, e) == pc[t][e] = "running" /\ ~cancelled[t][e]

\* Nobody keeps t's heartbeat fresh: its owner's heartbeat loop has ended or
\* has no entry for it.
Untended(t) ==
    \/ proc[workerID[t]] # "up"
    \/ active[workerID[t]][t] = 0

SomeoneUp == \E w \in Workers : proc[w] = "up"

\* Bound: the last process life neither crashes nor shuts down.
AnotherLifeFollows == \E w \in Workers : proc[w] = "unborn"

ReleaseRow(t, s) ==
    /\ status' = [status EXCEPT ![t] = s]
    /\ workerID' = [workerID EXCEPT ![t] = NoWorker]
    /\ heartbeat' = [heartbeat EXCEPT ![t] = "none"]

--------------------------------------------------------------------------------
(* Producers and users. *)

\* INSERT ... 'inqueued', queue_seq = MAX + 1.
InsertTask(t) ==
    /\ status[t] = "absent"
    /\ status' = [status EXCEPT ![t] = "inqueued"]
    /\ queue' = Append(queue, t)
    /\ UNCHANGED <<workerID, heartbeat, output, progress, procVars, runVars, boundVars>>

\* CancelLessonTask: the running goroutine, if any, is left to its heartbeat.
CancelTask(t) ==
    /\ status[t] \in {"inqueued", "processing"}
    /\ ReleaseRow(t, "cancelled")
    /\ queue' = IF status[t] = "inqueued" THEN Unqueued(t) ELSE queue
    /\ progress' = [progress EXCEPT ![t] = 0]
    /\ UNCHANGED <<output, procVars, runVars, boundVars>>

\* DeleteTasksForLesson(Except) of another execution, or the lesson's cascade.
DeleteTask(t) ==
    /\ status[t] \notin {"absent", "deleted"}
    /\ ReleaseRow(t, "deleted")
    /\ queue' = IF status[t] = "inqueued" THEN Unqueued(t) ELSE queue
    /\ output' = [output EXCEPT ![t] = 0]
    /\ progress' = [progress EXCEPT ![t] = 0]
    /\ UNCHANGED <<procVars, runVars, boundVars>>

--------------------------------------------------------------------------------
(* The worker. *)

SpawnTask_Untracked(w, t, e) ==
    /\ pc' = [pc EXCEPT ![t][e] = "running"]
    /\ cancelled' = [cancelled EXCEPT ![t][e] = FALSE]
    /\ stage' = [stage EXCEPT ![t][e] = output[t]]
    /\ UNCHANGED active

\* spawnTask: store the entry (over any older one), start the goroutine, which
\* resumes from the row's output_payload.
SpawnTask(w, t, e) ==
    /\ active' = [active EXCEPT ![w][t] = e]
    /\ pc' = [pc EXCEPT ![t][e] = "running"]
    /\ cancelled' = [cancelled EXCEPT ![t][e] = FALSE]
    /\ stage' = [stage EXCEPT ![t][e] = output[t]]

ClaimRow(w, t) ==
    /\ proc[w] = "up"
    /\ queue # <<>>
    /\ t = Head(queue)
    /\ claims[t] < MaxClaims
    /\ status' = [status EXCEPT ![t] = "processing"]
    /\ workerID' = [workerID EXCEPT ![t] = w]
    /\ heartbeat' = [heartbeat EXCEPT ![t] = "fresh"]
    /\ queue' = Tail(queue)
    /\ claims' = [claims EXCEPT ![t] = @ + 1]
    /\ claimer' = [claimer EXCEPT ![t][claims[t] + 1] = w]
    /\ UNCHANGED <<output, progress, proc, losing, lapses>>

\* taskLoop: the claimed task runs in a goroutine of its own and the loop claims
\* the next one at once, so the number of loops bounds nothing.
Claim(w, t) ==
    /\ ClaimRow(w, t)
    /\ SpawnTask(w, t, claims[t] + 1)
    /\ UNCHANGED dbErrors

\* The UPDATE commits and its answer is lost: the loop logs "claim failed", and
\* no goroutine runs the row it owns.
ClaimLost(w, t) ==
    /\ dbErrors < MaxDbErrors
    /\ ClaimRow(w, t)
    /\ dbErrors' = dbErrors + 1
    /\ UNCHANGED <<active, pc, cancelled, stage>>

ReconnectCandidates_AnyWorker(w) ==
    {t \in Tasks : status[t] = "processing" /\ heartbeat[t] = "fresh"}

ReconnectCandidates(w) ==
    {t \in Tasks : Owns(t, w) /\ heartbeat[t] = "fresh"}

\* Run of a new process: reconnect, then the heartbeat loop and the task loops.
\* Each candidate's goroutine is started again under its last claim.  The id is
\* new, so there is never one (OwnedByLatestClaimer).
Boot(w) ==
    /\ proc[w] = "unborn"
    /\ proc' = [proc EXCEPT ![w] = "up"]
    /\ LET Back(t, e) == t \in ReconnectCandidates(w) /\ e = claims[t] IN
        /\ active' = [active EXCEPT ![w] =
                [t \in Tasks |-> IF t \in ReconnectCandidates(w) THEN claims[t] ELSE 0]]
        /\ pc' = [t \in Tasks |-> [e \in Claims |->
                    IF Back(t, e) THEN "running" ELSE pc[t][e]]]
        /\ claimer' = [t \in Tasks |-> [e \in Claims |->
                    IF Back(t, e) THEN w ELSE claimer[t][e]]]
        /\ cancelled' = [t \in Tasks |-> [e \in Claims |->
                    cancelled[t][e] /\ ~Back(t, e)]]
        /\ stage' = [t \in Tasks |-> [e \in Claims |->
                    IF Back(t, e) THEN output[t] ELSE stage[t][e]]]
    /\ UNCHANGED <<tableVars, losing, boundVars>>

\* Run after ctx.Done(): the loops end and every task context is cancelled (each
\* derives from Run's, tracked or not).
Shutdown(w) ==
    /\ proc[w] = "up"
    /\ AnotherLifeFollows
    /\ proc' = [proc EXCEPT ![w] = "draining"]
    /\ cancelled' = [t \in Tasks |-> [e \in Claims |->
            cancelled[t][e] \/ (claimer[t][e] = w /\ pc[t][e] = "running")]]
    /\ UNCHANGED <<tableVars, active, losing, pc, claimer, stage, boundVars>>

\* taskGoroutines.Wait() returns and the process ends.
Drained(w) ==
    /\ proc[w] = "draining"
    /\ \A t \in Tasks, e \in Claims :
            claimer[t][e] = w => pc[t][e] \notin {"running", "exiting"}
    /\ proc' = [proc EXCEPT ![w] = "down"]
    /\ losing' = [losing EXCEPT ![w] = NotLosing]
    /\ UNCHANGED <<tableVars, active, runVars, boundVars>>

\* The process dies and its goroutines with it; the rows keep its worker_id.
Crash(w) ==
    /\ proc[w] \in {"up", "draining"}
    /\ AnotherLifeFollows
    /\ proc' = [proc EXCEPT ![w] = "down"]
    /\ active' = [active EXCEPT ![w] = [t \in Tasks |-> 0]]
    /\ losing' = [losing EXCEPT ![w] = NotLosing]
    /\ LET Dies(t, e) == claimer[t][e] = w /\ pc[t][e] \in {"running", "exiting"} IN
        /\ pc' = [t \in Tasks |-> [e \in Claims |->
                        IF Dies(t, e) THEN "gone" ELSE pc[t][e]]]
        /\ cancelled' = [t \in Tasks |-> [e \in Claims |-> cancelled[t][e] /\ ~Dies(t, e)]]
        /\ stage' = [t \in Tasks |-> [e \in Claims |->
                        IF Dies(t, e) THEN 0 ELSE stage[t][e]]]
    /\ UNCHANGED <<tableVars, claimer, boundVars>>

--------------------------------------------------------------------------------
(* The executor goroutine <<t, e>>. *)

SetTaskCheckpoint_Unguarded(t, e) ==
    /\ Live(t, e)
    /\ stage[t][e] + 1 < Stages
    /\ stage' = [stage EXCEPT ![t][e] = @ + 1]
    /\ output' = [output EXCEPT ![t] = stage[t][e] + 1]
    /\ UNCHANGED <<status, workerID, heartbeat, queue, progress, procVars,
                   pc, claimer, cancelled, boundVars>>

\* A stage other than the last ends, and its checkpoint is written if the row is
\* still the worker's.
SetTaskCheckpoint(t, e) ==
    /\ Live(t, e)
    /\ stage[t][e] + 1 < Stages
    /\ stage' = [stage EXCEPT ![t][e] = @ + 1]
    /\ output' = IF Owns(t, claimer[t][e])
                 THEN [output EXCEPT ![t] = stage[t][e] + 1] ELSE output
    /\ UNCHANGED <<status, workerID, heartbeat, queue, progress, procVars,
                   pc, claimer, cancelled, boundVars>>

\* A stage ends and its checkpoint is lost: the executor ignores the error.
CheckpointLost(t, e) ==
    /\ Live(t, e)
    /\ stage[t][e] + 1 < Stages
    /\ dbErrors < MaxDbErrors
    /\ dbErrors' = dbErrors + 1
    /\ stage' = [stage EXCEPT ![t][e] = @ + 1]
    /\ UNCHANGED <<tableVars, procVars, pc, claimer, cancelled, claims, lapses>>

\* WHERE id = t, with neither an owner nor a status clause.
UpdateTaskProgress(t, e) ==
    /\ Live(t, e)
    /\ status[t] \notin {"absent", "deleted"}
    /\ progress' = [progress EXCEPT ![t] = e]
    /\ UNCHANGED <<status, workerID, heartbeat, queue, output, procVars, runVars, boundVars>>

\* runTask returns and spawnTask's deferred Delete is still to come.
Return(t, e) == pc' = [pc EXCEPT ![t][e] = "exiting"]

\* The last stage ends.  Zero rows affected is no error: the goroutine ends the
\* same way.
MarkSucceeded(t, e) ==
    /\ Live(t, e)
    /\ stage[t][e] + 1 = Stages
    /\ Return(t, e)
    /\ IF Owns(t, claimer[t][e])
       THEN /\ ReleaseRow(t, "succeeded")
            /\ output' = [output EXCEPT ![t] = Stages]
            /\ progress' = [progress EXCEPT ![t] = 0]
       ELSE UNCHANGED <<status, workerID, heartbeat, output, progress>>
    /\ UNCHANGED <<queue, procVars, claimer, cancelled, stage, boundVars>>

MarkFailed(t, e) ==
    /\ Live(t, e)
    /\ Return(t, e)
    /\ IF Owns(t, claimer[t][e])
       THEN /\ ReleaseRow(t, "failed")
            /\ progress' = [progress EXCEPT ![t] = 0]
       ELSE UNCHANGED <<status, workerID, heartbeat, progress>>
    /\ UNCHANGED <<queue, output, procVars, claimer, cancelled, stage, boundVars>>

\* The mark fails: the error is logged, the row stays 'processing'.
MarkLost(t, e) ==
    /\ Live(t, e)
    /\ dbErrors < MaxDbErrors
    /\ dbErrors' = dbErrors + 1
    /\ Return(t, e)
    /\ UNCHANGED <<tableVars, procVars, claimer, cancelled, stage, claims, lapses>>

\* context.Canceled: the row is not touched.
Abort(t, e) ==
    /\ pc[t][e] = "running"
    /\ cancelled[t][e]
    /\ Return(t, e)
    /\ UNCHANGED <<tableVars, procVars, claimer, cancelled, stage, boundVars>>

Exit_KeepsEntry(t, e) ==
    /\ pc[t][e] = "exiting"
    /\ pc' = [pc EXCEPT ![t][e] = "gone"]
    /\ cancelled' = [cancelled EXCEPT ![t][e] = FALSE]
    /\ stage' = [stage EXCEPT ![t][e] = 0]
    /\ UNCHANGED <<tableVars, proc, active, losing, claimer, boundVars>>

\* The deferred active.Delete(taskID), by key: whatever entry is there goes.
Exit(t, e) ==
    /\ pc[t][e] = "exiting"
    /\ pc' = [pc EXCEPT ![t][e] = "gone"]
    /\ cancelled' = [cancelled EXCEPT ![t][e] = FALSE]
    /\ stage' = [stage EXCEPT ![t][e] = 0]
    /\ active' = [active EXCEPT ![claimer[t][e]][t] = 0]
    /\ UNCHANGED <<tableVars, proc, losing, claimer, boundVars>>

--------------------------------------------------------------------------------
(* Heartbeats. *)

\* One entry of a heartbeat tick.  A failed call changes nothing and is retried
\* at the next tick.
HeartbeatTask(w, t) ==
    /\ proc[w] = "up"
    /\ losing[w] = NotLosing
    /\ active[w][t] # 0
    /\ IF Owns(t, w)
       THEN /\ heartbeat' = [heartbeat EXCEPT ![t] = "fresh"]
            /\ UNCHANGED losing
       ELSE /\ losing' = [losing EXCEPT ![w] = <<t, active[w][t]>>]
            /\ UNCHANGED heartbeat
    /\ UNCHANGED <<status, workerID, queue, output, progress, proc, active, runVars, boundVars>>

LoseTask_OnlyForgets(w) ==
    /\ proc[w] \in {"up", "draining"}
    /\ losing[w] # NotLosing
    /\ active' = [active EXCEPT ![w][losing[w][1]] = 0]
    /\ losing' = [losing EXCEPT ![w] = NotLosing]
    /\ UNCHANGED <<tableVars, proc, runVars, boundVars>>

\* affected = 0: cancel the goroutine the loop read, delete the entry by key.
LoseTask(w) ==
    /\ proc[w] \in {"up", "draining"}
    /\ losing[w] # NotLosing
    /\ LET t == losing[w][1]  e == losing[w][2] IN
        /\ cancelled' = [cancelled EXCEPT ![t][e] = @ \/ pc[t][e] = "running"]
        /\ active' = [active EXCEPT ![w][t] = 0]
    /\ losing' = [losing EXCEPT ![w] = NotLosing]
    /\ UNCHANGED <<tableVars, proc, pc, claimer, stage, boundVars>>

\* staleAfter passes without a heartbeat.  While the owner tracks the goroutine
\* that takes a lapse: a database outage, a suspended host, a stalled loop.
HeartbeatAges(t) ==
    /\ status[t] = "processing"
    /\ heartbeat[t] = "fresh"
    /\ \/ Untended(t) /\ UNCHANGED lapses
       \/ ~Untended(t) /\ lapses < MaxLapses /\ lapses' = lapses + 1
    /\ heartbeat' = [heartbeat EXCEPT ![t] = "stale"]
    /\ UNCHANGED <<status, workerID, queue, output, progress, procVars, runVars,
                   claims, dbErrors>>

--------------------------------------------------------------------------------
(* The scanner, which every process runs.  A sweep handles a batch of rows; the *)
(* batch limit and SKIP LOCKED let it be any of the eligible ones, in an order   *)
(* the abstraction of time leaves open, so one step handles one row.             *)

ReapStaleProcessing_KeepsOwner(t) ==
    /\ SomeoneUp
    /\ status[t] = "processing"
    /\ heartbeat[t] = "stale"
    /\ status' = [status EXCEPT ![t] = "inqueued"]
    /\ queue' = Append(queue, t)
    /\ UNCHANGED <<workerID, heartbeat, output, progress, procVars, runVars, boundVars>>

ReapStaleProcessing_IgnoresHeartbeat(t) ==
    /\ SomeoneUp
    /\ status[t] = "processing"
    /\ ReleaseRow(t, "inqueued")
    /\ queue' = Append(queue, t)
    /\ UNCHANGED <<output, progress, procVars, runVars, boundVars>>

\* To the tail: MAX(queue_seq) + rn.
ReapStaleProcessing(t) ==
    /\ SomeoneUp
    /\ status[t] = "processing"
    /\ heartbeat[t] = "stale"
    /\ ReleaseRow(t, "inqueued")
    /\ queue' = Append(queue, t)
    /\ UNCHANGED <<output, progress, procVars, runVars, boundVars>>

\* To the head: MIN(queue_seq) - rn.
RequeueOrphanedInqueued(t) ==
    /\ SomeoneUp
    /\ status[t] = "inqueued"
    /\ queue' = <<t>> \o Unqueued(t)
    /\ UNCHANGED <<status, workerID, heartbeat, output, progress, procVars, runVars, boundVars>>

--------------------------------------------------------------------------------

UserStep(t) == InsertTask(t) \/ CancelTask(t) \/ DeleteTask(t)

ProcessStep(w) ==
    \/ Boot(w) \/ Shutdown(w) \/ Drained(w) \/ Crash(w) \/ LoseTask(w)
    \/ \E t \in Tasks : Claim(w, t) \/ ClaimLost(w, t) \/ HeartbeatTask(w, t)

ExecutorStep(t, e) ==
    \/ SetTaskCheckpoint(t, e) \/ CheckpointLost(t, e) \/ UpdateTaskProgress(t, e)
    \/ MarkSucceeded(t, e) \/ MarkFailed(t, e) \/ MarkLost(t, e)
    \/ Abort(t, e) \/ Exit(t, e)

ScannerStep(t) ==
    HeartbeatAges(t) \/ ReapStaleProcessing(t) \/ RequeueOrphanedInqueued(t)

Next ==
    \/ \E t \in Tasks : UserStep(t) \/ ScannerStep(t)
    \/ \E w \in Workers : ProcessStep(w)
    \/ \E t \in Tasks, e \in Claims : ExecutorStep(t, e)

Spec == Init /\ [][Next]_vars

\* What the code keeps doing.  The supervisor restarts a dead process, task loops
\* poll, heartbeat and scanner tickers fire, a cancelled executor returns
\* (executor.go: Execute MUST honour ctx) and deferred calls run.
Infrastructure ==
    /\ \A w \in Workers :
        /\ WF_vars(Boot(w))
        /\ WF_vars(Drained(w))
        /\ WF_vars(LoseTask(w))
        /\ WF_vars(\E t \in Tasks : Claim(w, t))
        /\ \A t \in Tasks : WF_vars(HeartbeatTask(w, t))
    /\ \A t \in Tasks :
        /\ WF_vars(HeartbeatAges(t) /\ Untended(t))
        /\ WF_vars(ReapStaleProcessing(t))
        /\ \A e \in Claims : WF_vars(Abort(t, e)) /\ WF_vars(Exit(t, e))

\* Every executor call is bounded by a timeout (cfg/ai.go), so a goroutine that owns
\* its row ends; nothing says when, and FairSpec does not assume it.  Of a goroutine
\* that lost its row nothing is assumed: its heartbeat must stop it.
ExecutorsEnd ==
    \A t \in Tasks, e \in Claims :
        WF_vars(/\ Owns(t, claimer[t][e])
                /\ SetTaskCheckpoint(t, e) \/ MarkSucceeded(t, e) \/ MarkFailed(t, e))

FairSpec == Spec /\ Infrastructure
LiveSpec == FairSpec /\ ExecutorsEnd

--------------------------------------------------------------------------------
(* Properties. *)

TableTypes ==
    /\ status \in [Tasks -> Statuses]
    /\ workerID \in [Tasks -> Workers \union {NoWorker}]
    /\ heartbeat \in [Tasks -> {"none", "fresh", "stale"}]
    /\ output \in [Tasks -> 0..Stages]
    /\ progress \in [Tasks -> 0..MaxClaims]

ProcTypes ==
    /\ proc \in [Workers -> {"unborn", "up", "draining", "down"}]
    /\ active \in [Workers -> [Tasks -> 0..MaxClaims]]
    /\ losing \in [Workers -> {NotLosing} \union (Tasks \X Claims)]

RunTypes ==
    /\ pc \in [Tasks -> [Claims -> {"none", "running", "exiting", "gone"}]]
    /\ claimer \in [Tasks -> [Claims -> Workers \union {NoWorker}]]
    /\ cancelled \in [Tasks -> [Claims -> BOOLEAN]]
    /\ stage \in [Tasks -> [Claims -> 0..Stages]]

BoundTypes ==
    /\ claims \in [Tasks -> 0..MaxClaims]
    /\ lapses \in 0..MaxLapses
    /\ dbErrors \in 0..MaxDbErrors

Types == TableTypes /\ ProcTypes /\ RunTypes /\ BoundTypes

\* worker_id and heartbeat are set exactly while the row is 'processing'.
OwnershipConsistent ==
    \A t \in Tasks :
        /\ status[t] = "processing" <=> workerID[t] # NoWorker
        /\ status[t] = "processing" <=> heartbeat[t] # "none"

\* q lists the tasks of S, each once.
Lists(q, S) ==
    /\ q \in Seq(Tasks)
    /\ \A i, j \in DOMAIN q : q[i] = q[j] => i = j
    /\ \A t \in Tasks : t \in S <=> \E i \in DOMAIN q : q[i] = t

\* queue_seq orders exactly the 'inqueued' rows.
QueueConsistent == Lists(queue, {t \in Tasks : status[t] = "inqueued"})

\* The types of the variables, and what every statement of tasks.sql maintains
\* among the columns of a row.
TypeOK == Types /\ OwnershipConsistent /\ QueueConsistent

\* A 'processing' row is owned by the worker that claimed it last, and that worker
\* has started: no sequence of crashes, reaps, lost answers and new claims leaves a
\* row under a worker that is not its latest claimer, and the reconnect query of a
\* starting process (worker.go, "tasks that were in flight under our worker_id at
\* the time of the previous crash") always comes back empty.
OwnedByLatestClaimer ==
    \A t \in Tasks :
        status[t] = "processing" =>
            /\ claims[t] > 0
            /\ workerID[t] = claimer[t][claims[t]]
            /\ proc[workerID[t]] # "unborn"

\* doc.go, invariant 2, between workers: a goroutine whose task has since been taken
\* back, or claimed by another worker, changes neither the row's status nor its
\* owner nor its output, however late it wakes up and whatever it returns.
ZombieWritesNothing ==
    [][\A t \in Tasks, e \in Claims :
          /\ pc[t][e] = "running"
          /\ pc'[t][e] = "exiting" \/ stage'[t][e] > stage[t][e]
          /\ status[t] # "processing" \/ claimer[t][e] # claimer[t][claims[t]]
          => /\ status'[t] = status[t]
             /\ workerID'[t] = workerID[t]
             /\ output'[t] = output[t]]_vars

\* A succeeded, failed or cancelled row keeps its status and its output until it is
\* deleted, whichever goroutines still run: MarkSucceeded, MarkFailed, CancelTask,
\* the claim and the reaper all test the status they leave.
TerminalIsFinal ==
    [][\A t \in Tasks :
          status[t] \in Terminal =>
            \/ status'[t] = status[t] /\ output'[t] = output[t]
            \/ status'[t] = "deleted"]_vars

\* Until a heartbeat lapses, a task has one live executor at most, over all workers
\* and through crashes, restarts, shutdowns, lost claims and lost marks: its stages
\* delete and rebuild the lesson's data and must not run twice at once.
AtMostOneExecution ==
    lapses = 0 =>
        \A t \in Tasks : \A d, e \in Claims : Live(t, d) /\ Live(t, e) => d = e

\* Until a heartbeat lapses, every live goroutine is the one its worker tracks, so
\* it is heartbeated and a cancellation can reach it (worker.go: active).
LiveIsTracked ==
    lapses = 0 =>
        \A t \in Tasks, e \in Claims : Live(t, e) => active[claimer[t][e]][t] = e

\* While no heartbeat lapses, a goroutine whose row was cancelled, deleted or taken
\* over is stopped, because its heartbeat affects no row.
LostRunStops ==
    \A t \in Tasks, e \in Claims :
        (pc[t][e] = "running" /\ ~Owns(t, claimer[t][e])) ~> (pc[t][e] # "running")

\* A task that is submitted gets concluded (or is deleted with its lesson): lost
\* notifications, crashed workers, lost claims and lost marks are all recovered from.
SubmittedIsConcluded ==
    \A t \in Tasks :
        (status[t] = "inqueued") ~> (status[t] \in Terminal \union {"deleted"})

\* The queue implements the abstract lease.
PhaseOf(s) ==
    CASE s = "inqueued" -> "waiting"
      [] s = "processing" -> "leased"
      [] s = "deleted" -> "dropped"
      [] OTHER -> s

LeasePhase == [t \in Tasks |-> PhaseOf(status[t])]

Lease == INSTANCE TaskLease
            WITH phase <- LeasePhase, holder <- workerID, saved <- output

\* Every step of the table, the workers, the goroutines and the scanner is a step of
\* TaskLease or leaves the lease alone.
ImplementsLease == Lease!Spec
================================================================================
