--------------------------- MODULE TaskQueueExecution ---------------------------
(***************************************************************************)
(* While heartbeats are kept, a task runs once at a time and its worker    *)
(* can reach it: proved for every set of tasks and workers and every value *)
(* of the bounds.                                                          *)
(*                                                                         *)
(* Neither property is inductive.  A second execution needs a claim, the   *)
(* claim a row that was taken back, and a row is taken back only when its  *)
(* heartbeat grew stale; so the invariant has to tie a goroutine that has  *)
(* not left its process to its row, its claim and its entry of `active',   *)
(* and every entry and every pair the heartbeat loop holds to a goroutine. *)
(***************************************************************************)
EXTENDS TaskQueueProofs

\* Over for good: no statement makes the row 'processing' again.
Concluded(t) == status[t] \in Terminal \union {"deleted"}

\* The goroutine has not left its process, which still sends heartbeats.
Busy(t, e) == pc[t][e] \in {"running", "exiting"} /\ proc[claimer[t][e]] = "up"

\* A goroutine was started by a worker that had booted.
ClaimersStarted ==
    \A t \in Tasks, e \in Claims :
        pc[t][e] # "none" => claimer[t][e] \in Workers /\ proc[claimer[t][e]] # "unborn"

\* Shutdown and Crash leave no live goroutine behind.
LiveIsUp == \A t \in Tasks, e \in Claims : Live(t, e) => proc[claimer[t][e]] = "up"

\* The goroutine of the latest claim only is busy, and unless its row is concluded it
\* owns the row, keeps its heartbeat fresh and has the entry of `active'.
BusyIsTended ==
    \A t \in Tasks, e \in Claims :
        Busy(t, e) =>
            /\ e = claims[t]
            /\ \/ Concluded(t)
               \/ /\ Owns(t, claimer[t][e])
                  /\ heartbeat[t] = "fresh"
                  /\ active[claimer[t][e]][t] = e

\* An entry of `active' is that of a busy goroutine of the same worker.
EntriesAreBusy ==
    \A w \in Workers, t \in Tasks, e \in Claims :
        proc[w] = "up" /\ active[w][t] = e => claimer[t][e] = w /\ Busy(t, e)

\* What a heartbeat loop is about to cancel has lost its row for good.
LosingIsConcluded ==
    \A w \in Workers, t \in Tasks, e \in Claims :
        losing[w] = <<t, e>> => Concluded(t) /\ e = claims[t]

\* LiveIsTracked without its premise.
Tracked == \A t \in Tasks, e \in Claims : Live(t, e) => active[claimer[t][e]][t] = e

\* What holds of goroutines as long as no heartbeat has lapsed.
Attended == BusyIsTended /\ EntriesAreBusy /\ LosingIsConcluded /\ Tracked

\* The inductive invariant.
ExecutionInv ==
    OwnershipInv /\ ClaimersStarted /\ LiveIsUp /\ (lapses = 0 => Attended)

--------------------------------------------------------------------------------
(* Steps that start, end and move no goroutine. *)

\* One entry of a table of tables changes, the others stay.
LEMMA EntryChanged ==
    ASSUME NEW A, NEW B, NEW S, NEW f \in [A -> [B -> S]], NEW a, NEW b, NEW s,
           NEW g, g = [f EXCEPT ![a][b] = s]
    PROVE  \A x \in A, y \in B : /\ x = a /\ y = b => g[x][y] = s
                                 /\ ~(x = a /\ y = b) => g[x][y] = f[x][y]
BY EntryRead

\* The tables of tables of the model.
LEMMA Tables ==
    ASSUME TypeOK
    PROVE  /\ pc \in [Tasks -> [Claims -> {"none", "running", "exiting", "gone"}]]
           /\ claimer \in [Tasks -> [Claims -> Workers \union {NoWorker}]]
           /\ cancelled \in [Tasks -> [Claims -> BOOLEAN]]
           /\ active \in [Workers -> [Tasks -> 0..MaxClaims]]
BY DEF TypeOK, Types, RunTypes, ProcTypes

\* A concluded row stays concluded.
LEMMA ConcludedStays ==
    ASSUME TypeOK, [Next]_vars, NEW t \in Tasks, Concluded(t)
    PROVE  Concluded(t)'
<1>1. status[t] \notin {"absent", "inqueued", "processing"}
  BY DEF Concluded, Terminal
<1>2. ASSUME NEW u \in Tasks, UserStep(u) \/ ScannerStep(u)
      PROVE  Concluded(t)'
  BY <1>1, <1>2 DEF UserStep, InsertTask, CancelTask, DeleteTask, ScannerStep, HeartbeatAges,
        ReapStaleProcessing, RequeueOrphanedInqueued, ReleaseRow, Concluded, Terminal,
        TypeOK, Types, TableTypes
<1>3. ASSUME NEW w \in Workers, ProcessStep(w)
      PROVE  Concluded(t)'
  <2>1. CASE \E u \in Tasks : Claim(w, u) \/ ClaimLost(w, u)
    <3>1. PICK u \in Tasks : ClaimRow(w, u)
      BY <2>1 DEF Claim, ClaimLost
    <3>2. status[u] = "inqueued"
      BY <3>1, ClaimedWasInqueued
    <3> QED
      BY <1>1, <3>1, <3>2 DEF ClaimRow, Concluded
  <2>2. CASE \/ Boot(w) \/ Shutdown(w) \/ Drained(w) \/ Crash(w) \/ LoseTask(w)
             \/ \E u \in Tasks : HeartbeatTask(w, u)
    BY <2>2 DEF Boot, Shutdown, Drained, Crash, LoseTask, HeartbeatTask, tableVars, Concluded
  <2> QED
    BY <1>3, <2>1, <2>2 DEF ProcessStep
<1>4. ASSUME NEW u \in Tasks, NEW e \in Claims, ExecutorStep(u, e)
      PROVE  Concluded(t)'
  BY <1>1, <1>4 DEF ExecutorStep, SetTaskCheckpoint, CheckpointLost, UpdateTaskProgress,
        MarkSucceeded, MarkFailed, MarkLost, Abort, Exit, Owns, ReleaseRow, Concluded, Terminal,
        tableVars, TypeOK, Types, TableTypes
<1>5. CASE UNCHANGED vars
  BY <1>5 DEF vars, tableVars, Concluded
<1> QED
  BY <1>2, <1>3, <1>4, <1>5 DEF Next

\* A step of the table, or one by which runTask returns: it keeps the invariant if it
\* takes no row from a busy goroutine without concluding it.
LEMMA RowStep ==
    ASSUME OwnershipInv, ClaimersStarted, LiveIsUp,
           UNCHANGED <<procVars, claimer, claims>>,
           \A t \in Tasks, e \in Claims :
               /\ pc'[t][e] # "none" => pc[t][e] # "none"
               /\ pc'[t][e] \in {"running", "exiting"} => pc[t][e] \in {"running", "exiting"}
               /\ pc[t][e] \in {"running", "exiting"} => pc'[t][e] \in {"running", "exiting"}
               /\ Live(t, e)' => Live(t, e),
           \A t \in Tasks : Concluded(t) => Concluded(t)',
           Attended =>
             \A t \in Tasks, e \in Claims :
               Busy(t, e) /\ Owns(t, claimer[t][e]) /\ heartbeat[t] = "fresh" =>
                 \/ Concluded(t)'
                 \/ Owns(t, claimer[t][e])' /\ heartbeat'[t] = "fresh"
    PROVE  ClaimersStarted' /\ LiveIsUp' /\ (Attended => Attended')
<1>1. proc' = proc /\ active' = active /\ losing' = losing /\ claimer' = claimer /\ claims' = claims
  BY DEF procVars
<1>2. ClaimersStarted' /\ LiveIsUp'
  BY <1>1 DEF ClaimersStarted, LiveIsUp
<1>3. ASSUME Attended
      PROVE  Attended'
  <2>1. \A t \in Tasks, e \in Claims : Busy(t, e)' <=> Busy(t, e)
    BY <1>1 DEF Busy
  <2>2. BusyIsTended'
    BY <1>1, <1>3, <2>1 DEF Attended, BusyIsTended
  <2>3. EntriesAreBusy'
    BY <1>1, <1>3, <2>1 DEF Attended, EntriesAreBusy
  <2>4. LosingIsConcluded'
    BY <1>1, <1>3 DEF Attended, LosingIsConcluded
  <2>5. Tracked'
    BY <1>1, <1>3 DEF Attended, Tracked
  <2> QED
    BY <2>2, <2>3, <2>4, <2>5 DEF Attended
<1> QED
  BY <1>2, <1>3

\* A user ends an execution by concluding its row, and the scanner takes a row only when
\* its heartbeat grew stale.
LEMMA UserScannerStepExecution ==
    ASSUME ExecutionInv, [Next]_vars, NEW t \in Tasks, UserStep(t) \/ ScannerStep(t)
    PROVE  ClaimersStarted' /\ LiveIsUp' /\ (lapses' = 0 => Attended')
<1> USE DEF ExecutionInv
<1>1. TypeOK
  BY DEF OwnershipInv
<1>2. UNCHANGED <<procVars, claimer, claims, pc, cancelled>>
  BY DEF UserStep, InsertTask, CancelTask, DeleteTask, ScannerStep, HeartbeatAges,
         ReapStaleProcessing, RequeueOrphanedInqueued, runVars, boundVars
<1>3. \A u \in Tasks : Concluded(u) => Concluded(u)'
  BY <1>1, ConcludedStays
<1>4. CASE ~HeartbeatAges(t)
  <2>1. lapses' = lapses
    BY <1>4 DEF UserStep, InsertTask, CancelTask, DeleteTask, ScannerStep,
                ReapStaleProcessing, RequeueOrphanedInqueued, boundVars
  <2>2. \A u \in Tasks :
          status[u] = "processing" /\ heartbeat[u] = "fresh" =>
            \/ Concluded(u)'
            \/ UNCHANGED <<status[u], workerID[u], heartbeat[u]>>
    BY <1>1, <1>4 DEF UserStep, InsertTask, CancelTask, DeleteTask, ScannerStep,
         ReapStaleProcessing, RequeueOrphanedInqueued, ReleaseRow, Concluded, Terminal,
         TypeOK, Types, TableTypes
  <2>3. ClaimersStarted' /\ LiveIsUp' /\ (Attended => Attended')
    BY <1>2, <1>3, <2>2, RowStep DEF Live, Owns
  <2> QED
    BY <2>1, <2>3
<1>5. CASE HeartbeatAges(t)
  <2>1. /\ status' = status /\ workerID' = workerID
        /\ \A u \in Tasks \ {t} : heartbeat'[u] = heartbeat[u]
        /\ status[t] = "processing"
    BY <1>1, <1>5 DEF HeartbeatAges, TypeOK, Types, TableTypes
  <2>2. CASE Untended(t) /\ UNCHANGED lapses
    <3>1. ASSUME Attended, NEW e \in Claims, Busy(t, e), Owns(t, claimer[t][e])
          PROVE  FALSE
      <4>1. proc[workerID[t]] = "up" /\ workerID[t] = claimer[t][e]
        BY <3>1 DEF Busy, Owns
      <4>2. active[workerID[t]][t] = e
        BY <2>1, <3>1, <4>1 DEF Attended, BusyIsTended, Concluded, Terminal
      <4> QED
        BY <2>2, <4>1, <4>2 DEF Untended, Claims
    <3>2. Attended =>
            \A u \in Tasks, e \in Claims :
               Busy(u, e) /\ Owns(u, claimer[u][e]) /\ heartbeat[u] = "fresh" =>
                 \/ Concluded(u)'
                 \/ Owns(u, claimer[u][e])' /\ heartbeat'[u] = "fresh"
      BY <1>2, <2>1, <3>1 DEF Owns
    <3> QED
      BY <1>2, <1>3, <2>2, <3>2, RowStep DEF Live
  <2>3. CASE lapses' = lapses + 1
    <3>1. lapses' # 0
      BY <1>1, <2>3, ConstantsAssumption DEF TypeOK, Types, BoundTypes
    <3>2. ClaimersStarted' /\ LiveIsUp'
      BY <1>2 DEF ClaimersStarted, LiveIsUp, Live, procVars
    <3> QED
      BY <3>1, <3>2
  <2> QED
    BY <1>5, <2>2, <2>3 DEF HeartbeatAges
<1> QED
  BY <1>4, <1>5

\* A goroutine's own steps: the writes it makes leave a row it owns to it or conclude it,
\* and its exit deletes no other busy goroutine's entry.
LEMMA ExecutorStepExecution ==
    ASSUME ExecutionInv, [Next]_vars, NEW t \in Tasks, NEW e \in Claims, ExecutorStep(t, e)
    PROVE  ClaimersStarted' /\ LiveIsUp' /\ (lapses' = 0 => Attended')
<1> USE DEF ExecutionInv
<1>1. TypeOK
  BY DEF OwnershipInv
<1>2. \A u \in Tasks : Concluded(u) => Concluded(u)'
  BY <1>1, ConcludedStays
<1>3. UNCHANGED <<proc, losing, claimer, claims, lapses>>
  BY DEF ExecutorStep, SetTaskCheckpoint, CheckpointLost, UpdateTaskProgress,
         MarkSucceeded, MarkFailed, MarkLost, Abort, Exit, procVars, runVars, boundVars
<1>4. CASE ~Exit(t, e)
  <2>1. /\ UNCHANGED <<procVars, cancelled>>
        /\ pc' = pc \/ (pc[t][e] = "running" /\ pc' = [pc EXCEPT ![t][e] = "exiting"])
    BY <1>4 DEF ExecutorStep, SetTaskCheckpoint, CheckpointLost, UpdateTaskProgress,
         MarkSucceeded, MarkFailed, MarkLost, Abort, Return, Live, runVars
  <2>2. \A u \in Tasks, d \in Claims :
          pc'[u][d] = pc[u][d] \/ (pc[u][d] = "running" /\ pc'[u][d] = "exiting")
    <3>1. CASE pc[t][e] = "running" /\ pc' = [pc EXCEPT ![t][e] = "exiting"]
      <4>1. \A u \in Tasks, d \in Claims :
              /\ u = t /\ d = e => pc'[u][d] = "exiting"
              /\ ~(u = t /\ d = e) => pc'[u][d] = pc[u][d]
        BY <1>1, <3>1, Tables, EntryChanged
      <4> QED
        BY <3>1, <4>1
    <3> QED
      BY <2>1, <3>1
  <2>3. \A u \in Tasks :
          status[u] = "processing" /\ heartbeat[u] = "fresh" =>
            \/ Concluded(u)'
            \/ UNCHANGED <<status[u], workerID[u], heartbeat[u]>>
    BY <1>1, <1>4 DEF ExecutorStep, SetTaskCheckpoint, CheckpointLost, UpdateTaskProgress,
         MarkSucceeded, MarkFailed, MarkLost, Abort, ReleaseRow, Concluded, Terminal,
         tableVars, TypeOK, Types, TableTypes
  <2>4. \A u \in Tasks, d \in Claims : Live(u, d)' => Live(u, d)
    BY <2>1, <2>2 DEF Live
  <2>5. Attended =>
          \A u \in Tasks, d \in Claims :
             Busy(u, d) /\ Owns(u, claimer[u][d]) /\ heartbeat[u] = "fresh" =>
               \/ Concluded(u)'
               \/ Owns(u, claimer[u][d])' /\ heartbeat'[u] = "fresh"
    BY <1>3, <2>3 DEF Owns
  <2>6. \A u \in Tasks, d \in Claims :
          /\ pc'[u][d] # "none" => pc[u][d] # "none"
          /\ pc'[u][d] \in {"running", "exiting"} => pc[u][d] \in {"running", "exiting"}
          /\ pc[u][d] \in {"running", "exiting"} => pc'[u][d] \in {"running", "exiting"}
          /\ Live(u, d)' => Live(u, d)
    BY <2>2, <2>4
  <2>7. ClaimersStarted' /\ LiveIsUp' /\ (Attended => Attended')
    BY <1>2, <1>3, <2>1, <2>5, <2>6, RowStep
  <2> QED
    BY <1>3, <2>7
<1>5. CASE Exit(t, e)
  <2>1. \A u \in Tasks, d \in Claims :
          /\ u = t /\ d = e => pc'[u][d] = "gone"
          /\ ~(u = t /\ d = e) => pc'[u][d] = pc[u][d] /\ cancelled'[u][d] = cancelled[u][d]
    <3>1. /\ pc' = [pc EXCEPT ![t][e] = "gone"]
          /\ cancelled' = [cancelled EXCEPT ![t][e] = FALSE]
      BY <1>5 DEF Exit
    <3>2. \A u \in Tasks, d \in Claims :
            /\ u = t /\ d = e => pc'[u][d] = "gone"
            /\ ~(u = t /\ d = e) => pc'[u][d] = pc[u][d]
      BY <1>1, <3>1, Tables, EntryChanged
    <3>3. \A u \in Tasks, d \in Claims :
            ~(u = t /\ d = e) => cancelled'[u][d] = cancelled[u][d]
      BY <1>1, <3>1, Tables, EntryChanged
    <3> QED
      BY <3>2, <3>3
  <2>2. \A w \in Workers, u \in Tasks :
          /\ w = claimer[t][e] /\ u = t => active'[w][u] = 0
          /\ ~(w = claimer[t][e] /\ u = t) => active'[w][u] = active[w][u]
    <3>1. active' = [active EXCEPT ![claimer[t][e]][t] = 0]
      BY <1>5 DEF Exit
    <3> QED
      BY <1>1, <3>1, Tables, EntryChanged
  <2>3. pc[t][e] = "exiting" /\ status' = status /\ workerID' = workerID /\ heartbeat' = heartbeat
    BY <1>5 DEF Exit, tableVars
  <2>4. ClaimersStarted'
    BY <1>3, <2>1, <2>3 DEF ClaimersStarted
  <2>5. LiveIsUp'
    BY <1>3, <2>1 DEF LiveIsUp, Live
  <2>6. ASSUME lapses = 0
        PROVE  Attended'
    <3>1. \A u \in Tasks, d \in Claims : Busy(u, d)' <=> Busy(u, d) /\ ~(u = t /\ d = e)
      BY <1>3, <2>1 DEF Busy
    <3>2. \A u \in Tasks, d \in Claims : Busy(u, d) => claimer[u][d] \in Workers
      BY DEF Busy, ClaimersStarted
    <3>3. ASSUME NEW d \in Claims, d # e, Busy(t, d)
          PROVE  claimer[t][d] # claimer[t][e]
      <4>1. claimer[t][d] = claimer[t][e] => Busy(t, e)
        BY <2>3, <3>3 DEF Busy
      <4> QED
        BY <2>6, <3>3, <4>1 DEF Attended, BusyIsTended
    <3>4. \A u \in Tasks, d \in Claims :
            Busy(u, d)' => active'[claimer[u][d]][u] = active[claimer[u][d]][u]
      BY <2>2, <3>1, <3>2, <3>3
    <3>5. BusyIsTended'
      BY <1>3, <2>3, <2>6, <3>1, <3>4 DEF Attended, BusyIsTended, Owns, Concluded
    <3>6. EntriesAreBusy'
      BY <1>3, <2>2, <2>6, <3>1 DEF Attended, EntriesAreBusy, Claims
    <3>7. LosingIsConcluded'
      BY <1>2, <1>3, <2>6 DEF Attended, LosingIsConcluded
    <3>8. Tracked'
      <4>1. \A u \in Tasks, d \in Claims : Live(u, d)' => Live(u, d) /\ Busy(u, d)'
        BY <2>1, <1>3, <3>1 DEF Live, Busy, LiveIsUp
      <4> QED
        BY <1>3, <2>6, <3>4, <4>1 DEF Attended, Tracked
    <3> QED
      BY <3>5, <3>6, <3>7, <3>8 DEF Attended
  <2> QED
    BY <1>3, <2>4, <2>5, <2>6
<1> QED
  BY <1>4, <1>5


--------------------------------------------------------------------------------
(* Steps of the worker processes. *)

\* A claim takes an inqueued row, so no goroutine of the task is busy: the new one is
\* its only one, and the entry it stores overwrites none.
LEMMA ClaimExecution ==
    ASSUME ExecutionInv, [Next]_vars, NEW w \in Workers, NEW t \in Tasks,
           Claim(w, t) \/ ClaimLost(w, t)
    PROVE  ClaimersStarted' /\ LiveIsUp' /\ (lapses' = 0 => Attended')
<1> USE DEF ExecutionInv
<1>1. TypeOK /\ RunsWereClaimed
  BY DEF OwnershipInv
<1>2. ClaimRow(w, t) /\ status[t] = "inqueued"
  BY <1>1, ClaimedWasInqueued DEF Claim, ClaimLost
<1>3. PICK n \in Claims : n = claims[t] + 1 /\ claims[t] \in Nat
  BY <1>1, <1>2, ClaimRowTypes, ConstantsAssumption DEF TypeOK, Types, BoundTypes
<1>4. pc[t][n] = "none"
  <2>1. claims[t] < n
    BY <1>3
  <2> QED
    BY <1>1, <1>3, <2>1 DEF RunsWereClaimed, Claims
<1>5. proc[w] = "up" /\ proc' = proc /\ losing' = losing /\ lapses' = lapses
  BY <1>2 DEF ClaimRow
<1>6. \A u \in Tasks, d \in Claims :
        /\ u = t /\ d = n => claimer'[u][d] = w
        /\ ~(u = t /\ d = n) => claimer'[u][d] = claimer[u][d]
  <2>1. claimer' = [claimer EXCEPT ![t][n] = w]
    BY <1>2, <1>3 DEF ClaimRow
  <2> QED
    BY <1>1, <2>1, Tables, EntryChanged
<1>7. /\ claims'[t] = n
      /\ \A u \in Tasks \ {t} : claims'[u] = claims[u]
      /\ status'[t] = "processing" /\ workerID'[t] = w /\ heartbeat'[t] = "fresh"
      /\ \A u \in Tasks \ {t} : UNCHANGED <<status[u], workerID[u], heartbeat[u]>>
  BY <1>1, <1>2, <1>3 DEF ClaimRow, TypeOK, Types, BoundTypes, TableTypes
<1>8. CASE ClaimLost(w, t)
  <2>1. UNCHANGED <<pc, cancelled, active>>
    BY <1>8 DEF ClaimLost
  <2>2. \A u \in Tasks, d \in Claims : pc[u][d] # "none" => ~(u = t /\ d = n)
    BY <1>4
  <2>3. ClaimersStarted'
    BY <1>5, <1>6, <2>1, <2>2 DEF ClaimersStarted
  <2>4. LiveIsUp'
    BY <1>5, <1>6, <2>1, <2>2 DEF LiveIsUp, Live
  <2>5. ASSUME lapses = 0
        PROVE  Attended'
    <3>1. \A d \in Claims : ~Busy(t, d)
      BY <1>2, <2>5 DEF Attended, BusyIsTended, Owns, Concluded, Terminal
    <3>2. \A u \in Tasks, d \in Claims :
            Busy(u, d)' <=> Busy(u, d)
      BY <1>5, <1>6, <2>1, <2>2 DEF Busy
    <3>3. BusyIsTended'
      <4>1. \A u \in Tasks, d \in Claims : Busy(u, d)' =>
              u # t /\ claimer'[u][d] = claimer[u][d] /\ Busy(u, d)
        BY <1>6, <3>1, <3>2
      <4>2. \A u \in Tasks \ {t} : Concluded(u) => Concluded(u)'
        BY <1>7 DEF Concluded
      <4> QED
        BY <1>7, <2>1, <2>5, <4>1, <4>2 DEF Attended, BusyIsTended, Owns
    <3>4. EntriesAreBusy'
      BY <1>5, <1>6, <2>1, <2>2, <2>5, <3>2 DEF Attended, EntriesAreBusy, Busy
    <3>5. LosingIsConcluded'
      BY <1>2, <1>5, <1>7, <2>5 DEF Attended, LosingIsConcluded, Concluded, Terminal
    <3>6. Tracked'
      BY <1>6, <2>1, <2>2, <2>5 DEF Attended, Tracked, Live
    <3> QED
      BY <3>3, <3>4, <3>5, <3>6 DEF Attended
  <2> QED
    BY <1>5, <2>3, <2>4, <2>5
<1>9. CASE Claim(w, t)
  <2>1. \A u \in Tasks, d \in Claims :
          /\ u = t /\ d = n => pc'[u][d] = "running"
          /\ ~(u = t /\ d = n) => pc'[u][d] = pc[u][d]
    <3>1. pc' = [pc EXCEPT ![t][n] = "running"]
      BY <1>3, <1>9 DEF Claim, SpawnTask
    <3> QED
      BY <1>1, <3>1, Tables, EntryChanged
  <2>2. \A u \in Tasks, d \in Claims :
          ~(u = t /\ d = n) => cancelled'[u][d] = cancelled[u][d]
    <3>1. cancelled' = [cancelled EXCEPT ![t][n] = FALSE]
      BY <1>3, <1>9 DEF Claim, SpawnTask
    <3> QED
      BY <1>1, <3>1, Tables, EntryChanged
  <2>3. \A v \in Workers, u \in Tasks :
          /\ v = w /\ u = t => active'[v][u] = n
          /\ ~(v = w /\ u = t) => active'[v][u] = active[v][u]
    <3>1. active' = [active EXCEPT ![w][t] = n]
      BY <1>3, <1>9 DEF Claim, SpawnTask
    <3> QED
      BY <1>1, <3>1, Tables, EntryChanged
  <2>4. ClaimersStarted'
    BY <1>5, <1>6, <2>1 DEF ClaimersStarted
  <2>5. LiveIsUp'
    BY <1>5, <1>6, <2>1, <2>2 DEF LiveIsUp, Live
  <2>6. ASSUME lapses = 0
        PROVE  Attended'
    <3>1. \A d \in Claims : ~Busy(t, d)
      BY <1>2, <2>6 DEF Attended, BusyIsTended, Owns, Concluded, Terminal
    <3>2. /\ \A u \in Tasks, d \in Claims : u # t => (Busy(u, d)' <=> Busy(u, d))
          /\ \A d \in Claims : Busy(t, d)' => d = n
          /\ Busy(t, n)'
      <4>1. \A u \in Tasks, d \in Claims : u # t => (Busy(u, d)' <=> Busy(u, d))
        BY <1>5, <1>6, <2>1 DEF Busy
      <4>2. \A d \in Claims : Busy(t, d)' => d = n
        BY <1>5, <1>6, <2>1, <3>1 DEF Busy
      <4>3. Busy(t, n)'
        <5>1. pc'[t][n] = "running" /\ claimer'[t][n] = w
          BY <1>3, <1>6, <2>1
        <5> QED
          BY <1>5, <5>1 DEF Busy
      <4> QED
        BY <4>1, <4>2, <4>3
    <3>3. \A u \in Tasks, d \in Claims : Busy(u, d) => claimer[u][d] \in Workers
      BY DEF Busy, ClaimersStarted
    <3>4. BusyIsTended'
      <4>1. ASSUME NEW u \in Tasks, NEW d \in Claims, Busy(u, d)', u = t
            PROVE  d = claims'[u] /\ Owns(u, claimer[u][d])' /\ heartbeat'[u] = "fresh"
                     /\ active'[claimer'[u][d]][u] = d
        BY <1>3, <1>6, <1>7, <2>3, <3>2, <4>1 DEF Owns
      <4>2. ASSUME NEW u \in Tasks, NEW d \in Claims, Busy(u, d)', u # t
            PROVE  /\ d = claims'[u]
                   /\ \/ Concluded(u)'
                      \/ /\ Owns(u, claimer[u][d])' /\ heartbeat'[u] = "fresh"
                         /\ active'[claimer'[u][d]][u] = d
        <5>1. Busy(u, d) /\ claimer[u][d] \in Workers /\ claimer'[u][d] = claimer[u][d]
          BY <1>6, <3>2, <3>3, <4>2
        <5>2. active'[claimer[u][d]][u] = active[claimer[u][d]][u]
          BY <2>3, <4>2, <5>1
        <5> QED
          BY <1>7, <2>6, <4>2, <5>1, <5>2 DEF Attended, BusyIsTended, Owns, Concluded
      <4> QED
        BY <4>1, <4>2 DEF BusyIsTended
    <3>5. EntriesAreBusy'
      <4>1. ASSUME NEW v \in Workers, NEW u \in Tasks, NEW d \in Claims,
                   proc'[v] = "up", active'[v][u] = d
            PROVE  claimer'[u][d] = v /\ Busy(u, d)'
        <5>1. CASE v = w /\ u = t
          <6>1. d = n /\ u = t /\ v = w
            BY <2>3, <4>1, <5>1
          <6>2. claimer'[t][n] = w
            BY <1>3, <1>6
          <6> QED
            BY <3>2, <6>1, <6>2
        <5>2. CASE ~(v = w /\ u = t)
          <6>1. claimer[u][d] = v /\ Busy(u, d)
            BY <1>5, <2>3, <2>6, <4>1, <5>2 DEF Attended, EntriesAreBusy
          <6>2. u # t
            BY <3>1, <6>1
          <6> QED
            BY <1>6, <3>2, <6>1, <6>2
        <5> QED
          BY <5>1, <5>2
      <4> QED
        BY <4>1 DEF EntriesAreBusy
    <3>6. LosingIsConcluded'
      BY <1>2, <1>5, <1>7, <2>6 DEF Attended, LosingIsConcluded, Concluded, Terminal
    <3>7. Tracked'
      <4>1. \A u \in Tasks, d \in Claims : Live(u, d)' =>
              \/ u = t /\ d = n
              \/ u # t /\ Live(u, d) /\ Busy(u, d)
        <5>1. \A u \in Tasks, d \in Claims : Live(u, d)' /\ ~(u = t /\ d = n) => Live(u, d)
          BY <2>1, <2>2 DEF Live
        <5>2. \A u \in Tasks, d \in Claims : Live(u, d) => Busy(u, d)
          BY DEF LiveIsUp, Live, Busy
        <5> QED
          BY <3>1, <5>1, <5>2
      <4> QED
        BY <1>3, <1>6, <2>3, <2>6, <3>3, <4>1 DEF Attended, Tracked
    <3> QED
      BY <3>4, <3>5, <3>6, <3>7 DEF Attended
  <2> QED
    BY <1>5, <2>4, <2>5, <2>6
<1> QED
  BY <1>8, <1>9

\* A process that starts reconnects nothing and starts with no entry.
LEMMA BootExecution ==
    ASSUME ExecutionInv, NEW w \in Workers, Boot(w)
    PROVE  ClaimersStarted' /\ LiveIsUp' /\ (lapses' = 0 => Attended')
<1> USE DEF ExecutionInv
<1>1. TypeOK
  BY DEF OwnershipInv
<1>2. ReconnectCandidates(w) = {}
  BY NothingToReconnect DEF Boot
<1>3. /\ UNCHANGED <<tableVars, losing, claims, lapses>>
      /\ proc[w] = "unborn" /\ proc'[w] = "up"
      /\ \A v \in Workers \ {w} : proc'[v] = proc[v]
  BY <1>1 DEF Boot, boundVars, TypeOK, Types, ProcTypes
<1>4. \A u \in Tasks, d \in Claims :
        /\ pc'[u][d] = pc[u][d]
        /\ claimer'[u][d] = claimer[u][d]
        /\ cancelled'[u][d] <=> cancelled[u][d]
  BY <1>2 DEF Boot
<1>5. \A v \in Workers \ {w}, u \in Tasks : active'[v][u] = active[v][u]
  BY <1>1 DEF Boot, TypeOK, Types, ProcTypes
<1>6. \A u \in Tasks : active'[w][u] = 0
  <2>1. active'[w] = [u \in Tasks |-> 0]
    BY <1>1, <1>2 DEF Boot, TypeOK, Types, ProcTypes
  <2> QED
    BY <2>1
<1>7. ClaimersStarted'
  BY <1>3, <1>4 DEF ClaimersStarted
<1>8. \A u \in Tasks, d \in Claims :
        pc[u][d] # "none" => claimer[u][d] \in Workers \ {w}
  BY <1>3 DEF ClaimersStarted
<1>9. LiveIsUp'
  <2>1. \A u \in Tasks, d \in Claims : Live(u, d)' =>
          Live(u, d) /\ claimer[u][d] \in Workers \ {w}
    BY <1>4, <1>8 DEF Live
  <2> QED
    BY <1>3, <1>4, <2>1 DEF LiveIsUp
<1>10. ASSUME lapses = 0
       PROVE  Attended'
  <2>1. \A u \in Tasks, d \in Claims :
          /\ Busy(u, d)' <=> Busy(u, d)
          /\ Busy(u, d) => claimer[u][d] \in Workers \ {w}
    BY <1>3, <1>4, <1>8 DEF Busy
  <2>2. UNCHANGED <<status, workerID, heartbeat>>
    BY <1>3 DEF tableVars
  <2>3. BusyIsTended'
    BY <1>3, <1>4, <1>5, <1>10, <2>1, <2>2 DEF Attended, BusyIsTended, Owns, Concluded
  <2>4. EntriesAreBusy'
    BY <1>3, <1>4, <1>5, <1>6, <1>10, <2>1 DEF Attended, EntriesAreBusy, Claims
  <2>5. LosingIsConcluded'
    BY <1>3, <1>10, <2>2 DEF Attended, LosingIsConcluded, Concluded
  <2>6. Tracked'
    BY <1>4, <1>5, <1>8, <1>10 DEF Attended, Tracked, Live
  <2> QED
    BY <2>3, <2>4, <2>5, <2>6 DEF Attended
<1> QED
  BY <1>3, <1>7, <1>9, <1>10

\* A worker that stops takes all of its goroutines with it: what is busy afterwards is
\* another worker's.
LEMMA StopExecution ==
    ASSUME ExecutionInv, NEW w \in Workers, Shutdown(w) \/ Drained(w) \/ Crash(w)
    PROVE  ClaimersStarted' /\ LiveIsUp' /\ (lapses' = 0 => Attended')
<1> USE DEF ExecutionInv
<1>1. TypeOK
  BY DEF OwnershipInv
<1>2. /\ UNCHANGED <<tableVars, claimer, claims, lapses>>
      /\ proc[w] \in {"up", "draining"} /\ proc'[w] \in {"draining", "down"}
      /\ \A v \in Workers \ {w} : proc'[v] = proc[v]
  BY <1>1 DEF Shutdown, Drained, Crash, boundVars, runVars, TypeOK, Types, ProcTypes
<1>3. \A v \in Workers \ {w} : active'[v] = active[v] /\ losing'[v] = losing[v]
  BY <1>1 DEF Shutdown, Drained, Crash, TypeOK, Types, ProcTypes
<1>4. losing'[w] = losing[w] \/ losing'[w] = NotLosing
  BY <1>1 DEF Shutdown, Drained, Crash, TypeOK, Types, ProcTypes
<1>5. \A u \in Tasks, d \in Claims :
        /\ pc'[u][d] # "none" => pc[u][d] # "none"
        /\ claimer[u][d] # w => pc'[u][d] = pc[u][d] /\ (cancelled'[u][d] <=> cancelled[u][d])
        /\ claimer[u][d] = w => ~Live(u, d)'
  <2>1. CASE Shutdown(w)
    BY <1>2, <2>1 DEF Shutdown, Live
  <2>2. CASE Crash(w)
    <3>1. \A u \in Tasks, d \in Claims :
            /\ claimer[u][d] = w /\ pc[u][d] \in {"running", "exiting"} => pc'[u][d] = "gone"
            /\ ~(claimer[u][d] = w /\ pc[u][d] \in {"running", "exiting"}) =>
                    pc'[u][d] = pc[u][d] /\ (cancelled'[u][d] <=> cancelled[u][d])
      BY <2>2 DEF Crash
    <3> QED
      BY <1>2, <3>1 DEF Live
  <2>3. CASE Drained(w)
    BY <2>3 DEF Drained, runVars, Live
  <2> QED
    BY <2>1, <2>2, <2>3
<1>6. ClaimersStarted'
  BY <1>2, <1>5 DEF ClaimersStarted
<1>7. \A u \in Tasks, d \in Claims :
        Live(u, d)' => Live(u, d) /\ claimer[u][d] \in Workers \ {w}
  <2>1. \A u \in Tasks, d \in Claims : Live(u, d)' => claimer[u][d] # w
    BY <1>5
  <2>2. \A u \in Tasks, d \in Claims : Live(u, d)' => Live(u, d)
    BY <1>5, <2>1 DEF Live
  <2>3. \A u \in Tasks, d \in Claims : Live(u, d) => claimer[u][d] \in Workers
    BY DEF Live, ClaimersStarted
  <2> QED
    BY <2>1, <2>2, <2>3
<1>8. LiveIsUp'
  BY <1>2, <1>7 DEF LiveIsUp
<1>9. ASSUME lapses = 0
      PROVE  Attended'
  <2>1. \A u \in Tasks, d \in Claims :
          Busy(u, d)' <=> Busy(u, d) /\ claimer[u][d] # w
    <3>1. \A u \in Tasks, d \in Claims : claimer[u][d] = w => ~Busy(u, d)'
      BY <1>2 DEF Busy
    <3>2. \A u \in Tasks, d \in Claims : pc'[u][d] # "none" => claimer[u][d] \in Workers
      BY <1>5 DEF ClaimersStarted
    <3>3. \A u \in Tasks, d \in Claims : pc[u][d] # "none" => claimer[u][d] \in Workers
      BY DEF ClaimersStarted
    <3> QED
      BY <1>2, <1>5, <3>1, <3>2, <3>3 DEF Busy
  <2>2. \A u \in Tasks, d \in Claims : Busy(u, d) => claimer[u][d] \in Workers
    BY DEF Busy, ClaimersStarted
  <2>3. UNCHANGED <<status, workerID, heartbeat>>
    BY <1>2 DEF tableVars
  <2>4. BusyIsTended'
    BY <1>2, <1>3, <1>9, <2>1, <2>2, <2>3 DEF Attended, BusyIsTended, Owns, Concluded
  <2>5. EntriesAreBusy'
    BY <1>2, <1>3, <1>9, <2>1 DEF Attended, EntriesAreBusy
  <2>6. LosingIsConcluded'
    BY <1>2, <1>3, <1>4, <1>9, <2>3 DEF Attended, LosingIsConcluded, Concluded, NotLosing
  <2>7. Tracked'
    BY <1>2, <1>3, <1>7, <1>9 DEF Attended, Tracked
  <2> QED
    BY <2>4, <2>5, <2>6, <2>7 DEF Attended
<1> QED
  BY <1>2, <1>6, <1>8, <1>9

\* The heartbeat loop gives a goroutine up only when its row is concluded, and forgets
\* the entry of the one it cancels.
LEMMA LoseTaskExecution ==
    ASSUME ExecutionInv, NEW w \in Workers, LoseTask(w)
    PROVE  ClaimersStarted' /\ LiveIsUp' /\ (lapses' = 0 => Attended')
<1> USE DEF ExecutionInv
<1>1. TypeOK
  BY DEF OwnershipInv
<1>2. PICK t \in Tasks, e \in Claims : losing[w] = <<t, e>>
  BY <1>1 DEF LoseTask, TypeOK, Types, ProcTypes
<1>3. /\ UNCHANGED <<status, workerID, heartbeat, proc, pc, claimer, claims, lapses>>
      /\ losing' = [losing EXCEPT ![w] = NotLosing]
      /\ cancelled' = [cancelled EXCEPT ![t][e] = @ \/ pc[t][e] = "running"]
      /\ active' = [active EXCEPT ![w][t] = 0]
  BY <1>2 DEF LoseTask, tableVars, boundVars
<1>4. \A u \in Tasks, d \in Claims :
        /\ ~(u = t /\ d = e) => cancelled'[u][d] = cancelled[u][d]
        /\ cancelled[u][d] => cancelled'[u][d]
        /\ pc[t][e] = "running" => cancelled'[t][e]
  <2>1. \A u \in Tasks, d \in Claims :
          /\ u = t /\ d = e => cancelled'[u][d] = (cancelled[t][e] \/ pc[t][e] = "running")
          /\ ~(u = t /\ d = e) => cancelled'[u][d] = cancelled[u][d]
    <3>1. cancelled' = [cancelled EXCEPT ![t][e] = (cancelled[t][e] \/ pc[t][e] = "running")]
      BY <1>1, <1>3, Tables
    <3> QED
      BY <1>1, <3>1, Tables, EntryChanged
  <2> QED
    BY <2>1
<1>5. \A v \in Workers, u \in Tasks :
        /\ v = w /\ u = t => active'[v][u] = 0
        /\ ~(v = w /\ u = t) => active'[v][u] = active[v][u]
  BY <1>1, <1>3, Tables, EntryChanged
<1>6. ClaimersStarted'
  BY <1>3 DEF ClaimersStarted
<1>7. \A u \in Tasks, d \in Claims : Live(u, d)' => Live(u, d) /\ ~(u = t /\ d = e)
  BY <1>3, <1>4 DEF Live
<1>8. LiveIsUp'
  BY <1>3, <1>7 DEF LiveIsUp
<1>9. ASSUME lapses = 0
      PROVE  Attended'
  <2>1. Concluded(t) /\ e = claims[t]
    BY <1>2, <1>9 DEF Attended, LosingIsConcluded
  <2>2. \A u \in Tasks, d \in Claims : Busy(u, d)' <=> Busy(u, d)
    BY <1>3 DEF Busy
  <2>3. \A u \in Tasks, d \in Claims : Busy(u, d) => claimer[u][d] \in Workers
    BY DEF Busy, ClaimersStarted
  <2>4. BusyIsTended'
    BY <1>3, <1>5, <1>9, <2>1, <2>2, <2>3 DEF Attended, BusyIsTended, Owns, Concluded
  <2>5. EntriesAreBusy'
    BY <1>3, <1>5, <1>9, <2>2 DEF Attended, EntriesAreBusy, Claims
  <2>6. LosingIsConcluded'
    BY <1>1, <1>3, <1>9 DEF Attended, LosingIsConcluded, Concluded, NotLosing,
                            TypeOK, Types, ProcTypes
  <2>7. Tracked'
    <3>1. \A u \in Tasks, d \in Claims : Live(u, d) => Busy(u, d) /\ d = claims[u]
      BY <1>9 DEF LiveIsUp, Live, Busy, Attended, BusyIsTended
    <3>2. \A u \in Tasks, d \in Claims : Live(u, d)' => u # t /\ Live(u, d)
      BY <1>7, <2>1, <3>1
    <3> QED
      BY <1>3, <1>5, <1>9, <2>3, <3>1, <3>2 DEF Attended, Tracked
  <2> QED
    BY <2>4, <2>5, <2>6, <2>7 DEF Attended
<1> QED
  BY <1>3, <1>6, <1>8, <1>9

\* A heartbeat that affects no row is that of a concluded one: a tracked goroutine loses
\* its row in no other way.
LEMMA HeartbeatExecution ==
    ASSUME ExecutionInv, NEW w \in Workers, NEW t \in Tasks, HeartbeatTask(w, t)
    PROVE  ClaimersStarted' /\ LiveIsUp' /\ (lapses' = 0 => Attended')
<1> USE DEF ExecutionInv
<1>1. TypeOK
  BY DEF OwnershipInv
<1>2. /\ UNCHANGED <<status, workerID, proc, active, runVars, claims, lapses>>
      /\ proc[w] = "up" /\ active[w][t] # 0
  BY DEF HeartbeatTask, boundVars
<1>3. ClaimersStarted' /\ LiveIsUp'
  BY <1>2 DEF ClaimersStarted, LiveIsUp, Live, runVars
<1>4. ASSUME lapses = 0
      PROVE  Attended'
  <2>1. \A u \in Tasks, d \in Claims : Busy(u, d)' <=> Busy(u, d)
    BY <1>2 DEF Busy, runVars
  <2>2. \A u \in Tasks : heartbeat[u] = "fresh" => heartbeat'[u] = "fresh"
    BY <1>1 DEF HeartbeatTask, TypeOK, Types, TableTypes
  <2>3. BusyIsTended'
    BY <1>2, <1>4, <2>1, <2>2 DEF Attended, BusyIsTended, Owns, Concluded, runVars
  <2>4. EntriesAreBusy'
    BY <1>2, <1>4, <2>1 DEF Attended, EntriesAreBusy, runVars
  <2>5. Tracked'
    BY <1>2, <1>4 DEF Attended, Tracked, Live, runVars
  <2>6. LosingIsConcluded'
    <3>1. CASE losing' = losing
      BY <1>2, <1>4, <3>1 DEF Attended, LosingIsConcluded, Concluded
    <3>2. CASE ~Owns(t, w) /\ losing' = [losing EXCEPT ![w] = <<t, active[w][t]>>]
      <4>1. PICK e \in Claims : e = active[w][t]
        BY <1>1, <1>2, ConstantsAssumption DEF TypeOK, Types, ProcTypes, Claims
      <4>2. claimer[t][e] = w /\ Busy(t, e)
        BY <1>2, <1>4, <4>1 DEF Attended, EntriesAreBusy
      <4>3. Concluded(t) /\ e = claims[t]
        BY <1>4, <3>2, <4>2 DEF Attended, BusyIsTended
      <4>4. losing'[w] = <<t, e>> /\ \A v \in Workers \ {w} : losing'[v] = losing[v]
        BY <1>1, <3>2, <4>1 DEF TypeOK, Types, ProcTypes
      <4> QED
        BY <1>2, <1>4, <4>3, <4>4 DEF Attended, LosingIsConcluded, Concluded
    <3> QED
      BY <3>1, <3>2 DEF HeartbeatTask
  <2> QED
    BY <2>3, <2>4, <2>5, <2>6 DEF Attended
<1> QED
  BY <1>2, <1>3, <1>4

--------------------------------------------------------------------------------
(* The theorems. *)

\* Nothing runs before the first claim.
LEMMA InitExecutionInv == Init => ExecutionInv
<1> SUFFICES ASSUME Init
             PROVE  ExecutionInv
  OBVIOUS
<1>1. OwnershipInv
  BY InitOwnershipInv
<1>2. \A t \in Tasks, e \in Claims : pc[t][e] = "none"
  BY DEF Init
<1>3. \A w \in Workers, t \in Tasks : active[w][t] = 0
  BY DEF Init
<1>4. ClaimersStarted /\ LiveIsUp /\ BusyIsTended /\ Tracked
  BY <1>2 DEF ClaimersStarted, LiveIsUp, BusyIsTended, Tracked, Live, Busy
<1>5. EntriesAreBusy
  BY <1>3 DEF EntriesAreBusy, Claims
<1>6. LosingIsConcluded
  BY DEF Init, LosingIsConcluded, NotLosing
<1> QED
  BY <1>1, <1>4, <1>5, <1>6 DEF ExecutionInv, Attended

\* Every step of the table, the workers, the goroutines and the scanner keeps it.
LEMMA NextExecutionInv == ExecutionInv /\ [Next]_vars => ExecutionInv'
<1> SUFFICES ASSUME ExecutionInv, [Next]_vars
             PROVE  ClaimersStarted' /\ LiveIsUp' /\ (lapses' = 0 => Attended')
  BY NextOwnershipInv DEF ExecutionInv
<1>1. ASSUME NEW t \in Tasks, UserStep(t) \/ ScannerStep(t)
      PROVE  ClaimersStarted' /\ LiveIsUp' /\ (lapses' = 0 => Attended')
  BY <1>1, UserScannerStepExecution
<1>2. ASSUME NEW w \in Workers, ProcessStep(w)
      PROVE  ClaimersStarted' /\ LiveIsUp' /\ (lapses' = 0 => Attended')
  <2>1. CASE Boot(w)
    BY <2>1, BootExecution
  <2>2. CASE Shutdown(w) \/ Drained(w) \/ Crash(w)
    BY <2>2, StopExecution
  <2>3. CASE LoseTask(w)
    BY <2>3, LoseTaskExecution
  <2>4. ASSUME NEW t \in Tasks, Claim(w, t) \/ ClaimLost(w, t)
        PROVE  ClaimersStarted' /\ LiveIsUp' /\ (lapses' = 0 => Attended')
    BY <2>4, ClaimExecution
  <2>5. ASSUME NEW t \in Tasks, HeartbeatTask(w, t)
        PROVE  ClaimersStarted' /\ LiveIsUp' /\ (lapses' = 0 => Attended')
    BY <2>5, HeartbeatExecution
  <2> QED
    BY <1>2, <2>1, <2>2, <2>3, <2>4, <2>5 DEF ProcessStep
<1>3. ASSUME NEW t \in Tasks, NEW e \in Claims, ExecutorStep(t, e)
      PROVE  ClaimersStarted' /\ LiveIsUp' /\ (lapses' = 0 => Attended')
  BY <1>3, ExecutorStepExecution
<1>4. CASE UNCHANGED vars
  BY <1>4 DEF vars, tableVars, procVars, runVars, boundVars, ExecutionInv, ClaimersStarted,
       LiveIsUp, Attended, BusyIsTended, EntriesAreBusy, LosingIsConcluded, Tracked,
       Busy, Live, Owns, Concluded
<1> QED
  BY <1>1, <1>2, <1>3, <1>4 DEF Next

\* The inductive invariant holds throughout.
THEOREM ExecutionInvariant == Spec => []ExecutionInv
<1>1. Init => ExecutionInv
  BY InitExecutionInv
<1>2. ExecutionInv /\ [Next]_vars => ExecutionInv'
  BY NextExecutionInv
<1> QED
  BY <1>1, <1>2, PTL DEF Spec

\* The stages of a task, which delete and rebuild its lesson's data (worker.go, runTask),
\* never run twice at once while heartbeats are kept, whatever crashes, restarts,
\* shutdowns, lost claims and lost marks there are.
THEOREM SingleExecution == Spec => []AtMostOneExecution
<1>1. ExecutionInv => AtMostOneExecution
  <2> SUFFICES ASSUME ExecutionInv, lapses = 0, NEW t \in Tasks, NEW d \in Claims, NEW e \in Claims,
                      Live(t, d), Live(t, e)
               PROVE  d = e
    BY DEF AtMostOneExecution
  <2>1. Busy(t, d) /\ Busy(t, e)
    BY DEF ExecutionInv, LiveIsUp, Live, Busy
  <2> QED
    BY <2>1 DEF ExecutionInv, Attended, BusyIsTended
<1> QED
  BY <1>1, ExecutionInvariant, PTL

\* While heartbeats are kept, a goroutine that still writes has the entry of its worker's
\* `active', so a cancelled task's goroutine is found by the heartbeat loop.
THEOREM ExecutionsTracked == Spec => []LiveIsTracked
<1>1. ExecutionInv => LiveIsTracked
  BY DEF ExecutionInv, Attended, Tracked, LiveIsTracked
<1> QED
  BY <1>1, ExecutionInvariant, PTL

================================================================================
