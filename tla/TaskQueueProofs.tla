---------------------------- MODULE TaskQueueProofs ----------------------------
(***************************************************************************)
(* What TLAPS proves about TaskQueue beyond its type invariant, for every  *)
(* set of tasks and workers and every value of the bounds.                 *)
(***************************************************************************)
EXTENDS TaskQueueTypes

--------------------------------------------------------------------------------
(* Who owns a row. *)

\* A goroutine is that of a claim that was made.
RunsWereClaimed ==
    \A t \in Tasks, e \in Claims : pc[t][e] # "none" => e <= claims[t]

\* The inductive invariant behind ownership.
OwnershipInv == TypeOK /\ OwnedByLatestClaimer /\ RunsWereClaimed

\* No row is owned before the first claim.
LEMMA InitOwnershipInv == Init => OwnershipInv
<1> SUFFICES ASSUME Init
             PROVE  OwnershipInv
  OBVIOUS
<1>1. TypeOK
  BY InitTypeOK
<1>2. OwnedByLatestClaimer
  BY DEF Init, OwnedByLatestClaimer
<1>3. RunsWereClaimed
  BY DEF Init, RunsWereClaimed
<1> QED
  BY <1>1, <1>2, <1>3 DEF OwnershipInv

\* A process that starts finds no row of its own: its id is new.
LEMMA NothingToReconnect ==
    ASSUME OwnershipInv, NEW w \in Workers, proc[w] = "unborn"
    PROVE  ReconnectCandidates(w) = {}
BY DEF OwnershipInv, OwnedByLatestClaimer, ReconnectCandidates, Owns

\* A claim takes an inqueued row.
LEMMA ClaimedWasInqueued ==
    ASSUME TypeOK, NEW w, NEW t, ClaimRow(w, t)
    PROVE  t \in Tasks /\ status[t] = "inqueued"
<1> DEFINE S == {u \in Tasks : status[u] = "inqueued"}
<1>1. Lists(queue, S) /\ queue # <<>> /\ t = Head(queue)
  BY DEF TypeOK, QueueConsistent, ClaimRow
<1>2. t \in S
  BY <1>1, TailLists
<1> QED
  BY <1>2

\* A claim leaves the claimers of the earlier claims alone and adds its own.
LEMMA ClaimRowClaimer ==
    ASSUME OwnershipInv, NEW w \in Workers, NEW t \in Tasks, ClaimRow(w, t)
    PROVE  OwnedByLatestClaimer'
<1>1. claims[t] + 1 \in Claims /\ claims[t] \in Nat
  BY ClaimRowTypes, ConstantsAssumption DEF OwnershipInv, TypeOK, Types, BoundTypes
<1>2. /\ claims'[t] = claims[t] + 1
      /\ claimer'[t][claims[t] + 1] = w
      /\ workerID'[t] = w
      /\ proc'[w] = "up"
  BY <1>1 DEF ClaimRow, OwnershipInv, TypeOK, Types, BoundTypes, TableTypes, RunTypes
<1>3. ASSUME NEW u \in Tasks, u # t
      PROVE  /\ status'[u] = status[u]
             /\ claims'[u] = claims[u]
             /\ claimer'[u] = claimer[u]
             /\ workerID'[u] = workerID[u]
             /\ proc' = proc
  BY <1>3 DEF ClaimRow, OwnershipInv, TypeOK, Types, BoundTypes, TableTypes, RunTypes
<1> QED
  BY <1>1, <1>2, <1>3 DEF OwnershipInv, OwnedByLatestClaimer

\* No claim, mark, reap, crash or start gives a row to anyone but its last claimer.
LEMMA NextOwnershipInv == OwnershipInv /\ [Next]_vars => OwnershipInv'
<1> SUFFICES ASSUME OwnershipInv, [Next]_vars
             PROVE  OwnedByLatestClaimer' /\ RunsWereClaimed'
  BY NextTypeOK DEF OwnershipInv
<1> USE DEF OwnershipInv
<1>1. ASSUME NEW t \in Tasks, UserStep(t)
      PROVE  OwnedByLatestClaimer' /\ RunsWereClaimed'
  <2>1. UNCHANGED <<procVars, runVars, boundVars>>
    BY <1>1 DEF UserStep, InsertTask, CancelTask, DeleteTask
  <2>2. \A u \in Tasks : status'[u] = "processing" =>
            status[u] = "processing" /\ workerID'[u] = workerID[u]
    BY <1>1 DEF UserStep, InsertTask, CancelTask, DeleteTask, ReleaseRow,
                TypeOK, Types, TableTypes
  <2> QED
    BY <2>1, <2>2 DEF OwnedByLatestClaimer, RunsWereClaimed, procVars, runVars, boundVars
<1>2. ASSUME NEW t \in Tasks, ScannerStep(t)
      PROVE  OwnedByLatestClaimer' /\ RunsWereClaimed'
  <2>1. UNCHANGED <<procVars, runVars, claims>>
    BY <1>2 DEF ScannerStep, HeartbeatAges, ReapStaleProcessing, RequeueOrphanedInqueued, boundVars
  <2>2. \A u \in Tasks : status'[u] = "processing" =>
            status[u] = "processing" /\ workerID'[u] = workerID[u]
    BY <1>2 DEF ScannerStep, HeartbeatAges, ReapStaleProcessing, RequeueOrphanedInqueued,
                ReleaseRow, TypeOK, Types, TableTypes
  <2> QED
    BY <2>1, <2>2 DEF OwnedByLatestClaimer, RunsWereClaimed, procVars, runVars
<1>3. ASSUME NEW t \in Tasks, NEW e \in Claims, ExecutorStep(t, e)
      PROVE  OwnedByLatestClaimer' /\ RunsWereClaimed'
  <2>1. UNCHANGED <<proc, claimer, claims>>
    BY <1>3 DEF ExecutorStep, SetTaskCheckpoint, CheckpointLost, UpdateTaskProgress,
                MarkSucceeded, MarkFailed, MarkLost, Abort, Exit, procVars, runVars, boundVars
  <2>2. \A u \in Tasks : status'[u] = "processing" =>
            status[u] = "processing" /\ workerID'[u] = workerID[u]
    BY <1>3 DEF ExecutorStep, SetTaskCheckpoint, CheckpointLost, UpdateTaskProgress,
                MarkSucceeded, MarkFailed, MarkLost, Abort, Exit, tableVars,
                ReleaseRow, TypeOK, Types, TableTypes
  <2>3. \A u \in Tasks, d \in Claims : pc'[u][d] # "none" => pc[u][d] # "none"
    BY <1>3 DEF ExecutorStep, SetTaskCheckpoint, CheckpointLost, UpdateTaskProgress,
                MarkSucceeded, MarkFailed, MarkLost, Abort, Exit, Return, Live, runVars,
                TypeOK, Types, RunTypes
  <2> QED
    BY <2>1, <2>2, <2>3 DEF OwnedByLatestClaimer, RunsWereClaimed
<1>4. ASSUME NEW w \in Workers, ProcessStep(w)
      PROVE  OwnedByLatestClaimer' /\ RunsWereClaimed'
  <2>1. CASE Boot(w)
    <3>1. ReconnectCandidates(w) = {}
      BY <2>1, NothingToReconnect DEF Boot
    <3>2. UNCHANGED <<tableVars, boundVars>> /\ pc' = pc /\ claimer' = claimer
      BY <2>1, <3>1 DEF Boot, TypeOK, Types, RunTypes
    <3>3. \A v \in Workers : proc[v] # "unborn" => proc'[v] # "unborn"
      BY <2>1 DEF Boot, TypeOK, Types, ProcTypes
    <3> QED
      BY <3>2, <3>3, ConstantsAssumption
      DEF OwnedByLatestClaimer, RunsWereClaimed, tableVars, boundVars, TypeOK, OwnershipConsistent,
          Types, TableTypes
  <2>2. CASE Shutdown(w) \/ Drained(w) \/ Crash(w) \/ LoseTask(w)
    <3>1. UNCHANGED <<tableVars, boundVars, claimer>>
      BY <2>2 DEF Shutdown, Drained, Crash, LoseTask, runVars
    <3>2. \A v \in Workers : proc[v] # "unborn" => proc'[v] # "unborn"
      BY <2>2 DEF Shutdown, Drained, Crash, LoseTask, TypeOK, Types, ProcTypes
    <3>3. \A u \in Tasks, d \in Claims : pc'[u][d] # "none" => pc[u][d] # "none"
      <4>1. CASE Crash(w)
        <5>1. \A u \in Tasks, d \in Claims :
                pc'[u][d] = IF claimer[u][d] = w /\ pc[u][d] \in {"running", "exiting"}
                            THEN "gone" ELSE pc[u][d]
          BY <4>1 DEF Crash
        <5> QED
          BY <5>1
      <4>2. CASE Shutdown(w) \/ Drained(w) \/ LoseTask(w)
        BY <4>2 DEF Shutdown, Drained, LoseTask, runVars
      <4> QED
        BY <2>2, <4>1, <4>2
    <3> QED
      BY <3>1, <3>2, <3>3
      DEF OwnedByLatestClaimer, RunsWereClaimed, tableVars, boundVars, TypeOK, OwnershipConsistent,
          Types, TableTypes
  <2>3. ASSUME NEW t \in Tasks, Claim(w, t) \/ ClaimLost(w, t)
        PROVE  OwnedByLatestClaimer' /\ RunsWereClaimed'
    <3>1. ClaimRow(w, t)
      BY <2>3 DEF Claim, ClaimLost
    <3>2. OwnedByLatestClaimer'
      BY <3>1, ClaimRowClaimer
    <3>3. \A u \in Tasks, d \in Claims :
            pc'[u][d] # "none" => pc[u][d] # "none" \/ (u = t /\ d = claims[t] + 1)
      BY <2>3 DEF Claim, ClaimLost, SpawnTask, TypeOK, Types, RunTypes
    <3>4. claims[t] \in Nat /\ claims'[t] = claims[t] + 1
          /\ \A u \in Tasks \ {t} : claims'[u] = claims[u]
      BY <3>1, ConstantsAssumption DEF ClaimRow, TypeOK, Types, BoundTypes
    <3>5. RunsWereClaimed'
      BY <3>3, <3>4, ConstantsAssumption DEF RunsWereClaimed, Claims, TypeOK, Types, BoundTypes
    <3> QED
      BY <3>2, <3>5
  <2>4. ASSUME NEW t \in Tasks, HeartbeatTask(w, t)
        PROVE  OwnedByLatestClaimer' /\ RunsWereClaimed'
    BY <2>4 DEF HeartbeatTask, OwnedByLatestClaimer, RunsWereClaimed, runVars, boundVars
  <2> QED
    BY <1>4, <2>1, <2>2, <2>3, <2>4 DEF ProcessStep
<1>5. CASE UNCHANGED vars
  BY <1>5 DEF vars, tableVars, procVars, runVars, boundVars, OwnedByLatestClaimer, RunsWereClaimed
<1> QED
  BY <1>1, <1>2, <1>3, <1>4, <1>5 DEF Next

\* A 'processing' row is owned by its latest claimer, so the reconnect query of a
\* starting process (worker.go, Run) always comes back empty.
THEOREM Ownership == Spec => []OwnedByLatestClaimer
<1>1. OwnershipInv => OwnedByLatestClaimer
  BY DEF OwnershipInv
<1> QED
  BY <1>1, InitOwnershipInv, NextOwnershipInv, PTL DEF Spec

--------------------------------------------------------------------------------
(* What a step may never do. *)

\* The steps that move a row out of a terminal status or change its output.
LEMMA TerminalStep ==
    ASSUME TypeOK, [Next]_vars, NEW t \in Tasks, status[t] \in Terminal
    PROVE  (status'[t] = status[t] /\ output'[t] = output[t]) \/ status'[t] = "deleted"
<1> DEFINE Kept == status'[t] = status[t] /\ output'[t] = output[t]
           Final == Kept \/ status'[t] = "deleted"
<1>1. status[t] \notin {"absent", "inqueued", "processing"}
  BY DEF Terminal
<1>2. ASSUME NEW u \in Tasks, UserStep(u)
      PROVE  Final
  BY <1>1, <1>2 DEF UserStep, InsertTask, CancelTask, DeleteTask, ReleaseRow,
                    TypeOK, Types, TableTypes
<1>3. ASSUME NEW u \in Tasks, ScannerStep(u)
      PROVE  Final
  BY <1>1, <1>3 DEF ScannerStep, HeartbeatAges, ReapStaleProcessing, RequeueOrphanedInqueued,
                    ReleaseRow, TypeOK, Types, TableTypes
<1>4. ASSUME NEW w \in Workers, ProcessStep(w)
      PROVE  Final
  <2>1. CASE \E u \in Tasks : Claim(w, u) \/ ClaimLost(w, u)
    <3>1. PICK u \in Tasks : ClaimRow(w, u)
      BY <2>1 DEF Claim, ClaimLost
    <3>2. status[u] = "inqueued"
      BY <3>1, ClaimedWasInqueued
    <3> QED
      BY <1>1, <3>1, <3>2 DEF ClaimRow
  <2>2. CASE \/ Boot(w) \/ Shutdown(w) \/ Drained(w) \/ Crash(w) \/ LoseTask(w)
             \/ \E u \in Tasks : HeartbeatTask(w, u)
    BY <2>2 DEF Boot, Shutdown, Drained, Crash, LoseTask, HeartbeatTask, tableVars
  <2> QED
    BY <1>4, <2>1, <2>2 DEF ProcessStep
<1>5. ASSUME NEW u \in Tasks, NEW e \in Claims, ExecutorStep(u, e)
      PROVE  Final
  BY <1>1, <1>5 DEF ExecutorStep, SetTaskCheckpoint, CheckpointLost, UpdateTaskProgress,
                    MarkSucceeded, MarkFailed, MarkLost, Abort, Exit, Owns, ReleaseRow,
                    tableVars, TypeOK, Types, TableTypes
<1>6. CASE UNCHANGED vars
  BY <1>6 DEF vars, tableVars
<1> QED
  BY <1>2, <1>3, <1>4, <1>5, <1>6 DEF Next

\* A concluded task keeps its outcome and its output until it is deleted
\* (tasks.sql: every statement tests the status it leaves).
THEOREM TerminalFinality == Spec => TerminalIsFinal
<1>1. TypeOK /\ [Next]_vars =>
        [\A t \in Tasks :
            status[t] \in Terminal =>
                \/ status'[t] = status[t] /\ output'[t] = output[t]
                \/ status'[t] = "deleted"]_vars
  BY TerminalStep
<1> QED
  BY <1>1, TypeCorrectness, PTL DEF Spec, TerminalIsFinal

\* A goroutine whose row was taken back or over writes nothing when it steps.
LEMMA ZombieStep ==
    ASSUME OwnershipInv, [Next]_vars, NEW t \in Tasks, NEW e \in Claims,
           pc[t][e] = "running",
           pc'[t][e] = "exiting" \/ stage'[t][e] > stage[t][e],
           status[t] # "processing" \/ claimer[t][e] # claimer[t][claims[t]]
    PROVE  status'[t] = status[t] /\ workerID'[t] = workerID[t] /\ output'[t] = output[t]
<1> DEFINE Untouched ==
            status'[t] = status[t] /\ workerID'[t] = workerID[t] /\ output'[t] = output[t]
<1>1. stage[t][e] \in Int /\ (pc'[t][e] # pc[t][e] \/ stage'[t][e] # stage[t][e])
  BY ConstantsAssumption DEF OwnershipInv, TypeOK, Types, RunTypes
<1>2. ~Owns(t, claimer[t][e])
  BY ConstantsAssumption
  DEF Owns, OwnershipInv, OwnedByLatestClaimer
<1>3. ASSUME NEW u \in Tasks, UserStep(u) \/ ScannerStep(u)
      PROVE  FALSE
  BY <1>1, <1>3 DEF UserStep, InsertTask, CancelTask, DeleteTask, ScannerStep, HeartbeatAges,
                    ReapStaleProcessing, RequeueOrphanedInqueued, runVars
<1>4. ASSUME NEW w \in Workers, ProcessStep(w)
      PROVE  Untouched
  <2>1. ASSUME NEW u \in Tasks, Claim(w, u) \/ ClaimLost(w, u)
        PROVE  FALSE
    <3>1. e <= claims[t] /\ claims[t] \in Nat
      BY ConstantsAssumption DEF OwnershipInv, RunsWereClaimed, TypeOK, Types, BoundTypes
    <3>2. ~(u = t /\ claims[u] + 1 = e)
      BY <3>1, ConstantsAssumption DEF Claims
    <3>3. pc'[t][e] = pc[t][e] /\ stage'[t][e] = stage[t][e]
      <4>1. CASE ClaimLost(w, u)
        BY <4>1 DEF ClaimLost
      <4>2. CASE Claim(w, u)
        <5>1. /\ pc' = [pc EXCEPT ![u][claims[u] + 1] = "running"]
              /\ stage' = [stage EXCEPT ![u][claims[u] + 1] = output[u]]
          BY <4>2 DEF Claim, SpawnTask
        <5>2. \E S : pc \in [Tasks -> [Claims -> S]]
          BY DEF OwnershipInv, TypeOK, Types, RunTypes
        <5>3. \E S : stage \in [Tasks -> [Claims -> S]]
          BY DEF OwnershipInv, TypeOK, Types, RunTypes
        <5> QED
          BY <3>2, <5>1, <5>2, <5>3, EntryRead
      <4> QED
        BY <2>1, <4>1, <4>2
    <3> QED
      BY <1>1, <3>3
  <2>2. CASE \/ Boot(w) \/ Shutdown(w) \/ Drained(w) \/ Crash(w) \/ LoseTask(w)
             \/ \E u \in Tasks : HeartbeatTask(w, u)
    BY <2>2 DEF Boot, Shutdown, Drained, Crash, LoseTask, HeartbeatTask, tableVars
  <2> QED
    BY <1>4, <2>1, <2>2 DEF ProcessStep
<1>5. ASSUME NEW u \in Tasks, NEW d \in Claims, ExecutorStep(u, d)
      PROVE  Untouched
  <2>1. CASE u = t /\ d = e
    BY <1>2, <1>5, <2>1 DEF ExecutorStep, SetTaskCheckpoint, CheckpointLost, UpdateTaskProgress,
            MarkSucceeded, MarkFailed, MarkLost, Abort, Exit, tableVars
  <2>2. CASE u # t \/ d # e
    <3>1. pc'[t][e] = pc[t][e] /\ stage'[t][e] = stage[t][e]
      BY <1>5, <2>2 DEF ExecutorStep, SetTaskCheckpoint, CheckpointLost, UpdateTaskProgress,
            MarkSucceeded, MarkFailed, MarkLost, Abort, Exit, Return, runVars,
            OwnershipInv, TypeOK, Types, RunTypes
    <3> QED
      BY <1>1, <3>1
  <2> QED
    BY <2>1, <2>2
<1>6. CASE UNCHANGED vars
  BY <1>1, <1>6 DEF vars, runVars
<1> QED
  BY <1>3, <1>4, <1>5, <1>6 DEF Next

\* The executor of a task that was reaped, cancelled, deleted or claimed by another
\* worker does no harm to the row (doc.go, invariant 2).
THEOREM ZombieSafety == Spec => ZombieWritesNothing
<1>1. OwnershipInv /\ [Next]_vars =>
        [\A t \in Tasks, e \in Claims :
            /\ pc[t][e] = "running"
            /\ pc'[t][e] = "exiting" \/ stage'[t][e] > stage[t][e]
            /\ status[t] # "processing" \/ claimer[t][e] # claimer[t][claims[t]]
            => /\ status'[t] = status[t]
               /\ workerID'[t] = workerID[t]
               /\ output'[t] = output[t]]_vars
  BY ZombieStep
<1> QED
  BY <1>1, InitOwnershipInv, NextOwnershipInv, PTL DEF Spec, ZombieWritesNothing

--------------------------------------------------------------------------------
(* The queue implements the lease. *)

\* A change of one row's status is a change of one lease's phase.
LEMMA PhaseUpdate ==
    ASSUME TypeOK, NEW t \in Tasks, NEW s, status' = [status EXCEPT ![t] = s]
    PROVE  LeasePhase' = [LeasePhase EXCEPT ![t] = PhaseOf(s)]
BY DEF LeasePhase, TypeOK, Types, TableTypes

\* A step that leaves every status alone leaves every lease's phase alone.
LEMMA PhaseSame ==
    ASSUME status' = status
    PROVE  LeasePhase' = LeasePhase
BY DEF LeasePhase

\* The empty table is the lease's initial state.
LEMMA InitLease == Init => Lease!Init
BY DEF Init, Lease!Init, LeasePhase, PhaseOf

\* Every step of the queue is a step of the lease or leaves it alone.
LEMMA NextLease ==
    ASSUME TypeOK, [Next]_vars
    PROVE  [Lease!Next]_(Lease!vars)
<1> DEFINE Idle == UNCHANGED <<status, workerID, output>>
<1>1. Idle => UNCHANGED Lease!vars
  BY PhaseSame DEF Lease!vars
<1>2. ASSUME NEW t \in Tasks, InsertTask(t)
      PROVE  Lease!Submit(t)
  BY <1>2, PhaseUpdate DEF InsertTask, Lease!Submit, LeasePhase, PhaseOf
<1>3. ASSUME NEW t \in Tasks, CancelTask(t)
      PROVE  Lease!Cancel(t)
  BY <1>3, PhaseUpdate DEF CancelTask, ReleaseRow, Lease!Cancel, LeasePhase, PhaseOf
<1>4. ASSUME NEW t \in Tasks, DeleteTask(t)
      PROVE  Lease!Drop(t)
  BY <1>4, PhaseUpdate
  DEF DeleteTask, ReleaseRow, Lease!Drop, LeasePhase, PhaseOf, TypeOK, Types, TableTypes,
      Statuses, Terminal
<1>5. ASSUME NEW t \in Tasks, ReapStaleProcessing(t)
      PROVE  Lease!Revoke(t)
  BY <1>5, PhaseUpdate DEF ReapStaleProcessing, ReleaseRow, Lease!Revoke, LeasePhase, PhaseOf
<1>6. ASSUME NEW w \in Workers, NEW t \in Tasks, Claim(w, t) \/ ClaimLost(w, t)
      PROVE  Lease!Grant(t, w)
  <2>1. ClaimRow(w, t) /\ status[t] = "inqueued"
    BY <1>6, ClaimedWasInqueued DEF Claim, ClaimLost
  <2> QED
    BY <2>1, PhaseUpdate DEF ClaimRow, Lease!Grant, LeasePhase, PhaseOf
<1>7. ASSUME NEW t \in Tasks, NEW e \in Claims, ExecutorStep(t, e)
      PROVE  (\E w \in Workers : Lease!Record(t, w) \/ Lease!Conclude(t, w)) \/ Idle
  <2> DEFINE w == claimer[t][e]
  <2>1. ASSUME Owns(t, w)
        PROVE  w \in Workers /\ LeasePhase[t] = "leased" /\ workerID[t] = w
    BY <2>1, ConstantsAssumption
    DEF Owns, LeasePhase, PhaseOf, TypeOK, OwnershipConsistent, Types, TableTypes
  <2>2. CASE SetTaskCheckpoint(t, e)
    <3>1. CASE Owns(t, w)
      <4>1. stage[t][e] + 1 \in 1..Stages
        BY <2>2, ConstantsAssumption DEF SetTaskCheckpoint, TypeOK, Types, RunTypes
      <4>2. Lease!Record(t, w)
        BY <2>1, <2>2, <3>1, <4>1, PhaseSame DEF SetTaskCheckpoint, Lease!Record
      <4> QED
        BY <2>1, <3>1, <4>2
    <3>2. CASE ~Owns(t, w)
      BY <2>2, <3>2 DEF SetTaskCheckpoint
    <3> QED
      BY <3>1, <3>2
  <2>3. CASE MarkSucceeded(t, e)
    <3>1. CASE Owns(t, w)
      <4>1. Lease!Conclude(t, w)
        BY <2>1, <2>3, <3>1, PhaseUpdate DEF MarkSucceeded, ReleaseRow, Lease!Conclude, PhaseOf
      <4> QED
        BY <2>1, <3>1, <4>1
    <3>2. CASE ~Owns(t, w)
      BY <2>3, <3>2 DEF MarkSucceeded
    <3> QED
      BY <3>1, <3>2
  <2>4. CASE MarkFailed(t, e)
    <3>1. CASE Owns(t, w)
      <4>1. Lease!Conclude(t, w)
        BY <2>1, <2>4, <3>1, PhaseUpdate DEF MarkFailed, ReleaseRow, Lease!Conclude, PhaseOf
      <4> QED
        BY <2>1, <3>1, <4>1
    <3>2. CASE ~Owns(t, w)
      BY <2>4, <3>2 DEF MarkFailed
    <3> QED
      BY <3>1, <3>2
  <2>5. CASE CheckpointLost(t, e) \/ UpdateTaskProgress(t, e) \/ MarkLost(t, e)
             \/ Abort(t, e) \/ Exit(t, e)
    BY <2>5 DEF CheckpointLost, UpdateTaskProgress, MarkLost, Abort, Exit, tableVars
  <2> QED
    BY <1>7, <2>2, <2>3, <2>4, <2>5 DEF ExecutorStep
<1>8. ASSUME NEW t \in Tasks, HeartbeatAges(t) \/ RequeueOrphanedInqueued(t)
      PROVE  Idle
  BY <1>8 DEF HeartbeatAges, RequeueOrphanedInqueued
<1>9. ASSUME NEW w \in Workers,
             \/ Boot(w) \/ Shutdown(w) \/ Drained(w) \/ Crash(w) \/ LoseTask(w)
             \/ \E t \in Tasks : HeartbeatTask(w, t)
      PROVE  Idle
  BY <1>9 DEF Boot, Shutdown, Drained, Crash, LoseTask, HeartbeatTask, tableVars
<1>10. CASE Next
  <2>1. CASE \E t \in Tasks : UserStep(t) \/ ScannerStep(t)
    BY <1>1, <1>2, <1>3, <1>4, <1>5, <1>8, <2>1 DEF UserStep, ScannerStep, Lease!Next
  <2>2. CASE \E w \in Workers : ProcessStep(w)
    BY <1>1, <1>6, <1>9, <2>2 DEF ProcessStep, Lease!Next
  <2>3. CASE \E t \in Tasks, e \in Claims : ExecutorStep(t, e)
    BY <1>1, <1>7, <2>3 DEF Lease!Next
  <2> QED
    BY <1>10, <2>1, <2>2, <2>3 DEF Next
<1>11. CASE UNCHANGED vars
  BY <1>1, <1>11 DEF vars, tableVars
<1> QED
  BY <1>10, <1>11

\* The table with its workers, heartbeats, reaper and users implements TaskLease.
THEOREM LeaseRefinement == Spec => ImplementsLease
<1>1. TypeOK /\ [Next]_vars => [Lease!Next]_(Lease!vars)
  BY NextLease
<1> QED
  BY <1>1, InitLease, TypeCorrectness, PTL DEF Spec, ImplementsLease, Lease!Spec
================================================================================
