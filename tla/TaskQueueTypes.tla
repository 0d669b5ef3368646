----------------------------- MODULE TaskQueueTypes -----------------------------
(***************************************************************************)
(* Every step of TaskQueue keeps its type invariant, for every set of      *)
(* tasks and workers and every value of the bounds.                        *)
(***************************************************************************)
EXTENDS TaskQueue, TLAPS, SequenceTheorems

\* Removing position i from a sequence keeps its other elements in order.
LEMMA RemoveAtProperties ==
    ASSUME NEW S, NEW q \in Seq(S), NEW i \in 1..Len(q)
    PROVE  /\ RemoveAt(q, i) \in Seq(S)
           /\ Len(RemoveAt(q, i)) = Len(q) - 1
           /\ \A j \in 1..(Len(q) - 1) :
                RemoveAt(q, i)[j] = IF j < i THEN q[j] ELSE q[j + 1]
<1> DEFINE l == SubSeq(q, 1, i - 1)  r == SubSeq(q, i + 1, Len(q))
<1>1. l \in Seq(S) /\ Len(l) = i - 1 /\ \A j \in 1..(i - 1) : l[j] = q[j]
  BY SubSeqProperties, LenProperties
<1>2. r \in Seq(S) /\ Len(r) = Len(q) - i /\ \A j \in 1..(Len(q) - i) : r[j] = q[i + j]
  BY SubSeqProperties, LenProperties
<1>3. /\ l \o r \in Seq(S)
      /\ Len(l \o r) = Len(l) + Len(r)
      /\ \A j \in 1 .. Len(l) + Len(r) :
            (l \o r)[j] = IF j <= Len(l) THEN l[j] ELSE r[j - Len(l)]
  BY <1>1, <1>2, ConcatProperties
<1>4. RemoveAt(q, i) = l \o r
  BY DEF RemoveAt
<1> HIDE DEF l, r
<1>5. Len(q) \in Nat /\ i \in Int /\ 1 <= i /\ i <= Len(q)
  BY LenProperties
<1>6. Len(l) + Len(r) = Len(q) - 1
  BY <1>1, <1>2, <1>5
<1>7. ASSUME NEW j \in 1..(Len(q) - 1)
      PROVE  (l \o r)[j] = IF j < i THEN q[j] ELSE q[j + 1]
  <2>1. CASE j < i
    <3>1. j \in 1..(i - 1) /\ j <= Len(l)
      BY <1>1, <1>5, <2>1
    <3> QED
      BY <1>1, <1>3, <1>6, <2>1, <3>1
  <2>2. CASE ~(j < i)
    <3>1. j - Len(l) \in 1..(Len(q) - i) /\ ~(j <= Len(l))
      BY <1>1, <1>5, <2>2
    <3>2. r[j - Len(l)] = q[i + (j - Len(l))]
      BY <1>2, <3>1
    <3>3. i + (j - Len(l)) = j + 1
      BY <1>1, <1>5
    <3> QED
      BY <1>3, <1>6, <2>2, <3>1, <3>2, <3>3
  <2> QED
    BY <2>1, <2>2
<1> QED
  BY <1>3, <1>4, <1>6, <1>7

--------------------------------------------------------------------------------
(* The queue: what the claim, the reaper, a cancellation and the orphan sweep do *)
(* to a sequence that lists a set of tasks.                                      *)

\* The claim takes the head.
LEMMA TailLists ==
    ASSUME NEW q, NEW S, Lists(q, S), q # <<>>
    PROVE  /\ Head(q) \in Tasks
           /\ Head(q) \in S
           /\ Lists(Tail(q), S \ {Head(q)})
<1>1. q \in Seq(Tasks) /\ Len(q) \in Nat /\ Len(q) > 0 /\ DOMAIN q = 1..Len(q)
  BY LenProperties, EmptySeq DEF Lists
<1>2. 1 \in DOMAIN q /\ Head(q) = q[1] /\ Head(q) \in Tasks
  BY <1>1
<1>3. /\ Tail(q) \in Seq(Tasks)
      /\ DOMAIN Tail(q) = 1..(Len(q) - 1)
      /\ \A i \in DOMAIN Tail(q) : i + 1 \in DOMAIN q /\ Tail(q)[i] = q[i + 1]
  BY <1>1
<1>4. \A i, j \in DOMAIN q : q[i] = q[j] => i = j
  BY DEF Lists
<1>5. ASSUME NEW i \in DOMAIN Tail(q), NEW j \in DOMAIN Tail(q), Tail(q)[i] = Tail(q)[j]
      PROVE  i = j
  <2>1. i + 1 = j + 1
    BY <1>3, <1>4, <1>5
  <2> QED
    BY <1>1, <1>3, <2>1
<1>6. ASSUME NEW u \in Tasks
      PROVE  u \in S \ {Head(q)} <=> \E i \in DOMAIN Tail(q) : Tail(q)[i] = u
  <2>1. ASSUME NEW i \in DOMAIN Tail(q), Tail(q)[i] = u
        PROVE  u \in S \ {Head(q)}
    <3>1. i + 1 \in DOMAIN q /\ i + 1 # 1 /\ q[i + 1] = u
      BY <1>1, <1>3, <2>1
    <3> QED
      BY <1>2, <1>4, <3>1 DEF Lists
  <2>2. ASSUME u \in S \ {Head(q)}
        PROVE  \E i \in DOMAIN Tail(q) : Tail(q)[i] = u
    <3>1. PICK k \in DOMAIN q : q[k] = u
      BY <2>2 DEF Lists
    <3>2. k # 1
      BY <1>2, <2>2, <3>1
    <3>3. k - 1 \in DOMAIN Tail(q) /\ (k - 1) + 1 = k
      BY <1>1, <1>3, <3>1, <3>2
    <3> QED
      BY <1>3, <3>1, <3>3
  <2> QED
    BY <2>1, <2>2
<1>7. Head(q) \in S
  BY <1>2 DEF Lists
<1> QED
  BY <1>2, <1>3, <1>5, <1>6, <1>7 DEF Lists

\* A new or reaped task goes to the tail.
LEMMA AppendLists ==
    ASSUME NEW q, NEW S, Lists(q, S), NEW t \in Tasks, t \notin S
    PROVE  Lists(Append(q, t), S \union {t})
<1> DEFINE r == Append(q, t)
<1>1. q \in Seq(Tasks) /\ Len(q) \in Nat /\ DOMAIN q = 1..Len(q)
  BY LenProperties DEF Lists
<1>2. /\ r \in Seq(Tasks)
      /\ DOMAIN r = 1..(Len(q) + 1)
      /\ \A i \in DOMAIN q : r[i] = q[i]
      /\ r[Len(q) + 1] = t
  BY <1>1
<1> HIDE DEF r
<1>3. \A i \in DOMAIN r : i \in DOMAIN q \/ i = Len(q) + 1
  BY <1>1, <1>2
<1>4. \A i \in DOMAIN q : q[i] # t
  BY DEF Lists
<1>5. \A i, j \in DOMAIN r : r[i] = r[j] => i = j
  BY <1>2, <1>3, <1>4 DEF Lists
<1>6. \A u \in Tasks : u \in S \union {t} <=> \E i \in DOMAIN r : r[i] = u
  <2>1. DOMAIN q \subseteq DOMAIN r /\ Len(q) + 1 \in DOMAIN r
    BY <1>1, <1>2
  <2> QED
    BY <1>2, <1>3, <2>1 DEF Lists
<1> QED
  BY <1>2, <1>5, <1>6 DEF Lists, r

\* An orphan goes to the head.
LEMMA PrependLists ==
    ASSUME NEW q, NEW S, Lists(q, S), NEW t \in Tasks, t \notin S
    PROVE  Lists(<<t>> \o q, S \union {t})
<1> DEFINE r == <<t>> \o q
<1>1. q \in Seq(Tasks) /\ Len(q) \in Nat /\ DOMAIN q = 1..Len(q)
  BY LenProperties DEF Lists
<1>2. /\ r \in Seq(Tasks)
      /\ DOMAIN r = 1..(Len(q) + 1)
      /\ r[1] = t
      /\ \A i \in 2..(Len(q) + 1) : r[i] = q[i - 1]
  BY <1>1
<1> HIDE DEF r
<1>3. \A i \in DOMAIN r : i = 1 \/ (i \in 2..(Len(q) + 1) /\ i - 1 \in DOMAIN q)
  BY <1>1, <1>2
<1>4. \A i \in DOMAIN q : q[i] # t
  BY DEF Lists
<1>5. ASSUME NEW i \in DOMAIN r, NEW j \in DOMAIN r, r[i] = r[j]
      PROVE  i = j
  <2>1. CASE i = 1 \/ j = 1
    BY <1>2, <1>3, <1>4, <1>5, <2>1
  <2>2. CASE i # 1 /\ j # 1
    <3>1. i - 1 \in DOMAIN q /\ j - 1 \in DOMAIN q /\ q[i - 1] = q[j - 1]
      BY <1>2, <1>3, <1>5, <2>2
    <3>2. i - 1 = j - 1
      BY <3>1 DEF Lists
    <3> QED
      BY <1>1, <1>2, <3>2
  <2> QED
    BY <2>1, <2>2
<1>6. ASSUME NEW u \in Tasks
      PROVE  u \in S \union {t} <=> \E i \in DOMAIN r : r[i] = u
  <2>1. ASSUME NEW i \in DOMAIN r, r[i] = u
        PROVE  u \in S \union {t}
    BY <1>2, <1>3, <2>1 DEF Lists
  <2>2. ASSUME u \in S
        PROVE  \E i \in DOMAIN r : r[i] = u
    <3>1. PICK k \in DOMAIN q : q[k] = u
      BY <2>2 DEF Lists
    <3>2. k + 1 \in 2..(Len(q) + 1) /\ k + 1 \in DOMAIN r /\ (k + 1) - 1 = k
      BY <1>1, <1>2, <3>1
    <3> QED
      BY <1>2, <3>1, <3>2
  <2>3. 1 \in DOMAIN r
    BY <1>1, <1>2
  <2> QED
    BY <1>2, <2>1, <2>2, <2>3
<1> QED
  BY <1>2, <1>5, <1>6 DEF Lists, r

\* A cancelled or deleted task leaves the queue from wherever it stands.
LEMMA RemoveLists ==
    ASSUME NEW q, NEW S, Lists(q, S), NEW t \in Tasks, t \in S
    PROVE  Lists(RemoveAt(q, CHOOSE i \in DOMAIN q : q[i] = t), S \ {t})
<1> DEFINE p == CHOOSE i \in DOMAIN q : q[i] = t
           r == RemoveAt(q, p)
<1>1. q \in Seq(Tasks) /\ DOMAIN q = 1..Len(q) /\ Len(q) \in Nat
  BY LenProperties DEF Lists
<1>2. p \in DOMAIN q /\ q[p] = t
  BY DEF Lists
<1> HIDE DEF p
<1>3. /\ r \in Seq(Tasks)
      /\ Len(r) = Len(q) - 1
      /\ \A j \in 1..(Len(q) - 1) : r[j] = IF j < p THEN q[j] ELSE q[j + 1]
  BY <1>1, <1>2, RemoveAtProperties
<1> HIDE DEF r
<1>4. DOMAIN r = 1..(Len(q) - 1)
  BY <1>3, LenProperties
<1> DEFINE At(k) == IF k < p THEN k ELSE k + 1
<1>5. ASSUME NEW i \in DOMAIN r
      PROVE  At(i) \in DOMAIN q /\ At(i) # p /\ r[i] = q[At(i)]
  BY <1>1, <1>2, <1>3, <1>4
<1>6. \A k, l \in DOMAIN q : q[k] = q[l] => k = l
  BY DEF Lists
<1>7. ASSUME NEW i \in DOMAIN r, NEW j \in DOMAIN r, r[i] = r[j]
      PROVE  i = j
  <2> HIDE DEF At
  <2>1. At(i) = At(j)
    BY <1>5, <1>6, <1>7
  <2> QED
    BY <1>1, <1>2, <1>3, <1>4, <2>1 DEF At
<1>8. ASSUME NEW u \in Tasks
      PROVE  u \in S \ {t} <=> \E i \in DOMAIN r : r[i] = u
  <2>1. ASSUME NEW i \in DOMAIN r, r[i] = u
        PROVE  u \in S \ {t}
    <3>1. PICK k \in DOMAIN q : k # p /\ q[k] = u
      BY <1>5, <2>1
    <3> QED
      BY <1>2, <3>1 DEF Lists
  <2>2. ASSUME u \in S, u # t
        PROVE  \E i \in DOMAIN r : r[i] = u
    <3>1. PICK k \in DOMAIN q : q[k] = u
      BY <2>2 DEF Lists
    <3>2. CASE k < p
      BY <1>1, <1>2, <1>3, <1>4, <3>1, <3>2
    <3>3. CASE k > p
      <4>1. k - 1 \in DOMAIN r /\ r[k - 1] = q[(k - 1) + 1]
        BY <1>1, <1>2, <1>3, <1>4, <3>1, <3>3
      <4>2. (k - 1) + 1 = k
        BY <1>1, <3>1
      <4> QED
        BY <3>1, <4>1, <4>2
    <3> QED
      BY <1>1, <1>2, <2>2, <3>1, <3>2, <3>3
  <2> QED
    BY <2>1, <2>2
<1> QED
  BY <1>3, <1>7, <1>8 DEF Lists, r, p

--------------------------------------------------------------------------------
(* Types. *)

\* Changing one entry of a table of tables.
LEMMA EntryUpdate ==
    ASSUME NEW A, NEW B, NEW S, NEW f \in [A -> [B -> S]], NEW a, NEW b, NEW s \in S
    PROVE  [f EXCEPT ![a][b] = s] \in [A -> [B -> S]]
<1> DEFINE g == [f EXCEPT ![a][b] = s]
<1>1. ASSUME NEW x \in A PROVE g[x] \in [B -> S]
  <2>1. f[x] \in [B -> S]
    OBVIOUS
  <2>2. CASE x = a
    <3>1. [f[x] EXCEPT ![b] = s] \in [B -> S]
      BY <2>1
    <3>2. g[x] = [f[x] EXCEPT ![b] = s]
      BY <2>2
    <3> QED
      BY <3>1, <3>2
  <2>3. CASE x # a
    <3>1. g[x] = f[x]
      BY <2>3
    <3> QED
      BY <2>1, <3>1
  <2> QED
    BY <2>2, <2>3
<1>2. g = [x \in A |-> g[x]]
  OBVIOUS
<1> QED
  BY <1>1, <1>2

\* Reading a table of tables after the change.
LEMMA EntryRead ==
    ASSUME NEW A, NEW B, NEW S, NEW f \in [A -> [B -> S]], NEW a, NEW b, NEW s,
           NEW x \in A, NEW y \in B
    PROVE  [f EXCEPT ![a][b] = s][x][y] = IF x = a /\ y = b THEN s ELSE f[x][y]
<1>1. f[x] \in [B -> S]
  OBVIOUS
<1>2. CASE x = a
  <2>1. [f EXCEPT ![a][b] = s][x] = [f[x] EXCEPT ![b] = s]
    BY <1>2
  <2> QED
    BY <1>1, <1>2, <2>1
<1>3. CASE x # a
  <2>1. [f EXCEPT ![a][b] = s][x] = f[x]
    BY <1>3
  <2> QED
    BY <1>3, <2>1
<1> QED
  BY <1>2, <1>3

\* Storing or deleting an entry of Worker.active (worker.go, spawnTask).
LEMMA ActiveUpdate ==
    ASSUME TypeOK, NEW w, NEW t, NEW c \in 0..MaxClaims
    PROVE  [active EXCEPT ![w][t] = c] \in [Workers -> [Tasks -> 0..MaxClaims]]
BY EntryUpdate DEF TypeOK, Types, ProcTypes


\* What a step leaves alone stays well-typed.
LEMMA UntouchedTypes ==
    ASSUME TypeOK
    PROVE  /\ UNCHANGED tableVars => TableTypes' /\ OwnershipConsistent' /\ QueueConsistent'
           /\ UNCHANGED procVars => ProcTypes'
           /\ UNCHANGED runVars => RunTypes'
           /\ UNCHANGED boundVars => BoundTypes'
           /\ UNCHANGED <<status, workerID, heartbeat>> => OwnershipConsistent'
           /\ UNCHANGED <<status, queue>> => QueueConsistent'
<1>1. UNCHANGED tableVars => TableTypes'
  BY DEF TypeOK, Types, TableTypes, tableVars
<1>2. UNCHANGED procVars => ProcTypes'
  BY DEF TypeOK, Types, ProcTypes, procVars
<1>3. UNCHANGED runVars => RunTypes'
  BY DEF TypeOK, Types, RunTypes, runVars
<1>4. UNCHANGED boundVars => BoundTypes'
  BY DEF TypeOK, Types, BoundTypes, boundVars
<1>5. UNCHANGED <<status, workerID, heartbeat>> => OwnershipConsistent'
  BY DEF TypeOK, OwnershipConsistent
<1>6. UNCHANGED <<status, queue>> => QueueConsistent'
  BY DEF TypeOK, QueueConsistent
<1> QED
  BY <1>1, <1>2, <1>3, <1>4, <1>5, <1>6 DEF tableVars

\* A task that is not 'processing' any more loses its owner and its heartbeat.
LEMMA ReleaseRowTypes ==
    ASSUME TypeOK, NEW t \in Tasks, NEW s \in Statuses \ {"processing"}, ReleaseRow(t, s)
    PROVE  /\ status' \in [Tasks -> Statuses]
           /\ workerID' \in [Tasks -> Workers \union {NoWorker}]
           /\ heartbeat' \in [Tasks -> {"none", "fresh", "stale"}]
           /\ OwnershipConsistent'
           /\ \A u \in Tasks : status'[u] = IF u = t THEN s ELSE status[u]
<1>1. /\ status' \in [Tasks -> Statuses]
      /\ workerID' \in [Tasks -> Workers \union {NoWorker}]
      /\ heartbeat' \in [Tasks -> {"none", "fresh", "stale"}]
  BY DEF TypeOK, Types, TableTypes, ReleaseRow
<1>2. \A u \in Tasks :
        /\ status'[u] = IF u = t THEN s ELSE status[u]
        /\ workerID'[u] = IF u = t THEN NoWorker ELSE workerID[u]
        /\ heartbeat'[u] = IF u = t THEN "none" ELSE heartbeat[u]
  BY DEF TypeOK, Types, TableTypes, ReleaseRow
<1> QED
  BY <1>1, <1>2 DEF TypeOK, OwnershipConsistent

\* The queue after a change of one row's status.
LEMMA QueueAfter ==
    ASSUME TypeOK, NEW t \in Tasks,
           \A u \in Tasks \ {t} : status'[u] = status[u]
    PROVE  /\ status[t] = "inqueued" /\ status'[t] # "inqueued" /\ queue' = Unqueued(t)
              => QueueConsistent'
           /\ status[t] # "inqueued" /\ status'[t] # "inqueued" /\ queue' = queue
              => QueueConsistent'
           /\ status[t] # "inqueued" /\ status'[t] = "inqueued" /\ queue' = Append(queue, t)
              => QueueConsistent'
           /\ status[t] = "inqueued" /\ status'[t] = "inqueued" /\ queue' = <<t>> \o Unqueued(t)
              => QueueConsistent'
           /\ queue # <<>> /\ t = Head(queue) /\ status'[t] # "inqueued" /\ queue' = Tail(queue)
              => QueueConsistent'
<1> DEFINE S == {u \in Tasks : status[u] = "inqueued"}
           N == {u \in Tasks : status'[u] = "inqueued"}
<1>1. Lists(queue, S)
  BY DEF TypeOK, QueueConsistent
<1>2. QueueConsistent' <=> Lists(queue', N)
  BY DEF QueueConsistent, Lists
<1>3. ASSUME status[t] = "inqueued"
      PROVE  Lists(Unqueued(t), S \ {t})
  BY <1>1, <1>3, RemoveLists DEF Unqueued
<1>4. ASSUME status[t] = "inqueued", status'[t] # "inqueued", queue' = Unqueued(t)
      PROVE  QueueConsistent'
  <2>1. N = S \ {t}
    BY <1>4
  <2> QED
    BY <1>2, <1>3, <1>4, <2>1
<1>5. ASSUME status[t] # "inqueued", status'[t] # "inqueued", queue' = queue
      PROVE  QueueConsistent'
  <2>1. N = S
    BY <1>5
  <2> QED
    BY <1>1, <1>2, <1>5, <2>1
<1>6. ASSUME status[t] # "inqueued", status'[t] = "inqueued", queue' = Append(queue, t)
      PROVE  QueueConsistent'
  <2>1. N = S \union {t} /\ t \notin S
    BY <1>6
  <2> QED
    BY <1>1, <1>2, <1>6, <2>1, AppendLists
<1>7. ASSUME status[t] = "inqueued", status'[t] = "inqueued", queue' = <<t>> \o Unqueued(t)
      PROVE  QueueConsistent'
  <2>1. N = (S \ {t}) \union {t} /\ t \notin S \ {t}
    BY <1>7
  <2> QED
    BY <1>2, <1>3, <1>7, <2>1, PrependLists
<1>8. ASSUME queue # <<>>, t = Head(queue), status'[t] # "inqueued", queue' = Tail(queue)
      PROVE  QueueConsistent'
  <2>1. t \in S /\ Lists(Tail(queue), S \ {t})
    BY <1>1, <1>8, TailLists
  <2>2. N = S \ {t}
    BY <1>8, <2>1
  <2> QED
    BY <1>2, <1>8, <2>1, <2>2
<1> QED
  BY <1>4, <1>5, <1>6, <1>7, <1>8

\* The empty table and the processes that have not started are well-typed.
LEMMA InitTypeOK == Init => TypeOK
<1> SUFFICES ASSUME Init
             PROVE  TypeOK
  OBVIOUS
<1>1. TableTypes
  BY ConstantsAssumption DEF Init, TableTypes, Statuses
<1>2. ProcTypes
  BY ConstantsAssumption DEF Init, ProcTypes
<1>3. RunTypes
  BY ConstantsAssumption DEF Init, RunTypes
<1>4. BoundTypes
  BY ConstantsAssumption DEF Init, BoundTypes
<1>5. OwnershipConsistent
  BY DEF Init, OwnershipConsistent
<1>6. QueueConsistent
  BY DEF Init, QueueConsistent, Lists
<1> QED
  BY <1>1, <1>2, <1>3, <1>4, <1>5, <1>6 DEF TypeOK, Types

\* InsertTask, CancelTask and DeleteTask keep the columns of a row in agreement.
LEMMA UserStepTypeOK ==
    ASSUME TypeOK, NEW t \in Tasks, UserStep(t)
    PROVE  TypeOK'
<1>1. UNCHANGED <<procVars, runVars, boundVars>>
  BY DEF UserStep, InsertTask, CancelTask, DeleteTask
<1>2. ProcTypes' /\ RunTypes' /\ BoundTypes'
  BY <1>1, UntouchedTypes
<1>3. CASE InsertTask(t)
  <2>1. TableTypes' /\ OwnershipConsistent'
    BY <1>3 DEF InsertTask, TypeOK, Types, TableTypes, Statuses, OwnershipConsistent
  <2>2. status'[t] = "inqueued" /\ \A u \in Tasks \ {t} : status'[u] = status[u]
    BY <1>3 DEF InsertTask, TypeOK, Types, TableTypes
  <2>3. QueueConsistent'
    BY <1>3, <2>2, QueueAfter DEF InsertTask
  <2> QED
    BY <1>2, <2>1, <2>3 DEF TypeOK, Types
<1>4. CASE CancelTask(t)
  <2>1. ReleaseRow(t, "cancelled") /\ "cancelled" \in Statuses \ {"processing"}
    BY <1>4 DEF CancelTask, Statuses, Terminal
  <2>2. TableTypes' /\ OwnershipConsistent'
    BY <1>4, <2>1, ReleaseRowTypes, ConstantsAssumption DEF CancelTask, TypeOK, Types, TableTypes
  <2>3. status'[t] = "cancelled" /\ \A u \in Tasks \ {t} : status'[u] = status[u]
    BY <2>1, ReleaseRowTypes
  <2>4. QueueConsistent'
    BY <1>4, <2>3, QueueAfter DEF CancelTask
  <2> QED
    BY <1>2, <2>2, <2>4 DEF TypeOK, Types
<1>5. CASE DeleteTask(t)
  <2>1. ReleaseRow(t, "deleted") /\ "deleted" \in Statuses \ {"processing"}
    BY <1>5 DEF DeleteTask, Statuses
  <2>2. TableTypes' /\ OwnershipConsistent'
    BY <1>5, <2>1, ReleaseRowTypes, ConstantsAssumption DEF DeleteTask, TypeOK, Types, TableTypes
  <2>3. status'[t] = "deleted" /\ \A u \in Tasks \ {t} : status'[u] = status[u]
    BY <2>1, ReleaseRowTypes
  <2>4. QueueConsistent'
    BY <1>5, <2>3, QueueAfter DEF DeleteTask
  <2> QED
    BY <1>2, <2>2, <2>4 DEF TypeOK, Types
<1> QED
  BY <1>3, <1>4, <1>5 DEF UserStep

\* The database's half of a claim.
LEMMA ClaimRowTypes ==
    ASSUME TypeOK, NEW w \in Workers, NEW t \in Tasks, ClaimRow(w, t)
    PROVE  /\ TableTypes' /\ OwnershipConsistent' /\ QueueConsistent'
           /\ claims[t] + 1 \in Claims
           /\ claims' \in [Tasks -> 0..MaxClaims]
           /\ claimer' \in [Tasks -> [Claims -> Workers \union {NoWorker}]]
<1>1. TableTypes'
  BY DEF ClaimRow, TypeOK, Types, TableTypes, Statuses
<1>2. OwnershipConsistent'
  BY ConstantsAssumption DEF ClaimRow, TypeOK, Types, TableTypes, OwnershipConsistent
<1>3. status'[t] = "processing" /\ \A u \in Tasks \ {t} : status'[u] = status[u]
  BY DEF ClaimRow, TypeOK, Types, TableTypes
<1>4. QueueConsistent'
  BY <1>3, QueueAfter DEF ClaimRow
<1>5. claims[t] + 1 \in Claims /\ claims' \in [Tasks -> 0..MaxClaims]
  BY ConstantsAssumption DEF ClaimRow, TypeOK, Types, BoundTypes, Claims
<1>6. claimer' \in [Tasks -> [Claims -> Workers \union {NoWorker}]]
  BY EntryUpdate DEF ClaimRow, TypeOK, Types, RunTypes
<1> QED
  BY <1>1, <1>2, <1>4, <1>5, <1>6

\* So do a worker's start, claims, heartbeats, shutdown and crash.
LEMMA ProcessStepTypeOK ==
    ASSUME TypeOK, NEW w \in Workers, ProcessStep(w)
    PROVE  TypeOK'
<1>1. CASE Boot(w)
  <2>1. UNCHANGED <<tableVars, boundVars>>
    BY <1>1 DEF Boot
  <2>2. ProcTypes'
    <3>1. [t \in Tasks |-> IF t \in ReconnectCandidates(w) THEN claims[t] ELSE 0]
            \in [Tasks -> 0..MaxClaims]
      BY ConstantsAssumption DEF TypeOK, Types, BoundTypes
    <3> QED
      BY <1>1, <3>1 DEF Boot, TypeOK, Types, ProcTypes
  <2>3. RunTypes'
    BY <1>1 DEF Boot, TypeOK, Types, RunTypes, TableTypes
  <2> QED
    BY <2>1, <2>2, <2>3, UntouchedTypes DEF TypeOK, Types
<1>2. CASE Shutdown(w)
  <2>1. ProcTypes' /\ RunTypes'
    BY <1>2 DEF Shutdown, TypeOK, Types, ProcTypes, RunTypes
  <2> QED
    BY <1>2, <2>1, UntouchedTypes DEF Shutdown, TypeOK, Types
<1>3. CASE Drained(w)
  <2>1. ProcTypes'
    BY <1>3 DEF Drained, TypeOK, Types, ProcTypes
  <2> QED
    BY <1>3, <2>1, UntouchedTypes DEF Drained, TypeOK, Types
<1>4. CASE Crash(w)
  <2>1. ProcTypes'
    BY <1>4, ConstantsAssumption DEF Crash, TypeOK, Types, ProcTypes
  <2>2. RunTypes'
    BY <1>4, ConstantsAssumption DEF Crash, TypeOK, Types, RunTypes
  <2> QED
    BY <1>4, <2>1, <2>2, UntouchedTypes DEF Crash, TypeOK, Types
<1>5. CASE LoseTask(w)
  <2>1. active' \in [Workers -> [Tasks -> 0..MaxClaims]]
    BY <1>5, ActiveUpdate, ConstantsAssumption DEF LoseTask
  <2>2. ProcTypes'
    BY <1>5, <2>1 DEF LoseTask, TypeOK, Types, ProcTypes
  <2>3. RunTypes'
    BY <1>5, EntryUpdate DEF LoseTask, TypeOK, Types, RunTypes
  <2> QED
    BY <1>5, <2>2, <2>3, UntouchedTypes DEF LoseTask, TypeOK, Types
<1>6. ASSUME NEW t \in Tasks, Claim(w, t)
      PROVE  TypeOK'
  <2>1. ClaimRow(w, t) /\ SpawnTask(w, t, claims[t] + 1) /\ UNCHANGED dbErrors
    BY <1>6 DEF Claim
  <2>2. active' \in [Workers -> [Tasks -> 0..MaxClaims]]
    BY <2>1, ClaimRowTypes, ActiveUpdate, ConstantsAssumption DEF SpawnTask, Claims
  <2>3. ProcTypes'
    BY <2>1, <2>2 DEF ClaimRow, TypeOK, Types, ProcTypes
  <2>4. RunTypes'
    BY <2>1, ClaimRowTypes, EntryUpdate DEF SpawnTask, TypeOK, Types, RunTypes, TableTypes
  <2>5. BoundTypes'
    BY <2>1, ClaimRowTypes DEF ClaimRow, TypeOK, Types, BoundTypes
  <2> QED
    BY <2>1, <2>3, <2>4, <2>5, ClaimRowTypes DEF TypeOK, Types
<1>7. ASSUME NEW t \in Tasks, ClaimLost(w, t)
      PROVE  TypeOK'
  <2>1. ClaimRow(w, t)
    BY <1>7 DEF ClaimLost
  <2>2. ProcTypes'
    BY <1>7 DEF ClaimLost, ClaimRow, TypeOK, Types, ProcTypes
  <2>3. RunTypes'
    BY <1>7, <2>1, ClaimRowTypes DEF ClaimLost, TypeOK, Types, RunTypes
  <2>4. BoundTypes'
    BY <1>7, <2>1, ClaimRowTypes, ConstantsAssumption
    DEF ClaimLost, ClaimRow, TypeOK, Types, BoundTypes
  <2> QED
    BY <2>1, <2>2, <2>3, <2>4, ClaimRowTypes DEF TypeOK, Types
<1>8. ASSUME NEW t \in Tasks, HeartbeatTask(w, t)
      PROVE  TypeOK'
  <2>1. UNCHANGED <<status, queue, runVars, boundVars>>
    BY <1>8 DEF HeartbeatTask
  <2>2. TableTypes' /\ OwnershipConsistent'
    BY <1>8 DEF HeartbeatTask, Owns, TypeOK, Types, TableTypes, OwnershipConsistent
  <2>3. ProcTypes'
    <3>1. <<t, active[w][t]>> \in Tasks \X Claims
      BY <1>8, ConstantsAssumption DEF HeartbeatTask, TypeOK, Types, ProcTypes, Claims
    <3> QED
      BY <1>8, <3>1 DEF HeartbeatTask, TypeOK, Types, ProcTypes
  <2> QED
    BY <2>1, <2>2, <2>3, UntouchedTypes DEF TypeOK, Types
<1> QED
  BY <1>1, <1>2, <1>3, <1>4, <1>5, <1>6, <1>7, <1>8 DEF ProcessStep

\* So do the checkpoints, the progress and the marks of an executor goroutine.
LEMMA ExecutorStepTypeOK ==
    ASSUME TypeOK, NEW t \in Tasks, NEW e \in Claims, ExecutorStep(t, e)
    PROVE  TypeOK'
<1>1. CASE SetTaskCheckpoint(t, e)
  <2>1. stage[t][e] + 1 \in 0..Stages
    BY <1>1, ConstantsAssumption DEF SetTaskCheckpoint, TypeOK, Types, RunTypes
  <2>2. TableTypes'
    BY <1>1, <2>1 DEF SetTaskCheckpoint, TypeOK, Types, TableTypes
  <2>3. RunTypes'
    BY <1>1, <2>1, EntryUpdate DEF SetTaskCheckpoint, TypeOK, Types, RunTypes
  <2> QED
    BY <1>1, <2>2, <2>3, UntouchedTypes DEF SetTaskCheckpoint, TypeOK, Types
<1>2. CASE CheckpointLost(t, e)
  <2>1. stage[t][e] + 1 \in 0..Stages
    BY <1>2, ConstantsAssumption DEF CheckpointLost, TypeOK, Types, RunTypes
  <2>2. RunTypes'
    BY <1>2, <2>1, EntryUpdate DEF CheckpointLost, TypeOK, Types, RunTypes
  <2>3. BoundTypes'
    BY <1>2, ConstantsAssumption DEF CheckpointLost, TypeOK, Types, BoundTypes
  <2> QED
    BY <1>2, <2>2, <2>3, UntouchedTypes DEF CheckpointLost, TypeOK, Types
<1>3. CASE UpdateTaskProgress(t, e)
  <2>1. TableTypes'
    BY <1>3, ConstantsAssumption DEF UpdateTaskProgress, TypeOK, Types, TableTypes, Claims
  <2> QED
    BY <1>3, <2>1, UntouchedTypes DEF UpdateTaskProgress, TypeOK, Types
<1>4. ASSUME Return(t, e), UNCHANGED <<claimer, cancelled, stage>>
      PROVE  RunTypes'
  BY <1>4, EntryUpdate DEF Return, TypeOK, Types, RunTypes
<1>5. ASSUME NEW s \in {"succeeded", "failed"}, status[t] = "processing", ReleaseRow(t, s),
             UNCHANGED queue
      PROVE  /\ status' \in [Tasks -> Statuses]
             /\ workerID' \in [Tasks -> Workers \union {NoWorker}]
             /\ heartbeat' \in [Tasks -> {"none", "fresh", "stale"}]
             /\ OwnershipConsistent' /\ QueueConsistent'
  <2>1. s \in Statuses \ {"processing"} /\ s # "inqueued"
    BY DEF Statuses, Terminal
  <2>2. status'[t] = s /\ \A u \in Tasks \ {t} : status'[u] = status[u]
    BY <1>5, <2>1, ReleaseRowTypes
  <2>3. QueueConsistent'
    BY <1>5, <2>1, <2>2, QueueAfter
  <2> QED
    BY <1>5, <2>1, <2>3, ReleaseRowTypes
<1>6. CASE MarkSucceeded(t, e)
  <2>1. RunTypes'
    BY <1>4, <1>6 DEF MarkSucceeded
  <2>2. TableTypes' /\ OwnershipConsistent' /\ QueueConsistent'
    <3>1. CASE Owns(t, claimer[t][e])
      BY <1>5, <1>6, <3>1, ConstantsAssumption
      DEF MarkSucceeded, Owns, TypeOK, Types, TableTypes
    <3>2. CASE ~Owns(t, claimer[t][e])
      BY <1>6, <3>2, UntouchedTypes DEF MarkSucceeded, tableVars
    <3> QED
      BY <3>1, <3>2
  <2> QED
    BY <1>6, <2>1, <2>2, UntouchedTypes DEF MarkSucceeded, TypeOK, Types
<1>7. CASE MarkFailed(t, e)
  <2>1. RunTypes'
    BY <1>4, <1>7 DEF MarkFailed
  <2>2. TableTypes' /\ OwnershipConsistent' /\ QueueConsistent'
    <3>1. CASE Owns(t, claimer[t][e])
      BY <1>5, <1>7, <3>1, ConstantsAssumption
      DEF MarkFailed, Owns, TypeOK, Types, TableTypes
    <3>2. CASE ~Owns(t, claimer[t][e])
      BY <1>7, <3>2, UntouchedTypes DEF MarkFailed, tableVars
    <3> QED
      BY <3>1, <3>2
  <2> QED
    BY <1>7, <2>1, <2>2, UntouchedTypes DEF MarkFailed, TypeOK, Types
<1>8. CASE MarkLost(t, e)
  <2>1. RunTypes'
    BY <1>4, <1>8 DEF MarkLost
  <2>2. BoundTypes'
    BY <1>8, ConstantsAssumption DEF MarkLost, TypeOK, Types, BoundTypes
  <2> QED
    BY <1>8, <2>1, <2>2, UntouchedTypes DEF MarkLost, TypeOK, Types
<1>9. CASE Abort(t, e)
  BY <1>4, <1>9, UntouchedTypes DEF Abort, TypeOK, Types
<1>10. CASE Exit(t, e)
  <2>1. RunTypes'
    <3>1. 0 \in 0..Stages /\ FALSE \in BOOLEAN
      BY ConstantsAssumption
    <3> QED
      BY <1>10, <3>1, EntryUpdate DEF Exit, TypeOK, Types, RunTypes
  <2>2. active' \in [Workers -> [Tasks -> 0..MaxClaims]]
    BY <1>10, ActiveUpdate, ConstantsAssumption DEF Exit
  <2>3. ProcTypes'
    BY <1>10, <2>2 DEF Exit, TypeOK, Types, ProcTypes
  <2> QED
    BY <1>10, <2>1, <2>3, UntouchedTypes DEF Exit, TypeOK, Types
<1> QED
  BY <1>1, <1>2, <1>3, <1>6, <1>7, <1>8, <1>9, <1>10 DEF ExecutorStep

\* So do the scanner's reap and requeue (scanner.go, tick).
LEMMA ScannerStepTypeOK ==
    ASSUME TypeOK, NEW t \in Tasks, ScannerStep(t)
    PROVE  TypeOK'
<1>1. CASE HeartbeatAges(t)
  <2>1. TableTypes' /\ OwnershipConsistent'
    BY <1>1 DEF HeartbeatAges, TypeOK, Types, TableTypes, OwnershipConsistent
  <2>2. BoundTypes'
    BY <1>1, ConstantsAssumption DEF HeartbeatAges, TypeOK, Types, BoundTypes
  <2> QED
    BY <1>1, <2>1, <2>2, UntouchedTypes DEF HeartbeatAges, TypeOK, Types
<1>2. CASE ReapStaleProcessing(t)
  <2>1. ReleaseRow(t, "inqueued") /\ "inqueued" \in Statuses \ {"processing"}
    BY <1>2 DEF ReapStaleProcessing, Statuses
  <2>2. TableTypes' /\ OwnershipConsistent'
    BY <1>2, <2>1, ReleaseRowTypes DEF ReapStaleProcessing, TypeOK, Types, TableTypes
  <2>3. status'[t] = "inqueued" /\ \A u \in Tasks \ {t} : status'[u] = status[u]
    BY <2>1, ReleaseRowTypes
  <2>4. QueueConsistent'
    BY <1>2, <2>3, QueueAfter DEF ReapStaleProcessing
  <2> QED
    BY <1>2, <2>2, <2>4, UntouchedTypes DEF ReapStaleProcessing, TypeOK, Types
<1>3. CASE RequeueOrphanedInqueued(t)
  <2>1. TableTypes' /\ OwnershipConsistent'
    BY <1>3, UntouchedTypes DEF RequeueOrphanedInqueued, TypeOK, Types, TableTypes
  <2>2. QueueConsistent'
    BY <1>3, QueueAfter DEF RequeueOrphanedInqueued
  <2> QED
    BY <1>3, <2>1, <2>2, UntouchedTypes DEF RequeueOrphanedInqueued, TypeOK, Types
<1> QED
  BY <1>1, <1>2, <1>3 DEF ScannerStep

\* Every step keeps the types and the agreement of the columns.
LEMMA NextTypeOK == TypeOK /\ [Next]_vars => TypeOK'
<1> SUFFICES ASSUME TypeOK, [Next]_vars
             PROVE  TypeOK'
  OBVIOUS
<1>1. CASE Next
  BY <1>1, UserStepTypeOK, ScannerStepTypeOK, ProcessStepTypeOK, ExecutorStepTypeOK DEF Next
<1>2. CASE UNCHANGED vars
  BY <1>2, UntouchedTypes DEF vars, TypeOK, Types
<1> QED
  BY <1>1, <1>2

\* The variables keep their types; a row has a worker_id and a heartbeat exactly
\* while it is 'processing'; and queue_seq orders exactly the 'inqueued' rows, each
\* once, whatever the claims, cancellations, reaps and requeues did (tasks.sql).
THEOREM TypeCorrectness == Spec => []TypeOK
<1> QED
  BY InitTypeOK, NextTypeOK, PTL DEF Spec
================================================================================
