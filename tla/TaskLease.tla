------------------------------- MODULE TaskLease -------------------------------
(***************************************************************************)
(* What the task queue promises, without heartbeats, scanners, goroutines  *)
(* or crashes: a task is submitted once, is leased to one worker at a      *)
(* time, only the lease holder may record progress or conclude it, and a   *)
(* concluded task keeps its outcome and its output until it is dropped.    *)
(* TaskQueue.tla is shown to implement this specification.                 *)
(***************************************************************************)
EXTENDS Integers

CONSTANTS
    Tasks,      \* task identifiers
    Workers,    \* worker identities (one per process life)
    NoWorker,   \* "leased to nobody"
    Stages      \* number of stages of a task, the value of a complete output

VARIABLES
    phase,      \* where each task stands
    holder,     \* who leases it
    saved       \* how much of its work is recorded

vars == <<phase, holder, saved>>

Outcomes == {"succeeded", "failed", "cancelled"}
Phases == {"absent", "waiting", "leased", "dropped"} \union Outcomes

Init ==
    /\ phase = [t \in Tasks |-> "absent"]
    /\ holder = [t \in Tasks |-> NoWorker]
    /\ saved = [t \in Tasks |-> 0]

\* A task is born waiting, and its identifier is used once.
Submit(t) ==
    /\ phase[t] = "absent"
    /\ phase' = [phase EXCEPT ![t] = "waiting"]
    /\ UNCHANGED <<holder, saved>>

Grant(t, w) ==
    /\ phase[t] = "waiting"
    /\ phase' = [phase EXCEPT ![t] = "leased"]
    /\ holder' = [holder EXCEPT ![t] = w]
    /\ UNCHANGED saved

\* The lease lapses: the task waits again and keeps the work recorded so far.
Revoke(t) ==
    /\ phase[t] = "leased"
    /\ phase' = [phase EXCEPT ![t] = "waiting"]
    /\ holder' = [holder EXCEPT ![t] = NoWorker]
    /\ UNCHANGED saved

Record(t, w) ==
    /\ phase[t] = "leased"
    /\ holder[t] = w
    /\ \E n \in 1..Stages : saved' = [saved EXCEPT ![t] = n]
    /\ UNCHANGED <<phase, holder>>

\* Success means a complete output; a failure keeps what was recorded.
Conclude(t, w) ==
    /\ phase[t] = "leased"
    /\ holder[t] = w
    /\ holder' = [holder EXCEPT ![t] = NoWorker]
    /\ \/ /\ phase' = [phase EXCEPT ![t] = "succeeded"]
          /\ saved' = [saved EXCEPT ![t] = Stages]
       \/ /\ phase' = [phase EXCEPT ![t] = "failed"]
          /\ UNCHANGED saved

Cancel(t) ==
    /\ phase[t] \in {"waiting", "leased"}
    /\ phase' = [phase EXCEPT ![t] = "cancelled"]
    /\ holder' = [holder EXCEPT ![t] = NoWorker]
    /\ UNCHANGED saved

Drop(t) ==
    /\ phase[t] \notin {"absent", "dropped"}
    /\ phase' = [phase EXCEPT ![t] = "dropped"]
    /\ holder' = [holder EXCEPT ![t] = NoWorker]
    /\ saved' = [saved EXCEPT ![t] = 0]

Next ==
    \E t \in Tasks :
        \/ Submit(t) \/ Revoke(t) \/ Cancel(t) \/ Drop(t)
        \/ \E w \in Workers : Grant(t, w) \/ Record(t, w) \/ Conclude(t, w)

Spec == Init /\ [][Next]_vars
================================================================================
