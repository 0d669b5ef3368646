SPECIFICATION Spec
CONSTANTS
    Tasks = {t1}
    Workers = {w1, w2}
    NoWorker = NoWorker
    Stages = 2
    MaxClaims = 3
    MaxLapses = 1
    MaxDbErrors = 1
SYMMETRY Interchangeable
INVARIANTS TypeOK AtMostOneExecution OwnedByLatestClaimer
PROPERTIES ZombieWritesNothing ImplementsLease
\* Once every task is concluded and nothing runs, the queue rests.
CHECK_DEADLOCK FALSE
