SPECIFICATION LiveSpec
CONSTANTS
    Tasks = {t1}
    Workers = {w1, w2}
    NoWorker = NoWorker
    Stages = 3
    MaxClaims = 3
    MaxLapses = 0
    MaxDbErrors = 1
INVARIANT LiveIsTracked
PROPERTIES LostRunStops SubmittedIsConcluded
\* Once every task is concluded and nothing runs, the queue rests.
CHECK_DEADLOCK FALSE
