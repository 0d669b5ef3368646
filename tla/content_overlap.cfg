SPECIFICATION Spec
CONSTANTS
    Started = {"quiz_gen", "pipeline_run"}
    MaxTasks = 2
    MaxRuns = 2
    MaxChunks = 2
    MaxEdits = 0
    MaxCrashes = 0
    MaxFaults = 1
    Patient = FALSE
INVARIANTS LockHeldByRunner NoResumeDuplicates
\* Everything submitted may have been done.
CHECK_DEADLOCK FALSE
