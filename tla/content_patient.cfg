SPECIFICATION Spec
CONSTANTS
    Started = {"transcribe", "chunk", "quiz_gen", "pipeline_run"}
    MaxTasks = 3
    MaxRuns = 2
    MaxChunks = 4
    MaxEdits = 1
    MaxCrashes = 1
    MaxFaults = 0
    Patient = TRUE
INVARIANTS TypeOK ContentConsistent OneGenerationEach
PROPERTY PipelineDelivers
\* Everything submitted may have been done.
CHECK_DEADLOCK FALSE
