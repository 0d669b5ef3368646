SPECIFICATION Spec
CONSTANTS
    N = 2
    Kinds = {"extract", "chunk", "generate"}
    MaxReplies = 1
    MaxVisits = 1
    OtherTab = TRUE
    Overtaking = FALSE
    Lossy = TRUE
    Openings = {"failed", "extracted", "ready", "extracting", "piping"}
INVARIANTS TypeOK CardsAreFresh
 
CHECK_DEADLOCK FALSE
