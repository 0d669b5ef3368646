SPECIFICATION Spec
CONSTANTS
    NewLessons = {l1, l2}
    None = None
SYMMETRY SameLessons
INVARIANTS TypeOK UploadHolds AttemptEnds 
PROPERTIES  RefreshKeepsAnswers
\* Nothing is left to do once the clicks are spent.
CHECK_DEADLOCK FALSE
