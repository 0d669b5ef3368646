SPECIFICATION LiveSpec
CONSTANTS
  Items <- MCItems
  Lessons <- MCLessons
  Duration = 6
  SaveInterval = 2
  ResumeMin = 1
  MaxMoves = 1
  MaxOpens = 1
  MaxInFlight = 1
  None = None
INVARIANTS TypeOK 
PROPERTY EveryQuestionAsked
CHECK_DEADLOCK FALSE
