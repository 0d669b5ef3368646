--------------------------- MODULE MCLessonAnalysis ---------------------------
EXTENDS LessonAnalysis
=============================================================================
