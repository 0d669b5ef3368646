----------------------------- MODULE MCLessonContent -----------------------------
(***************************************************************************)
(* LessonContent on small instances.                                       *)
(***************************************************************************)
EXTENDS LessonContent
================================================================================
