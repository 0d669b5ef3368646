--------------------------- MODULE MCStudentPlayer ---------------------------
EXTENDS StudentPlayer

MCItems == {1, 2}

(* A question before the start and one in the middle; two in the middle;   *)
(* one in the middle and one past the end of the video.                    *)
MCLessons == {<<0, 3>>, <<2, 4>>, <<3, 7>>}
=============================================================================
