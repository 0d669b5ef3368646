------------------------------ MODULE MCTaskQueue ------------------------------
(***************************************************************************)
(* TaskQueue on small instances.                                           *)
(***************************************************************************)
EXTENDS TaskQueue

\* Worker ids and task ids are interchangeable: no definition of TaskQueue names
\* one or orders them.  Used by the runs without liveness only.
Interchangeable == Permutations(Tasks) \union Permutations(Workers)
================================================================================
