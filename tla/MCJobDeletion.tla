----------------------------- MODULE MCJobDeletion -----------------------------
(* One file and one worker: the subtask or the finalize task, a call of    *)
(* the API and a deletion go on at the same time, and one process dies.    *)
EXTENDS JobDeletion
================================================================================
