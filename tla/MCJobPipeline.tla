----------------------------- MODULE MCJobPipeline -----------------------------
(* One file and up to two workers: a subtask and the finalize task, or the *)
(* same task twice, run at the same time.                                  *)
EXTENDS JobPipeline
================================================================================
