----------------------------- MODULE MCJobService -----------------------------
(* Three files are enough for two calls to race for the last one while a   *)
(* third subtask is in any status.                                         *)
EXTENDS JobService, TLC

FileSymmetry == Permutations(Files)
================================================================================
