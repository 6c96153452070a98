---------------------------- MODULE MCJobStateFile ----------------------------
(* Two files and two callers: the callers can be in the same method for    *)
(* the same file, in two methods for the same file, or race for the last.  *)
EXTENDS JobStateFile, TLC

Symmetry == Permutations(Files) \cup Permutations(Callers)
================================================================================
