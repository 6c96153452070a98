----------------------------- MODULE MCConfigStore -----------------------------
(* Three processes on one name: a writer, a get and a third that meets both.  *)
EXTENDS ConfigStore, TLC

ProcSymmetry == Permutations(Procs)
TextSymmetry == Permutations(Contents)
Symmetry     == ProcSymmetry \cup TextSymmetry
================================================================================
