----------------------------- MODULE MCLogFiles -----------------------------
(* Small instances of LogFiles for TLC. *)
EXTENDS LogFiles, TLC

ProcSymmetry == Permutations(Procs)
=============================================================================
