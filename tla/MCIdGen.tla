------------------------------ MODULE MCIdGen ------------------------------
(* Small instances of IdGen for TLC. *)
EXTENDS IdGen, TLC

ProcSymmetry == Permutations(Procs)
=============================================================================
