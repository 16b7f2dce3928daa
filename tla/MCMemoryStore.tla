--------------------------- MODULE MCMemoryStore ---------------------------
(* Small instances of MemoryStore for TLC. *)
EXTENDS MemoryStore, TLC

CONSTANTS s, p, o1, o2  \* a subject, a predicate and two objects

\* Two facts that conflict under a single-valued predicate.
Fact(object) == [subject |-> s, predicate |-> p, object |-> object]
OneFact == {Fact(o1)}
TwoFacts == {Fact(o1), Fact(o2)}

ProcSymmetry == Permutations(Procs)
ProcAndReasonSymmetry == Permutations(Procs) \cup Permutations(Reasons)
ProcAndObjectSymmetry == Permutations(Procs) \cup Permutations({o1, o2})
=============================================================================
