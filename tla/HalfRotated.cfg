SPECIFICATION Spec
CONSTANTS
  Procs = {p1, p2}
  RotateAt = 1
  MaxLines = 1
  Faults = {"crash"}
  Inherited = FALSE
SYMMETRY ProcSymmetry
INVARIANT
  NoRecordSkipped
