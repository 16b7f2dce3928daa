SPECIFICATION Spec
CONSTANTS
  Procs = {p1, p2}
  Width = 2
  MaxMs = 2
  MaxSessions = 3
  MaxWritten = 3
SYMMETRY ProcSymmetry
INVARIANTS
  SessionIdsIncrease
  TailsRespected
