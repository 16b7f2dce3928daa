SPECIFICATION Spec
CONSTANTS
  Procs = {p1, p2}
  Sessions = {s1, s2}
  Kinds = {"message"}
  Drafts <- TwoJudgements
  Observers <- OneObserver
  Digest <- SmallDigest
  Keeps = {1}
  MaxClock = 1
  MaxEvents = 2
  MaxLines = 4
SYMMETRY ProcSymmetry
INVARIANTS
  TypeOK
  ShownIsLogged
  
  PruneKeepsTheBest
PROPERTIES
  ExtractionSignalStays
