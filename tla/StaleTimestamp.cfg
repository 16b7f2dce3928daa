SPECIFICATION Spec
CONSTANTS
  Procs = {p1, p2}
  Ids = {1, 2, 3}
  s = s
  p = p
  o1 = o1
  o2 = o2
  Entities = {s, o1, o2}
  Predicates = {p}
  Triples <- OneFact
  SingleValued = {p}
  Sources = {src}
  Reasons = {r1}
  Ops = {"add_claim"}
  Faults = {}
  ReplayModes = {"strict"}
  MaxClock = 2
  MintSpread = 1
  MaxEvents = 0
  MaxLines = 4
SYMMETRY ProcSymmetry
INVARIANT
  EveryLineReplays
