SPECIFICATION Spec
CONSTANTS
  Procs = {p1, p2}
  Ids = {1, 2, 3}
  s = s
  p = p
  o1 = o1
  o2 = o2
  Entities = {s, o1, o2}
  Predicates = {p}
  Triples <- TwoFacts
  SingleValued = {p}
  Sources = {src}
  Reasons = {r1}
  Ops = {"add_claim", "retire", "consolidate"}
  Faults = {"crash"}
  ReplayModes = {"strict"}
  MaxClock = 1
  MintSpread = 2
  MaxEvents = 0
  MaxLines = 4
SYMMETRY ProcAndObjectSymmetry
INVARIANTS
  CommittedLogIsDb
PROPERTIES
  ImplementsLifecycle
  ConsolidationLeavesOneAnswer
