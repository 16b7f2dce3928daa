SPECIFICATION Spec
CONSTANTS
  Procs = {p1, p2}
  Ids = {1, 2, 3, 4, 5}
  s = s
  p = p
  o1 = o1
  o2 = o2
  Entities = {s, o1, o2}
  Predicates = {p}
  Triples <- OneFact
  SingleValued = {p}
  Sources = {src}
  Reasons = {r1, r2}
  Ops = {"record_event", "propose", "promote", "reject"}
  Faults = {"crash"}
  ReplayModes = {"strict", "lenient"}
  MaxClock = 1
  MintSpread = 1
  MaxEvents = 1
  MaxLines = 5
SYMMETRY ProcAndReasonSymmetry
INVARIANTS
  TypeOK
  LogFirst
  CommittedLogIsDb
  PromotionPaired
  StrictRebuildKeepsDecisions
PROPERTIES
  ImplementsLifecycle
