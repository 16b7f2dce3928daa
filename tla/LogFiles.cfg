SPECIFICATION FairSpec
CONSTANTS
  Procs = {p1, p2}
  RotateAt = 1
  MaxLines = 2
  Faults = {"crash", "io_error"}
  Inherited = TRUE
INVARIANTS
  AppendsReachActive
  TornLinesCostOneEach
PROPERTIES
  ImplementsLogSeries
  FinalizeRepairs
  CallsReturn
