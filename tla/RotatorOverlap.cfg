CONSTANTS
  Deliveries = {d1, d2, d3}
  LocalRuns = {l1}
  MaxTries = 1
  Overlap = TRUE
  Faults = {"error", "timeout", "lostreply", "orphan"}
  InitialPassword = InitialPassword
SPECIFICATION Spec
SYMMETRY Symmetry
INVARIANTS TypeOK PublishedWasInForce DivergenceHasCause
PROPERTY LockoutIsPermanent
