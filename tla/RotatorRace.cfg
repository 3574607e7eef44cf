CONSTANTS
  Deliveries = {d1, d2}
  LocalRuns = {}
  MaxTries = 1
  Overlap = TRUE
  Faults = {}
  InitialPassword = InitialPassword
SPECIFICATION Spec
INVARIANT SuccessMeansPublished
