CONSTANTS
  Deliveries = {d1}
  LocalRuns = {}
  MaxTries = 2
  Overlap = FALSE
  Faults = {"timeout"}
  InitialPassword = InitialPassword
SPECIFICATION Spec
INVARIANT FetchedIsCurrent
