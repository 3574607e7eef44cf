CONSTANTS
  Deliveries = {d1, d2}
  LocalRuns = {}
  MaxTries = 2
  Overlap = FALSE
  Faults = {"error", "timeout", "lostreply"}
  InitialPassword = InitialPassword
SPECIFICATION FairSpec
PROPERTIES ImplementsHandover DeliveriesSettle RotationsSucceed
