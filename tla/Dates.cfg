CONSTANTS
  r1 = r1
  r2 = r2
  MaxYear = 2007
  Readers <- MCReaders
  Objects <- MCObjects
  Chunk = 2
  MaxChanges = 1
  DayLength = 4
  YearLength = 20
  ClockEnd = 45
  MaxOffset = 5
  ClockZones <- MCZones
  Moments <- MCMoments
  Deltas <- MCDeltas
  YearDays <- MCYearDays
  Factors <- MCFactors
  MaxOps = 3
SPECIFICATION DatesSpec
INVARIANTS TypeOK ReadsAgree ReadsAreExact FailuresHaveCause
INVARIANTS ClockIsRight EntriesAreRight
INVARIANTS NothingIsLost DeltasLeadRight
PROPERTIES WholeWhenComplete IterationsEnd
CHECK_DEADLOCK FALSE
