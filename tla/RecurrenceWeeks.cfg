CONSTANTS
  r1 = r1
  r2 = r2
  MaxYear = 2012
  Readers <- MCReaders
  Objects <- MCWeeks
  Chunk = 2
  MaxChanges = 1
SPECIFICATION Spec
INVARIANTS WeekNumbersAreIso
CHECK_DEADLOCK FALSE
