CONSTANTS
  MaxOps = 3
  MaxRaises = 1
SPECIFICATION ConnectionSpec
INVARIANTS TypeOK StepIsKept HangsOnlyOnStaleBind ExchangeIsRight
PROPERTIES CommitIsHonest CallsEnd
CHECK_DEADLOCK FALSE
