CONSTANTS
  a1 = a1
  a2 = a2
  m1 = m1
  g1 = g1
  Apps <- MCApps
  Managers <- MCManagers
  Gids <- MCGids
  MaxWork = 2
  MaxLosses = 1
SPECIFICATION Spec
INVARIANTS TypeOK CommittedWasAsked ReportsAreTrue
PROPERTY PreparedEnds
CHECK_DEADLOCK FALSE
