CONSTANTS
  t1 = t1
  t2 = t2
  file = file
  rule1 = rule1
  rule2 = rule2
  local = local
  nothing = nothing
  Threads <- MCThreads
  Files <- MCFiles
  Rules <- MCRules
  Locals <- MCLocals
  Unknown <- MCUnknown
  Uses <- MCUses
  StrongSize = 1
  Sizes <- MCSizes
  MaxKept = 2
SPECIFICATION Spec
INVARIANTS TypeOK OneZonePerName
PROPERTIES CallsReturn
