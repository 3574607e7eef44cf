CONSTANTS
  Databases = {db1, db2}
  MaxPassword = 4
  MaxKills = 2
  Slots <- GroupSlots
  Rules <- GroupRuleNames
  Owned <- GroupOwned
  Inline <- GroupInline
  Standalone <- GroupStandalone
  Conflicting <- GroupConflicting
  MaxEdits = 1
SYMMETRY Symmetry
SPECIFICATION SettingsSpec
INVARIANTS TypeOK SnapshotsAreEmpty
PROPERTIES AppliesOnlyTakeBack LossIsPermanent ApplySettles
