CONSTANTS
  Slots <- GroupSlots
  Rules <- GroupRuleNames
  Owned <- GroupOwned
  Inline <- GroupInline
  Standalone <- GroupStandalone
  Conflicting <- GroupConflicting
  MaxEdits = 0
SPECIFICATION GroupsSpec
PROPERTY RuleResourcesHold
