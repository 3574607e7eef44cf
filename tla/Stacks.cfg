CONSTANTS
  Resources <- StackResources
  Modules <- StackModules
  References <- StackReferences
  DependsOn <- StackDependsOn
  Needs <- StackNeeds
  DropNeeds <- StackDropNeeds
  Undeclared <- StackUndeclared
  Unique <- StackUnique
  Rivals <- StackRivals
  Parallelism <- OperationsAtATime
  MaxFaults <- FaultBound
SPECIFICATION Spec
INVARIANTS TypeOK NeedsHeld
PROPERTIES StopsOnlyAtDoubtful RetryCompletes
