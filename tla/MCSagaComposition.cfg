CONSTANTS
  Sagas = {1, 2, 3, 4, 5}
  DependsOn <- MCDependsOn
  FlowsFrom <- MCFlowsFrom
  Policy = "STRICT_SEQUENTIAL"
  Cancellable = TRUE
SPECIFICATION CompositionFairSpec
INVARIANTS FlowsArrive RecordedAreUndone
PROPERTIES DependentsFirst
CHECK_DEADLOCK FALSE
