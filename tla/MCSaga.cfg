CONSTANTS
    Steps <- MCSteps
    DependsOn <- MCDependsOn
    LayerOf <- MCLayerOf
    NumLayers = 4
    Attempts <- MCAttempts
    CompRetry <- MCCompRetry
    Compensable = {1, 2, 3, 5}
    TimedSteps = {2}
    Shielding = {3}
    Settings <- MCSettings
SPECIFICATION FairSpec
INVARIANTS DependencyOrder QuietRollback CompensationOrder AllOrNothing RecordTruthful
PROPERTIES Settles
CHECK_DEADLOCK FALSE
