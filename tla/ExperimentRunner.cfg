SPECIFICATION Spec
CONSTANTS
    Phases <- MCPhases
    SmokeSteps <- MCSmokeSteps
    MaxFaults = 1
    Pairs = 1
    MaxEdits = 1
    MaxKills = 1
    MaxRecoveries = 1
CHECK_DEADLOCK FALSE
INVARIANTS
    TypeOK
    FormalIsReviewed
    PairsAgree
PROPERTIES
    RecordedFailureBlocks
    ResultsAreMeasured
    ExecuteReturns
