SPECIFICATION Spec
CONSTANTS
    Phases <- MCPhases
    SmokeSteps <- MCSmokeSteps
    MaxFaults = 2
    Pairs = 1
    MaxEdits = 0
    MaxKills = 0
    MaxRecoveries = 1
CHECK_DEADLOCK FALSE
PROPERTIES
    HardFailureBlocksResume
