SPECIFICATION lrFairSpec
CONSTANTS
    MaxPhases = 4
    MaxSteps = 3
    MaxOutcomes = 4
    BatchLimit <- MCBatchLimit
CHECK_DEADLOCK FALSE
INVARIANTS
    RunIsAccountedFor
PROPERTIES
    RunEndsPromptly
