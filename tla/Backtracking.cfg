SPECIFICATION Spec
CONSTANTS
    Var <- LateVar
    Instances <- LateInstances
    MaxRestarts = 0
    MaxDeletions = 0
    MaxModels = 20
INVARIANTS
    AllAnswers
CHECK_DEADLOCK FALSE
