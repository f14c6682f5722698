SPECIFICATION Spec
CONSTANTS
    Var <- MCVar
    Instances <- MCInstances
    MaxRestarts = 1
    MaxDeletions = 1
    MaxModels = 9
INVARIANTS
    DatabaseImplied
    PropagationComplete
    CoreOrModel
PROPERTIES
    ImplementsEnumerator
    Termination
CHECK_DEADLOCK FALSE
