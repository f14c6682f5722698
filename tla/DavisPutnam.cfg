CONSTANTS
    Var <- VarMC
    Formulas <- FormulasMC
SPECIFICATION ListSpec
INVARIANTS
    Sound
    Complete
    BranchMinimal
PROPERTIES
    ImplementsDPLL
    Termination
CHECK_DEADLOCK FALSE
