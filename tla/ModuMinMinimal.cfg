CONSTANTS
    Var <- VarMC
    NumRules = 4
    RuleIdx <- RuleIdxMC
    Theories <- TheoriesMC
SPECIFICATION SolverSpec
INVARIANTS
    MinimalWhenDone
CHECK_DEADLOCK FALSE
