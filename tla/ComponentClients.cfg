CONSTANTS
    Var <- VarMC
    NumRules = 4
    RuleIdx <- RuleIdxMC
    Theories <- TheoriesMC
SPECIFICATION SolverSpec
INVARIANTS
    ComponentsExact
    ModelWhenDone
    FinalsMinimal
    IndexExact
    ReducedByPlaced
    ResidualEquivalent
PROPERTIES
    PositiveEnds
CHECK_DEADLOCK FALSE
