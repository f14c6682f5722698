CONSTANTS
    Problems <- MCProblems
    Algorithms <- MCAlgorithms
SPECIFICATION Spec
INVARIANTS
    CostPreserved
    OptimumEnclosed
    LevelClosed
    AnswersEnclosed
    SetIsMinimal
PROPERTIES
    RoundIsMinimal
    
