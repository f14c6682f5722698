CONSTANT
    Programs <- MCPrograms
SPECIFICATION Spec
INVARIANTS
    AnswerExact
    ClausesImplied
    NothingUnfounded
    SumsPropagated
    SumReasons
