SPECIFICATION Spec
CONSTANTS
    Atom <- MCAtom
    Inputs <- MCInputs
INVARIANTS
    SimplificationPreserves
    SupportCountExact
    CompletionExact
CHECK_DEADLOCK FALSE
