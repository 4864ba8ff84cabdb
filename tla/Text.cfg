SPECIFICATION Spec
CONSTANTS
    Inputs <- MCInputs
    BufSize = 3
    TmpSize = 3
INVARIANTS CanonicalBody RefoldingIsHarmless FromBottom TagsReadBack
CHECK_DEADLOCK FALSE
