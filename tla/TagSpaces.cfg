SPECIFICATION Spec
CONSTANTS
    Inputs <- MCInputs
    BufSize = 3
    TmpSize = 3
INVARIANTS SignatureBlanked
CHECK_DEADLOCK FALSE
