CONSTANTS
    h1 = h1
    h2 = h2
    h3 = h3
    h4 = h4
    Null = Null
    Handles = {h1, h2, h3, h4}
SYMMETRY Sym
SPECIFICATION WakeFailsSpec
INVARIANTS HandedOutFree
