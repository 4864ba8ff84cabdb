CONSTANTS
    c1 = c1
    c2 = c2
    f1 = f1
    f2 = f2
    f3 = f3
    f4 = f4
    NoConf = NoConf
    Conns = {c1, c2}
    Confs = {f1, f2, f3, f4}
    MaxEdits = 2
    Rejects = TRUE
SYMMETRY Sym
SPECIFICATION Spec
INVARIANTS RefsCounted NoUseAfterFree
PROPERTIES LeaksOnlyOnReject NeverOlder OneHandle
