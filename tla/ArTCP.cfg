CONSTANTS
    c1 = c1
    c2 = c2
    h1 = h1
    h2 = h2
    plain = plain
    alias = alias
    r1 = r1
    r2 = r2
    NoHandle = NoHandle
    Handles = {h1, h2}
    Clients = {c1, c2}
    Questions = {plain}
    Contents = {r1}
    Chain <- ChainOf
    Oversized = {}
    Unbuildable = {}
    Depth = 1
    Retries = 1
    UseTCP = TRUE
    Timers = {"retry", "query"}
    Waits = {"given"}
    Limits = {"finite"}
    Faults = {"connfail", "sendfail", "recvfail", "wakefail"}
    MaxBreaks = 1
    CtlMax = 1
SYMMETRY Sym
SPECIFICATION Spec
INVARIANTS HandlesPlaced NoLostWakeup NoLostSignal ExpiredIsLate
CHECK_DEADLOCK FALSE
