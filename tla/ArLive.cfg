CONSTANTS
    c1 = c1
    c2 = c2
    h1 = h1
    h2 = h2
    plain = plain
    alias = alias
    r1 = r1
    r2 = r2
    NoHandle = NoHandle
    Handles = {h1, h2}
    Clients = {c1, c2}
    Questions = {plain}
    Contents = {r1}
    Chain <- ChainOf
    Oversized = {}
    Unbuildable = {}
    Depth = 0
    Retries = 0
    UseTCP = FALSE
    Timers = {"retry"}
    Waits = {"none"}
    Limits = {"infinite"}
    Faults = {}
    MaxBreaks = 0
    CtlMax = 1
SPECIFICATION FairSpec
PROPERTIES WaitersReturn PendingDrains ShutdownCompletes
