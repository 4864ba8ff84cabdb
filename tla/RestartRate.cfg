CONSTANTS
    MaxRestarts = 0
    RateN = 1
    RateT = 2
    Start = 100
    Span = 3
    MaxForks = 4
SPECIFICATION FairSpec
INVARIANTS RateRespected
CHECK_DEADLOCK FALSE
