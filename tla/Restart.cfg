CONSTANTS
    MaxRestarts = 2
    RateN = 2
    RateT = 2
    Start = 100
    Span = 3
    MaxForks = 4
SPECIFICATION FairSpec
INVARIANTS OneFilter NoOrphan CountRespected
PROPERTIES GivesUp
