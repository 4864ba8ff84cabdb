CONSTANTS
    US = 4
    Seconds = 3
    Intervals <- WithZero
SPECIFICATION Spec
INVARIANTS SleepsExactly OnTime
PROPERTIES NeverPastExpiry
