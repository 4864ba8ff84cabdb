SPECIFICATION TestSpec
CONSTANTS
    KeyNames <- MCKeyNames
    Setups <- AppendedSetups
    Ignorable = {1}
    MaxBody = 2
    MaxHeaders = 5
INVARIANTS OwnLength
CHECK_DEADLOCK FALSE
