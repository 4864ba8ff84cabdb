SPECIFICATION TestSpec
CONSTANTS
    KeyNames <- MCKeyNames
    Setups <- MCSetups
    Ignorable = {1}
    MaxBody = 2
    MaxHeaders = 5
INVARIANTS VerdictSound GoodWins StreamingAgrees ReplayAgrees
CHECK_DEADLOCK FALSE
