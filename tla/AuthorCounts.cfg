SPECIFICATION Spec
CONSTANTS
    Configs <- AdspOnly
    Mails <- TwoSigned
    Keys <- MCKeys
    AuthorKeys = {"k1", "k3"}
    TestKeys = {"k2"}
    Practices <- MCPractices
INVARIANTS AuthorCounts
CHECK_DEADLOCK FALSE
