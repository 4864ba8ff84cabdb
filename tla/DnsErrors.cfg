SPECIFICATION Spec
CONSTANTS
    Configs <- Unlogged
    Mails <- Unsigned
    Keys <- MCKeys
    AuthorKeys = {"k1", "k3"}
    TestKeys = {"k2"}
    Practices <- MCPractices
INVARIANTS DnsErrorHandled
CHECK_DEADLOCK FALSE
