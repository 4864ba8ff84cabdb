SPECIFICATION Spec
CONSTANTS
    Configs <- KeepsRecipients
    Mails <- Unsigned
    Keys <- MCKeys
    AuthorKeys = {"k1", "k3"}
    TestKeys = {"k2"}
    Practices <- MCPractices
INVARIANTS ContextThere
CHECK_DEADLOCK FALSE
