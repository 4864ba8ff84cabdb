SPECIFICATION Spec
CONSTANTS
    Configs <- MCConfigs
    Mails <- MCMails
    Keys <- MCKeys
    AuthorKeys = {"k1", "k3"}
    TestKeys = {"k2"}
    Practices <- MCPractices
INVARIANTS PassSound DiscardHonoured OutgoingSigned ClaimsRemoved
CHECK_DEADLOCK FALSE
