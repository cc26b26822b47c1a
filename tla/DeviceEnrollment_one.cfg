SPECIFICATION FairSpec
CONSTANTS
    Loops = {heartbeat}
    Startup = startup
    UnauthorizedThreshold = 3
    EnvTokens = {TRUE, FALSE}
    FaultBudget <- EveryFault
INVARIANTS
    HeldIsNewest
    CredentialLossHasCause
    DiskKeepsUp
PROPERTIES
    RecoveryCompletes
CHECK_DEADLOCK FALSE
