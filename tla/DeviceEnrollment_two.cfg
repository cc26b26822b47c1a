SPECIFICATION FairSpec
CONSTANTS
    Loops = {heartbeat, update}
    Startup = startup
    UnauthorizedThreshold = 2
    EnvTokens = {FALSE}
    FaultBudget <- RecoveryFaults
PROPERTIES
    SerialHoldsNewest
    StrandedIsVisible
    RecoveredTurnsGreen
CHECK_DEADLOCK FALSE
