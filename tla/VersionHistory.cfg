SPECIFICATION FairSpec
CONSTANTS
    Devices = {pc1}
    Requests = {r1, r2}
    LastVersion = 3
    NoVersion = none
    AbortBudget = 2
INVARIANTS
    ShownIsRecorded
PROPERTIES
    SerialHistoryIsChain
    VersionSettles
