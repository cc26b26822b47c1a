SPECIFICATION FairSpec
CONSTANTS
    Devices = {d1}
    Uploads = {u1, u2}
    Admins = {a1}
    LastContent = 3
    InstalledCount <- ProgramCounts
    SoftwareLimit = 1
    Values = {v1, v2}
    NoValue = v0
    EditBudget = 2
    AbortBudget = 1
INVARIANTS
    TruncationTold
    AnsweredIdExists
PROPERTIES
    InventoryAtomic
    SerialHistoryMatches
    InventoryArrives
