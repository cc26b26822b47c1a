SPECIFICATION FairSpec
CONSTANTS
    b9 = b9
    b10 = b10
    b10x = b10x
    b11 = b11
    bBig = bBig
    None = None
    Damaged = Damaged
    Versions <- AllVersions
    Builds <- AllBuilds
    AssemblyVersion <- Compiled
    Candidates <- PlainReleases
    Seed <- Published9
    Uploaders = {upload1}
    Devices = {pc1}
    MaxComponent = 20
    Preinstalled <- OldAndNew
    FaultBudget <- EveryFault
PROPERTIES
    NoDowngrade
    NewestReachesDevices
    UpdatesSettle
    SerialUploadsIncrease
