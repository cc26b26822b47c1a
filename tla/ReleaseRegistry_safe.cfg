SPECIFICATION Spec
CONSTANTS
    b9 = b9
    b10 = b10
    b10x = b10x
    b11 = b11
    bBig = bBig
    None = None
    Damaged = Damaged
    Versions <- AllVersions
    Builds <- AllBuilds
    AssemblyVersion <- Compiled
    Candidates <- AllReleases
    Seed <- Published9
    Uploaders = {upload1, upload2}
    Devices = {pc1}
    MaxComponent = 20
    Preinstalled <- Old
    FaultBudget <- RegistryFaults
INVARIANTS
    PublishedHasFile
    StaysReadable
    RunsPublished
PROPERTIES
    SerialUploadsMatch
