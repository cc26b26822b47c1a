SPECIFICATION FairSpec
CONSTANTS
    Replicas = {r1}
    Nobody = nobody
    Day = 3
    Skew = 1
    LockAtLeast = 2
    LockAtMost = 3
    Requests = {q1}
    p1 = p1
    p2 = p2
    Policies <- TwoPolicies
    LastList = 2
    Listed <- TwoLists
    Absent = absent
    Faults <- FaultKinds
    MostFaults = 2
INVARIANTS
    RunningHasRun
PROPERTIES
    SuccessIsImported
    PoliciesArrive
