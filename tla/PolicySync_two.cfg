SPECIFICATION Spec
CONSTANTS
    Replicas = {r1, r2}
    Nobody = nobody
    Day = 3
    Skew = 1
    LockAtLeast = 2
    LockAtMost = 2
    Requests = {q1}
    p1 = p1
    p2 = p2
    Policies <- TwoPolicies
    LastList = 2
    Listed <- TwoLists
    Absent = absent
    Faults = {"stop"}
    MostFaults = 1
INVARIANTS
    LockCovers
PROPERTIES
    OncePerDay
