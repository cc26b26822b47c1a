SPECIFICATION Spec
CONSTANTS
    None = None
    Slots = {s1, s2}
    MaxVersion = 1
    MaxSessions = 3
    ListLimit = 2
    World <- MCWorld
INVARIANTS
    SettledIsFresh
    FiguresAgree
PROPERTIES
    SignedOutHasCause
SYMMETRY Symmetry
