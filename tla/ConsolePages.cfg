SPECIFICATION Spec
CONSTANTS
    None = None
    Slots = {s1, s2}
    MaxVersion = 2
    MaxFailures = 1
INVARIANTS
    NoDoubleSubmit
    EmptyOnlyIfRead
PROPERTIES
    ViewKept
    CommandShown
    PolledPageSettles
