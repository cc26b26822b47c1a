SPECIFICATION Spec
CONSTANTS
    None = None
    Assets = {a, b}
    Fields = {f, g}
    Empty = Empty
    Values = {Empty, x}
    Slots = {s1}
    MaxEdits = 1
    MaxMoves = 1
INVARIANTS
    TypeOK
    TypedIsGuarded
    SettledShowsAddress
PROPERTIES
    UntypedOnlyPutBack
SYMMETRY Symmetry
