\* Two labels, two columns a pool, generations that wrap at two, two Ptrs.
SPECIFICATION Spec
CONSTANTS
    a = a
    b = b
    d = d
    Label = {a, b}
    Datum = {d}
    Nothing = Nothing
    Torn = Torn
    Base <- MCBase
    MaxCols = 2
    GenMod = 2
    MaxLife = 1
    MaxHeld = 2
INVARIANTS
    TypeOK
    StaleStaysStale
PROPERTY
    ImplementsStore
