\* The instance of MCSnapshots.cfg.
SPECIFICATION Spec
CONSTANTS
    a = a
    b = b
    d = d
    Label = {a, b}
    Datum = {d}
    Nothing = Nothing
    Torn = Torn
    Base <- MCBase
    MaxCols = 2
    GenMod = 2
    MaxLife = 1
    MaxHeld = 2
INVARIANT
    KeysInBounds
