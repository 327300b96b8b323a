\* Three columns, generations that wrap at 3 and up to 4 lives per column: a
\* column comes back to an old generation while stale tickets are outstanding,
\* and one column may be given away a second time under an error.
SPECIFICATION Spec
CONSTANTS
    MaxCols = 3
    GenMod = 3
    MaxLife = 3
    MaxShared = 2
    MaxStrays = 1
    Client = {c1, c2}
SYMMETRY ClientSymmetry
INVARIANTS
    TypeOK
    FreeStackSound
    OwnersIntact
    StaleDetected
    NoLeak
PROPERTIES
    ImplementsAllocator
