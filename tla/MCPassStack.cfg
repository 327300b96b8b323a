\* Nested passes are travel passes, as when a program executes.
SPECIFICATION Spec
CONSTANTS
    MaxCols = 4
    GenMod = 3
    Node = {n1, n2}
    NestedKinds = {"travel"}
    MaxDepth = 3
    MaxLost = 2
VIEW RelativeGenerations
INVARIANTS
    TypeOK
    NamesOwned
    ContextsOwned
    BorrowedSourcesLive
    OnlyKnownLosses

