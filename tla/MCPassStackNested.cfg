\* The direct passes that a handler of a pass starts, as tests and the compiler
\* do: their exits recycle a source column they do not own.
SPECIFICATION Spec
CONSTANTS
    MaxCols = 4
    GenMod = 3
    Node = {n1}
    NestedKinds = {"travel", "direct"}
    MaxDepth = 3
    MaxLost = 2
VIEW RelativeGenerations
INVARIANTS
    NamesOwned
