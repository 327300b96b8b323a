\* Two functions that call themselves and each other, in blocks, loops and
\* arguments, up to five frames deep; y is outside the stack pool.
SPECIFICATION Spec
CONSTANTS
    f = f
    g = g
    x = x
    y = y
    z = z
    Func = {f, g}
    Var = {x, y, z}
    OwnerOf <- MCOwnerOf
    Stackable = {x, z}
    RowMod = 8
    Constructs = {}
    MaxFrames = 5
    MaxTimes = 2
INVARIANTS
    TypeOK
    FramesMatch
    BodyRows
    ArgumentRows
    JumpsStayInFunction
    OncePerIndex
