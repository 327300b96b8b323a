\* Programs as the tokenizer and compiler make them: no variable is in the stack
\* pool.
SPECIFICATION Spec
CONSTANTS
    f = f
    g = g
    x = x
    y = y
    z = z
    Func = {f, g}
    Var = {x, y, z}
    OwnerOf <- MCOwnerOf
    Stackable = {}
    RowMod = 8
    Constructs = {}
    MaxFrames = 5
    MaxTimes = 2
INVARIANTS
    MentionsExist
