\* Five keys, of which four share a slot and its neighbour while the table is
\* small, and a row without a key.  The fourth key makes the table grow.  A row
\* may have several keys: removing it leaves cells behind, which must not
\* disturb the other keys.
SPECIFICATION Spec
CONSTANTS
    k1 = k1
    k2 = k2
    k3 = k3
    k4 = k4
    k5 = k5
    Key = {k1, k2, k3, k4, k5}
    EmptyKeys = {}
    Plain = {p1}
    Hash <- MCHash
    Word = 65536
INVARIANTS
    TypeOK
    KeysFound
    RobinHood
