\* One thread bounces while two others acquire, load and reload.
SPECIFICATION Spec
CONSTANTS
    Thread = {t1, t2, t3}
    Creator = t1
    Janitors = {t3}
    Item = {base, w1, w2}
    Base = {base}
    Careful = TRUE
SYMMETRY ItemSymmetry
INVARIANTS
    TypeOK
    NothingLost
    LoadsOnlyEmpty
PROPERTIES
    HeldContentStable
