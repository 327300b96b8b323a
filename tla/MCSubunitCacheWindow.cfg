\* A bounce between the two halves of acquire_subunit.
SPECIFICATION Spec
CONSTANTS
    Thread = {t1, t2}
    Creator = t1
    Janitors = {t2}
    Item = {base, w1}
    Base = {base}
    Careful = FALSE
INVARIANTS
    AcquiredIsLoaded
