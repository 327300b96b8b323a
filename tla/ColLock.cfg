\* Three threads and a byte that holds two readers, so that the count is full
\* while the third one tries.
SPECIFICATION FairSpec
CONSTANTS
    Thread = {t1, t2, t3}
    Creator = t1
    WBit = 3
INVARIANTS
    TypeOK
    MutualExclusion
PROPERTIES
    ImplementsRWLock
    PendingWriterEnters
    OnlyTimeoutsLeaveBit
    BitClears
