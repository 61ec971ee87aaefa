CONSTANTS
    t1 = t1
    t2 = t2
    Threads = {t1, t2}
    VPeriod = 2
SPECIFICATION Spec
SYMMETRY Symmetry
INVARIANTS TypeOK Mutex ReaderSound FlagsNotLost
