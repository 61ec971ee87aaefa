CONSTANTS
    t1 = t1
    t2 = t2
    t3 = t3
    Threads = {t1, t2}
    None = None
    Keys <- AllKeys
    Fan = 3
    VPeriod = 16
    MaxNodes = 12
    Scenes <- RootScenes
SPECIFICATION Spec
INVARIANT RootBitSet
