CONSTANTS
    t1 = t1
    t2 = t2
    Threads = {t1, t2}
    None = None
    Keys = {1, 2, 3}
    L = 3
    VPeriod = 8
    Inline = TRUE
    Menu <- GetOrRemove
    MaxOps <- Once
SPECIFICATION Spec
INVARIANT PresenceTrue
