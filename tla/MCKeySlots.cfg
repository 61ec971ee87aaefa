CONSTANTS
    L = 3
    W = 2
    Byte = {0, 1}
    LenPeriod = 4
    Views <- AllViews
    Ends <- AllEnds
SPECIFICATION Spec
INVARIANTS Represents LookupExact DescentRight ScanBounds
