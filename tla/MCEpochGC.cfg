SPECIFICATION Spec
CONSTANTS
    Clients = {c1, c2}
    NSlots = 2
    Nodes = {}
    Vals = {x1}
    MaxEpoch = 3
    None = None
SYMMETRY Symmetry
INVARIANTS TypeOK SlotExclusive RetiredAccounted GcBehindSessions NoUseAfterFree
