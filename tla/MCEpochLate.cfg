SPECIFICATION Spec
CONSTANTS
    Clients = {c1, c2}
    NSlots = 2
    Nodes = {n1}
    Vals = {}
    MaxEpoch = 3
    None = None
SYMMETRY Symmetry
INVARIANT SessionProtects
