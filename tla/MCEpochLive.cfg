SPECIFICATION FairSpec
CONSTANTS
    Clients = {c1, c2}
    NSlots = 1
    Nodes = {x1, x2}
    Vals = {}
    MaxEpoch = 3
    None = None
PROPERTIES EpochAdvances Reclaimed
