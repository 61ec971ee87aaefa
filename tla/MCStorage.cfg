CONSTANTS
    c1 = c1
    c2 = c2
    c3 = c3
    a = a
    b = b
    Clients = {c1, c2, c3}
    Names = {a, b}
    None = None
    Concurrency = 2
    NSlots = 3
    MaxTrees = 3
    MaxRounds = 2
    Scenes <- AllScenes
SPECIFICATION FairSpec
INVARIANTS RoomExact BottomUp TreesReleasedOnce
PROPERTY StopsAndReturns
