CONSTANTS
    t1 = t1
    t2 = t2
    t3 = t3
    scanner = scanner
    Scanner = scanner
    Threads = {t1, t2, t3, scanner}
    None = None
    Keys <- AllKeys
    Fan = 3
    VPeriod = 16
    MaxNodes = 12
    Scenes <- TreeAndScanScenes
SPECIFICATION ScanFairSpec
INVARIANTS TypeOK KeysFound LeafChain ParentsRight AnswersTrue RootBitSet RetiredUnlinked
    ScanSound ScanComplete ScanAscending NoPhantom LimitCutsOff
PROPERTIES DeletedStays CallsReturn
