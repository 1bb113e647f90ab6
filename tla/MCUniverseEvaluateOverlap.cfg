CONSTANTS
    a = a  b = b  c = c  c1 = c1  c2 = c2
    NoCap = NoCap  NoSector = NoSector  NoStop = NoStop  NoCall = NoCall
    TotalCapital = 12
    MaxPositions = 1
    SizingMode = "risk_based"
    RiskPct = 30
    SectorCapPct = NoCap
    StopPcts = {40}
    Costs = {4}  BuysAllocated = FALSE
    LastBar = 1
    Symbols <- mcTwoSymbols
    Calls <- mcTwoCalls
    MemberLists <- mcShortLists
    PartialExits = FALSE
    WindowBars = 2  Deterministic = TRUE  MayForget = TRUE  NoList = NoList
SYMMETRY mcCallSymmetry
SPECIFICATION Spec
INVARIANT WindowStable
PROPERTIES OneEntryPerBar
