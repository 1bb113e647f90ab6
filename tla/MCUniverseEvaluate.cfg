CONSTANTS
    a = a  b = b  c = c  c1 = c1  c2 = c2
    NoCap = NoCap  NoSector = NoSector  NoStop = NoStop  NoCall = NoCall
    TotalCapital = 11
    MaxPositions = 2
    SizingMode = "risk_based"
    RiskPct = 30
    SectorCapPct = NoCap
    StopPcts = {80}
    Costs = {6}  BuysAllocated = TRUE
    LastBar = 2
    Symbols <- mcSymbols
    Calls <- mcOneCall
    MemberLists <- mcMemberLists
    PartialExits = FALSE
    WindowBars = 2  Deterministic = FALSE  MayForget = FALSE  NoList = NoList
SPECIFICATION Spec
INVARIANTS BookWithinPool HeldAlwaysManaged NoSpuriousCapSkip
