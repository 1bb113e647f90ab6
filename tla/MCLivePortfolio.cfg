CONSTANTS
    a = a  b = b  c = c  bank = bank  it = it
    NoCap = NoCap  NoSector = NoSector  NoStop = NoStop
    TotalCapital = 12
    MaxPositions = 2
    SizingMode = "risk_based"
    RiskPct = 30
    SectorCapPct = 60
    StopPcts = {40, 100}
    MaxBooked = 6
    Symbols <- mcSymbols
    SectorOf <- mcSectorOf
    Results <- mcResults
    Holdings <- mcHoldings
SPECIFICATION Spec
INVARIANTS PoolSafe CapitalConserved
PROPERTIES RefinesSharedCapital
