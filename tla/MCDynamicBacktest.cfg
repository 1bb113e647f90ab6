CONSTANTS
    sa = sa  sb = sb  sc = sc  sd = sd  bank = bank
    NoCap = NoCap  NoSector = NoSector  Unset = Unset  NaN = NaN
    StartingCapital = 40
    MaxSlots = 3
    MaxPositions = 2
    SizingMode = "risk_based"
    RiskPct = 10
    SectorCapPct = 90
    Symbols <- mcSymbols
    Sectors <- mcSectors
    SectorOf <- mcSectorOf
    SymbolRank <- mcSymbolRank
    TradeLists <- mcTradeLists
    Tickers <- mcSymbols
    Sources <- mcSources
    Rules <- mcRules
    Readings <- mcReadings
    MaxPool = 3
    MaxAssets = 3
    Descending = TRUE
    FetchConcurrency = 2
    LoadConcurrency = 1
    WindowFrom = 1
SPECIFICATION Spec
INVARIANTS ResolutionRight LedgersExact DecidedFairly
PROPERTIES RefinesSharedCapital
