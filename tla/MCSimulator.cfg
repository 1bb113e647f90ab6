CONSTANTS
    NoTrade = NoTrade  NoSession = NoSession
    Settings <- mcSettings
    Bars <- mcBars
    SessionLength = 4
    LastRow = 6
SPECIFICATION PassSpec
INVARIANTS TradesDisjoint EntriesRespectBreakers LossBounded
PROPERTY LevelOnlyTightens
CHECK_DEADLOCK FALSE
