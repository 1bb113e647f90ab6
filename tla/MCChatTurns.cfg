\* Two messages over two keys, one fault.
SPECIFICATION ChatSpec
CONSTANTS
    Callers = {m1, m2}
    N = 2
    NoKey = NoKey  NoTurn = NoTurn  NoDraft = NoDraft
    HistoryLimit = 6
    MaxCalls = 1
    MaxSymbols = 1
    MaxFaults = 1
INVARIANTS OneOutcome SettledUnlessDetached DraftsAccumulate
PROPERTIES AttemptsAscend EveryTurnEnds
CHECK_DEADLOCK FALSE
