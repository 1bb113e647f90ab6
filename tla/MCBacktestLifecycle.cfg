\* Two backtests of one strategy.  A system with both rows ended has nothing to do.
SPECIFICATION LifecycleFairSpec
CONSTANTS
    b1 = b1  b2 = b2
    Backtests = {b1, b2}
    MaxAttempts = 3
    MaxFaults = 3
    MaxCrashes = 2
INVARIANTS BusyHasRun CompletedHasResult
PROPERTIES EveryBacktestEnds
CHECK_DEADLOCK FALSE
