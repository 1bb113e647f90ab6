\* Eleven strategies over every stream of six minutes, gaps among them; one has a
\* reference, whose minutes are printed beside its own.
CONSTANTS
    NaN = NaN
    NoTrade = NoTrade
    SessionLength = 4
    SwingWindow = 1
    Lookback = 4
    LastMinute = 6
    Strategies <- mcStrategies
    Shapes <- mcShapes
    Prints <- mcPrints
SPECIFICATION SignalSpec
INVARIANTS NoLookAhead LiveIsBacktested
\* The stream is bounded: it ends.
CHECK_DEADLOCK FALSE
