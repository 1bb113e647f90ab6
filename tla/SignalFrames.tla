----------------------------- MODULE SignalFrames -----------------------------
(***************************************************************************)
(* The frames a strategy's signals are read from: bars resampled from      *)
(* minutes (quant_engine/engine/resample.py), the reference series         *)
(* (data.py), the higher timeframe (htf.py), the structural patterns       *)
(* (patterns.py) and the opening range of a session (indicators.py,        *)
(* conditions.py).                                                         *)
(*                                                                         *)
(* A frame is a sequence of bars [at, high, low, close] in the order of    *)
(* their stamps.  A bar stamped t stands for [t, t + its timeframe).       *)
(***************************************************************************)
EXTENDS Integers, SequencesExt, Ordering

CONSTANTS
    SessionLength,  \* minutes of a session: a UTC day
    SwingWindow,    \* bars a pivot must dominate on either side
    NaN

Highest(B) == Max({b.high : b \in B})

Lowest(B) == Min({b.low : b \in B})
-----------------------------------------------------------------------------
(* Timeframes.                                                             *)

Bin(minutes, frame, b) == {m \in Range(minutes) : m.at \div frame = b}

BarOf(B, frame) ==
    LET last == CHOOSE m \in B : \A o \in B : o.at <= m.at
    IN  [at |-> frame * (last.at \div frame), high |-> Highest(B), low |-> Lowest(B),
         close |-> last.close]

\* The bins that traded, in order.
Bins(minutes, frame) == InOrder({m.at \div frame : m \in Range(minutes)}, LAMBDA b, c : b < c)

\* Empty bins are dropped: a stretch without trades leaves no bar.
Resampled(minutes, frame) ==
    LET bins == Bins(minutes, frame)
    IN  [k \in DOMAIN bins |-> BarOf(Bin(minutes, frame, bins[k]), frame)]

\* The positions of the minutes the simulator walks in one bar.
SubBars(bar, minutes, frame) ==
    {j \in DOMAIN minutes : bar.at <= minutes[j].at /\ minutes[j].at < bar.at + frame}

\* The reference is carried forward over a gap; nothing comes before it.
ReferenceAt(bar, reference) ==
    LET known == {j \in DOMAIN reference : reference[j].at <= bar.at}
    IN  IF known = {} THEN NaN ELSE reference[Max(known)].close

\* Mutant: a bar of the higher timeframe is used as soon as it has opened.
OpenHtf(bar, htf, frame) ==
    LET open == {k \in DOMAIN htf : htf[k].at <= bar.at}
    IN  IF open = {} THEN 0 ELSE Max(open)

\* The bar of a higher timeframe that had closed when this bar opened.
ClosedHtf(bar, htf, frame) ==
    LET closed == {k \in DOMAIN htf : htf[k].at + frame <= bar.at}
    IN  IF closed = {} THEN 0 ELSE Max(closed)
-----------------------------------------------------------------------------
(* Patterns.  A pivot is confirmed SwingWindow bars after it.              *)

Dominated(bars, p) ==
    IF p > SwingWindow /\ p + SwingWindow <= Len(bars)
    THEN (p - SwingWindow)..(p + SwingWindow)
    ELSE {}

LocalHigh(bars, p) ==
    /\ Dominated(bars, p) # {}
    /\ \A j \in Dominated(bars, p) : bars[j].high <= bars[p].high

LocalLow(bars, p) ==
    /\ Dominated(bars, p) # {}
    /\ \A j \in Dominated(bars, p) : bars[j].low >= bars[p].low

SwingHigh(bars, i) == LocalHigh(bars, i - SwingWindow)

SwingLow(bars, i) == LocalLow(bars, i - SwingWindow)

BullishGap(bars, i) == i > 2 /\ bars[i].low > bars[i - 2].high

BearishGap(bars, i) == i > 2 /\ bars[i].high < bars[i - 2].low

\* The level broken is that of the bar that confirmed the swing.
BreaksUp(bars, i) ==
    LET known == {j \in 1..(i - 1) : SwingHigh(bars, j)}
    IN  known # {} /\ bars[i].close > bars[Max(known)].high

BreaksDown(bars, i) ==
    LET known == {j \in 1..(i - 1) : SwingLow(bars, j)}
    IN  known # {} /\ bars[i].close < bars[Max(known)].low

HigherHigh(bars, i) ==
    LET before == {j \in 1..(i - 1) : SwingHigh(bars, j)}
    IN  /\ SwingHigh(bars, i)
        /\ before # {}
        /\ bars[i - SwingWindow].high > bars[Max(before) - SwingWindow].high

LowerLow(bars, i) ==
    LET before == {j \in 1..(i - 1) : SwingLow(bars, j)}
    IN  /\ SwingLow(bars, i)
        /\ before # {}
        /\ bars[i - SwingWindow].low < bars[Max(before) - SwingWindow].low

Pattern(name, bars, i) ==
    CASE name = "IS_SWING_HIGH"  -> SwingHigh(bars, i)
      [] name = "IS_SWING_LOW"   -> SwingLow(bars, i)
      [] name = "IS_HIGHER_HIGH" -> HigherHigh(bars, i)
      [] name = "IS_LOWER_LOW"   -> LowerLow(bars, i)
      [] name = "IS_BULLISH_FVG" -> BullishGap(bars, i)
      [] name = "IS_BEARISH_FVG" -> BearishGap(bars, i)
      [] name = "IS_BOS_BULLISH" -> BreaksUp(bars, i)
      [] name = "IS_BOS_BEARISH" -> BreaksDown(bars, i)

PatternNames == {"IS_SWING_HIGH", "IS_SWING_LOW", "IS_HIGHER_HIGH", "IS_LOWER_LOW",
                 "IS_BULLISH_FVG", "IS_BEARISH_FVG", "IS_BOS_BULLISH", "IS_BOS_BEARISH"}
-----------------------------------------------------------------------------
(* The opening range of a session, computed twice in the code.             *)

SessionOf(bar) == bar.at \div SessionLength

\* Bars of the same session as the i-th, up to and with the i-th.
SessionSoFar(bars, i) == {j \in 1..i : SessionOf(bars[j]) = SessionOf(bars[i])}

PlaceInSession(bars, i) == Cardinality(SessionSoFar(bars, i))

Extreme(name, B) == IF name = "OPENING_RANGE_HIGH" THEN Highest(B) ELSE Lowest(B)

\* Bar by bar, from the positions of the session's bars.
OpeningRange(name, n, bars, i) ==
    LET session == {j \in DOMAIN bars : SessionOf(bars[j]) = SessionOf(bars[i])}
        opening == {bars[j] : j \in {k \in session : PlaceInSession(bars, k) <= n}}
    IN  IF n <= 0 \/ PlaceInSession(bars, i) <= n THEN NaN ELSE Extreme(name, opening)

\* As a column, masked inside the opening window.
OpeningColumn(name, n, bars, i) ==
    LET window == {j \in DOMAIN bars : PlaceInSession(bars, j) <= n}
        own    == {bars[j] : j \in {k \in window : SessionOf(bars[k]) = SessionOf(bars[i])}}
    IN  IF n <= 0 \/ i \in window THEN NaN ELSE Extreme(name, own)
=============================================================================
