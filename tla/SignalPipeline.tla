---------------------------- MODULE SignalPipeline ----------------------------
(***************************************************************************)
(* Where the signals of a strategy come from: the backtest computes them   *)
(* for every bar of a frame at once (run_backtest, runner.py), the live    *)
(* engine for the last bar of the candles it fetched (rule_engine.py).     *)
(*                                                                         *)
(* The market prints a minute after the other of the symbol and of its     *)
(* reference, some without a trade.  At one moment the backtest or the     *)
(* live engine is asked, and its answer is kept and compared with that of  *)
(* every later backtest.  The bars of a higher timeframe, which the code   *)
(* is given by its provider, are taken to be those of the same minutes.    *)
(***************************************************************************)
EXTENDS Conditions

CONSTANTS
    Strategies,  \* [condition, frame, htf: the rules of higher timeframes,
                 \*  reference: whether it declares a reference symbol]
    Shapes,      \* [high, low, close] of a minute
    NoTrade,     \* instead of a shape: the minute has no trade
    Prints,      \* [main, reference] of a minute, by whether there is a reference
    LastMinute,  \* bound on the length of the stream
    Lookback     \* candles the live engine fetches

Minutes == [at : 0..LastMinute, high : Int, low : Int, close : Int]

ASSUME SignalAssumption ==
    /\ SessionLength \in Nat \ {0} /\ SwingWindow \in Nat
    /\ LastMinute \in Nat /\ Lookback \in Nat \ {0}
    /\ Shapes \subseteq [high : Int, low : Int, close : Int]
    /\ Prints \in [BOOLEAN -> SUBSET [main      : Shapes \cup {NoTrade},
                                      reference : Shapes \cup {NoTrade}]]
    /\ \A s \in Strategies :
          /\ IsParsed(s.condition) /\ s.frame \in Nat \ {0} /\ s.reference \in BOOLEAN
          /\ \A rule \in s.htf : IsParsed(rule.condition) /\ rule.frame \in Nat \ {0}

VARIABLES
    strategy,
    minutes,    \* the minutes that traded
    benchmark,  \* those of the reference
    now,        \* the minute that is about to be printed
    asked       \* the answer kept: who gave it, when, and per stamp the signal
                \* and the minutes its fills walk

signalVars == <<strategy, minutes, benchmark, now, asked>>

NotAsked == [by |-> "nobody", when |-> 0, signal |-> <<>>, walk |-> <<>>]

Bars(ms) == Resampled(ms, strategy.frame)
-----------------------------------------------------------------------------
(* The backtest of a series of minutes, and of those of the reference.     *)

\* The reference is resampled to the frame of the strategy before it is merged;
\* one that the strategy does not declare is ignored.
BacktestFrame(bars, refs) ==
    LET rbars == Bars(refs)
    IN  [bars      |-> bars,
         reference |-> [i \in DOMAIN bars |->
                           IF strategy.reference THEN ReferenceAt(bars[i], rbars) ELSE NaN],
         enriched  |-> TRUE]

\* The frame of a higher timeframe holds neither patterns nor the reference.
Plain(bars) ==
    [bars |-> bars, reference |-> [k \in DOMAIN bars |-> NaN], enriched |-> FALSE]

HtfGate(rule, ms, bar) ==
    LET htf == Resampled(ms, rule.frame)
        k   == ClosedHtf(bar, htf, rule.frame)
    IN  k > 0 /\ Fires(rule.condition, Plain(htf), k, FALSE)

EntrySignal(ms, df, i) ==
    /\ Fires(strategy.condition, df, i, FastPathSafe(strategy.condition))
    /\ \A rule \in strategy.htf : HtfGate(rule, ms, df.bars[i])

Stamps(bars) == {b.at : b \in Range(bars)}

PlaceOf(bars, t) == CHOOSE i \in DOMAIN bars : bars[i].at = t

\* The entry signal of every bar, by its stamp.
EntrySignals(ms, refs) ==
    LET bars == Bars(ms)
        df   == BacktestFrame(bars, refs)
    IN  [t \in Stamps(bars) |-> EntrySignal(ms, df, PlaceOf(bars, t))]

\* The minutes the simulator walks in every bar.
Walks(ms) ==
    LET bars == Bars(ms)
    IN  [t \in Stamps(bars) |->
            {ms[j].at : j \in SubBars(bars[PlaceOf(bars, t)], ms, strategy.frame)}]

\* run_backtest over everything printed so far.  It refuses to run without the
\* series of a reference the strategy declares.
RunBacktest ==
    /\ asked = NotAsked
    /\ minutes # <<>>
    /\ strategy.reference => benchmark # <<>>
    /\ asked' = [by |-> "backtest", when |-> now,
                 signal |-> EntrySignals(minutes, benchmark), walk |-> Walks(minutes)]
    /\ UNCHANGED <<strategy, minutes, benchmark, now>>
-----------------------------------------------------------------------------
(* The live engine.                                                        *)

\* The candles fetched: the last ones, the one still forming among them.
Candles(ms) ==
    LET bars == Bars(ms)
    IN  SubSeq(bars, Max({1, Len(bars) - Lookback + 1}), Len(bars))

LiveSignal(candles) == Fires(strategy.condition, Plain(candles), Len(candles), FALSE)

EvaluateLive ==
    /\ asked = NotAsked
    /\ minutes # <<>>
    /\ asked' = [by |-> "live", when |-> now,
                 signal |-> [t \in {Last(Candles(minutes)).at} |-> LiveSignal(Candles(minutes))],
                 walk |-> <<>>]
    /\ UNCHANGED <<strategy, minutes, benchmark, now>>
-----------------------------------------------------------------------------
(* The market.                                                             *)

Printed(series, shape) ==
    IF shape = NoTrade THEN series
    ELSE Append(series, [at |-> now, high |-> shape.high, low |-> shape.low, close |-> shape.close])

PrintMinute ==
    /\ now < LastMinute
    /\ \E p \in Prints[strategy.reference] :
          /\ minutes' = Printed(minutes, p.main)
          /\ benchmark' = Printed(benchmark, p.reference)
    /\ now' = now + 1
    /\ UNCHANGED <<strategy, asked>>

SignalInit ==
    /\ strategy \in Strategies
    /\ minutes = <<>>
    /\ benchmark = <<>>
    /\ now = 0
    /\ asked = NotAsked

SignalNext == RunBacktest \/ EvaluateLive \/ PrintMinute

SignalSpec == SignalInit /\ [][SignalNext]_signalVars
-----------------------------------------------------------------------------
(* Properties.                                                             *)

SignalTypeOK ==
    /\ strategy \in Strategies
    /\ minutes \in Seq(Minutes)
    /\ benchmark \in Seq(Minutes)
    /\ now \in 0..LastMinute
    /\ asked.by \in {"nobody", "backtest", "live"}

\* The bars that had closed when the answer was given.
ClosedBars == {t \in DOMAIN asked.signal : t + strategy.frame <= asked.when}

AgreesWithBacktest ==
    LET signals == EntrySignals(minutes, benchmark) IN \A t \in ClosedBars : asked.signal[t] = signals[t]

\* What a backtest says of a bar that had closed, and the minutes its fills
\* walk, are what every later one says: neither a pattern, nor the opening
\* range, nor a higher timeframe, nor the reference, nor a walk reads what was
\* still to come (patterns.py:14 "depends only on bars 0..i", htf.py:19 "Strict
\* no-look-ahead", resample.py:136 "never a future bar's minutes").
NoLookAhead ==
    asked.by = "backtest" =>
        /\ AgreesWithBacktest
        /\ LET walks == Walks(minutes) IN \A t \in ClosedBars : asked.walk[t] = walks[t]

Reads(e) == {e[k].name : k \in {j \in DOMAIN e : e[j].kind \in {"identifier", "function"}}}

\* The live engine adds neither patterns, nor a reference, nor gates.
FormulaOnly ==
    /\ strategy.htf = {}
    /\ Reads(strategy.condition) \cap (PatternNames \cup {"REF_CLOSE", "RS"}) = {}

\* The live engine, with its slow evaluator over the last candles, says of a
\* bar that has closed what the backtest says of it, with the evaluator it
\* chose over the whole frame (conditions.py:356 "a backtest can never diverge
\* from live evaluation", rule_engine.py:147).
LiveIsBacktested == asked.by = "live" /\ FormulaOnly => AgreesWithBacktest
-----------------------------------------------------------------------------
(* Of the strategies: what the two properties need, and the platform does  *)
(* not enforce.                                                            *)

\* No condition looks forward, by PREV with a negative offset.
LooksBack ==
    \A s \in Strategies : LiteralPeriods(s.condition) /\ \A rule \in s.htf : LiteralPeriods(rule.condition)

\* The candles fetched reach back as far as the condition looks.
LookbackSuffices ==
    \A s \in Strategies :
        \E reach \in [DOMAIN s.condition -> 1..Lookback] : Reaches(s.condition, reach)
=============================================================================
