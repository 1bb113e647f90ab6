------------------------------- MODULE Simulator -------------------------------
(***************************************************************************)
(* One pass of the trade simulator over the bars of one symbol             *)
(* (simulate_trades, quant_engine/engine/simulator.py).                    *)
(*                                                                         *)
(* A signal on bar i is filled at the open of bar i + 1; a bar in a trade  *)
(* first fires the rungs of the take-profit ladder, then looks for the     *)
(* protective level and the target, minute by minute when there are        *)
(* minutes, and then for the exits that fill at a close or at the next     *)
(* open.  One step is one bar.  The bars are chosen as the pass goes on,   *)
(* one ahead, and so are the answers of the entry and exit conditions and  *)
(* of the entry gates that read market data only.                          *)
(*                                                                         *)
(* Prices and distances (stop, target, trailing distance, cost) are in     *)
(* ticks, a P&L in percent of a position times ticks.                      *)
(***************************************************************************)
EXTENDS Integers, SequencesExt, Ordering

CONSTANTS
    Settings,       \* the strategies a pass may be run for
    Bars,           \* [open |-> price, minutes |-> sequence of [high, low, close]]
    SessionLength,  \* bars of a session
    LastRow,        \* n_rows - 1
    NoTrade,
    NoSession

Trailing == [distance : Int, after : Int]

Rungs == [multiple : Nat \ {0}, fraction : 1..100,
          action : {"none", "move_sl_to_breakeven", "move_sl_to_previous_tp"}]

Passes ==
    [short : BOOLEAN, intraday : BOOLEAN, intrabar : BOOLEAN, cost : Nat, stop : Nat \ {0}, target : Int,
     trail : Trailing, trailProfit : Trailing, ladder : Seq(Rungs), maxHolding : Int, cutoff : Int,
     cap : Int, maxTrades : Int, maxLosses : Int, coolLoss : Int, coolGain : Int, confirm : Int,
     warmUp : Int, gap : Int, skipGapUp : BOOLEAN, skipGapDown : BOOLEAN]

\* A candle closes between its low and its high; the rungs sell the position once at most.
ASSUME PassAssumption ==
    /\ SessionLength \in Nat \ {0} /\ LastRow \in Nat
    /\ Settings \subseteq Passes
    /\ \A s \in Settings : SumFunction([k \in DOMAIN s.ladder |-> s.ladder[k].fraction]) <= 100
    /\ \A b \in Bars :
          /\ b \in [open : Int, minutes : Seq([high : Int, low : Int, close : Int])]
          /\ b.minutes # << >>
          /\ \A k \in DOMAIN b.minutes :
                b.minutes[k].low <= b.minutes[k].close /\ b.minutes[k].close <= b.minutes[k].high

VARIABLES
    set,        \* the strategy of this pass
    at,         \* the bar the loop is at
    current,    \* that bar
    lastClose,  \* the close of the bar before it
    pos,        \* the open trade, or NoTrade
    risk,       \* the circuit breakers and the confirmation counter
    trades

passVars == <<set, at, current, lastClose, pos, risk, trades>>

PauseBars == 3

SessionOf(b) == b \div SessionLength

IsSessionLast(b) == set.intraday /\ (b = LastRow \/ SessionOf(b) # SessionOf(b + 1))

\* time_exit: the cutoff is a time of day.
PastCutoff(b) == b % SessionLength >= set.cutoff
-----------------------------------------------------------------------------
(* Directions: a short trade mirrors a long one.                           *)

Gain(entry, exit) == IF set.short THEN entry - exit ELSE exit - entry

\* d ticks from p towards profit.
Towards(p, d) == IF set.short THEN p - d ELSE p + d

Reaches(p, level) == Gain(level, p) >= 0

Tighter(p, q) == IF Reaches(p, q) THEN p ELSE q

EntryFill(p) == Towards(p, set.cost)

ExitFill(p) == Towards(p, -set.cost)

BestOf(m) == IF set.short THEN m.low ELSE m.high

WorstOf(m) == IF set.short THEN m.high ELSE m.low

\* The bar as one candle of the strategy's timeframe.
Candle(b) ==
    [high  |-> Max({b.minutes[k].high : k \in DOMAIN b.minutes}),
     low   |-> Min({b.minutes[k].low : k \in DOMAIN b.minutes}),
     close |-> Last(b.minutes).close]
-----------------------------------------------------------------------------
(* Circuit breakers.                                                       *)

Fresh(session, gap) ==
    [session |-> session, gap |-> gap, pnl |-> 0, count |-> 0, losses |-> 0, streak |-> 0,
     lossUntil |-> 0, profitUntil |-> 0, pauseUntil |-> 0]

\* gap_filter: the open of a session against the close of the one before.
GapBlocked(open, close) ==
    \/ set.skipGapUp /\ open - close > set.gap
    \/ set.skipGapDown /\ close - open > set.gap

\* The first bar of a session resets everything, in an intraday strategy only.
RolledOver ==
    IF set.intraday /\ risk.session # SessionOf(at)
    THEN Fresh(SessionOf(at), risk.session # NoSession /\ GapBlocked(current.open, lastClose))
    ELSE risk

GatesClear(r) ==
    /\ ~(set.intraday /\ set.cap > 0 /\ r.pnl <= -set.cap)
    /\ ~(set.intraday /\ set.maxTrades > 0 /\ r.count >= set.maxTrades)
    /\ ~PastCutoff(at)
    /\ at >= r.pauseUntil
    /\ at >= r.lossUntil /\ at >= r.profitUntil
    /\ ~r.gap

AfterLoss(r) ==
    LET tripped == set.maxLosses > 0 /\ r.losses + 1 >= set.maxLosses
    IN  [r EXCEPT !.losses = IF tripped THEN 0 ELSE @ + 1,
                  !.pauseUntil = IF tripped THEN at + PauseBars ELSE @,
                  !.lossUntil = IF set.coolLoss > 0 THEN at + set.coolLoss ELSE @]

AfterGain(r) ==
    [r EXCEPT !.losses = 0,
              !.profitUntil = IF set.coolGain > 0 THEN at + set.coolGain ELSE @]

\* Mutant: the trade is not charged to its session.
BookedUncharged(r, pnl) ==
    [(IF pnl < 0 THEN AfterLoss(r) ELSE AfterGain(r)) EXCEPT !.streak = 0]

Booked(r, pnl) ==
    LET charged == IF set.intraday THEN [r EXCEPT !.pnl = @ + pnl, !.count = @ + 1] ELSE r
    IN  [(IF pnl < 0 THEN AfterLoss(charged) ELSE AfterGain(charged)) EXCEPT !.streak = 0]

\* A trade that its ladder closed is booked in a branch of its own.
BookedByLadder(r, pnl) == Booked(r, pnl)
-----------------------------------------------------------------------------
PassInit ==
    /\ set \in Settings
    /\ at = 0
    /\ current \in Bars
    /\ lastClose = current.open
    /\ pos = NoTrade
    /\ risk = Fresh(NoSession, FALSE)
    /\ trades = << >>

\* The loop goes on to the next bar.
Advance ==
    /\ at' = at + 1
    /\ current' \in IF at < LastRow THEN Bars ELSE {current}
    /\ lastClose' = Candle(current).close
    /\ set' = set

WarmUp ==
    /\ at < set.warmUp /\ at <= LastRow
    /\ Advance
    /\ UNCHANGED <<pos, risk, trades>>
-----------------------------------------------------------------------------
(* Out of a trade.                                                         *)

\* The confirmation counter counts signals, whatever the gates say.
Counted(r, signal) == [r EXCEPT !.streak = IF signal THEN @ + 1 ELSE 0]

\* _resolve_tp_rung_price: a rung is priced from the fill and the initial stop.
TargetOf(k, entry, stop) == Towards(entry, set.ladder[k].multiple * Gain(stop, entry))

\* The nearest rung comes first.
Ladder(entry, stop) ==
    LET price(k) == TargetOf(k, entry, stop)
        Nearer(j, k) == Gain(price(j), price(k)) > 0 \/ (price(j) = price(k) /\ j < k)
        order == InOrder(DOMAIN set.ladder, Nearer)
    IN  [i \in DOMAIN set.ladder |->
            [price |-> price(order[i]), fraction |-> set.ladder[order[i]].fraction,
             action |-> set.ladder[order[i]].action]]

\* A trailing line that is not active yet is put where the stop is: it never wins.
Opened(fill) ==
    LET entry == EntryFill(fill)
        stop  == Towards(entry, -set.stop)
    IN  [entry |-> entry, since |-> at + 1, stop |-> stop, floor |-> stop, line |-> stop,
         best |-> fill, rungs |-> Ladder(entry, stop), partials |-> << >>]

\* A fill at the next open must be in the same session.
Fillable == ~IsSessionLast(at)

\* gate is the answer of the gates that read market data or the clock of the bar only.
Watch ==
    /\ at >= set.warmUp /\ at < LastRow /\ pos = NoTrade
    /\ Advance
    /\ \E signal, gate \in BOOLEAN :
          LET r == Counted(RolledOver, signal)
          IN  /\ risk' = r
              /\ pos' = IF signal /\ r.streak >= set.confirm /\ gate /\ GatesClear(r) /\ Fillable
                        THEN Opened(current'.open) ELSE NoTrade
    /\ UNCHANGED trades

\* A signal on the last bar has no next open: the loop breaks.
Break ==
    /\ at >= set.warmUp /\ at = LastRow /\ pos = NoTrade
    /\ risk' = RolledOver
    /\ Advance
    /\ UNCHANGED <<pos, trades>>
-----------------------------------------------------------------------------
(* In a trade: the rungs.                                                  *)

\* The part of the position that its rungs have sold, and what they have gained.
Exited(p) == SumFunction([k \in DOMAIN p.partials |-> p.partials[k].fraction])

Taken(p) == SumFunction([k \in DOMAIN p.partials |-> p.partials[k].fraction * p.partials[k].gain])

\* The stop after a rung: it never moves back.
RungStop(p, rung) ==
    CASE rung.action = "move_sl_to_breakeven" -> Tighter(p.stop, p.entry)
      [] rung.action = "move_sl_to_previous_tp" ->
            Tighter(p.stop, IF p.partials = << >> THEN p.entry ELSE Last(p.partials).price)
      [] OTHER -> p.stop

\* A bar that opened beyond the rung fills it at its open.
Fire(p, rung) ==
    IF ~Reaches(BestOf(Candle(current)), rung.price)
    THEN [p EXCEPT !.rungs = Append(@, rung)]
    ELSE LET fill == ExitFill(IF Reaches(current.open, rung.price) THEN current.open ELSE rung.price)
         IN  [p EXCEPT !.stop = RungStop(p, rung),
                       !.partials = Append(@, [price |-> rung.price, fraction |-> rung.fraction,
                                               gain |-> Gain(p.entry, fill),
                                               secures |-> rung.action # "none"])]

AfterRungs == FoldLeft(Fire, [pos EXCEPT !.rungs = << >>], pos.rungs)

\* P&L of the partial exits and of the rest of the position.
Blended(p, fill) ==
    Taken(p) + (100 - Exited(p)) * Gain(p.entry, fill)

Trade(p, reason, exit, pnl) ==
    [since |-> p.since, exit |-> exit, decided |-> at, reason |-> reason, pnl |-> pnl,
     secured |-> \E k \in DOMAIN p.partials : p.partials[k].secures]

LadderDone ==
    /\ at >= set.warmUp /\ at <= LastRow /\ pos # NoTrade
    /\ Exited(AfterRungs) >= 100
    /\ trades' = Append(trades, Trade(AfterRungs, "ladder", at, Taken(AfterRungs)))
    /\ risk' = BookedByLadder(RolledOver, Taken(AfterRungs))
    /\ pos' = NoTrade
    /\ Advance
-----------------------------------------------------------------------------
(* In a trade: the protective level and the target.                        *)

\* Mutant: the line follows the candidate.
RatchetedLoosely(spec, line, p, best, close) ==
    IF spec.distance = 0 THEN line
    ELSE IF Gain(p.entry, close) >= spec.after THEN Towards(best, -spec.distance) ELSE p.stop

\* A trailing line, active from a gain at the close on, follows the best price and
\* never goes back.
Ratcheted(spec, line, p, best, close) ==
    IF spec.distance > 0 /\ Gain(p.entry, close) >= spec.after
    THEN Tighter(line, Towards(best, -spec.distance)) ELSE line

\* _resolve_protective_level: the tightest of the three levels.
Level(p) == Tighter(Tighter(p.stop, p.floor), p.line)

Kind(p) ==
    IF Level(p) = p.stop THEN "stop_loss"
    ELSE IF Level(p) = p.floor THEN "trailing_stop" ELSE "trailing_take_profit"

\* A ladder or a trailing exit may replace the fixed target.
HasTarget == set.target > 0 /\ set.ladder = << >>

Target(p) == Towards(p.entry, set.target)

\* One candle of the walk: the first that touches a level ends it.
Walk(w, m) ==
    IF w.hit THEN w
    ELSE LET best == Tighter(BestOf(m), w.p.best)
             p == [w.p EXCEPT !.best = best,
                              !.floor = Ratcheted(set.trail, @, w.p, best, m.close),
                              !.line = Ratcheted(set.trailProfit, @, w.p, best, m.close)]
             stopped == Reaches(Level(p), WorstOf(m))
             reached == HasTarget /\ Reaches(BestOf(m), Target(p))
         IN  [p |-> p, hit |-> stopped \/ reached, stopped |-> stopped, reached |-> reached]

\* Mutant: the rungs move the stop after the walk only.
WalkedOnOldStop(p) ==
    FoldLeft(Walk, [p |-> [p EXCEPT !.stop = pos.stop], hit |-> FALSE, stopped |-> FALSE, reached |-> FALSE],
             IF set.intrabar THEN current.minutes ELSE <<Candle(current)>>)

Walked(p) ==
    FoldLeft(Walk, [p |-> p, hit |-> FALSE, stopped |-> FALSE, reached |-> FALSE],
             IF set.intrabar THEN current.minutes ELSE <<Candle(current)>>)
-----------------------------------------------------------------------------
(* In a trade: the exit.                                                   *)

Exit(applies, reason, price, when) ==
    [applies |-> applies, reason |-> reason, price |-> price, when |-> when]

\* Mutant: an exit may wait for the open of the next session.
LaterAnyway == at < LastRow

\* Signals and the holding limit fill at the next open if the session goes on.
Later == ~IsSessionLast(at) /\ at < LastRow

AtClose(applies, reason) == Exit(applies, reason, Candle(current).close, at)

AtNextOpen(applies, reason, next) ==
    IF Later THEN Exit(applies, reason, next.open, at + 1) ELSE AtClose(applies, reason)

\* In the order the code looks for them; a level and the target touched by one
\* candle count as the level.
Exits(w, signal, next) ==
    <<Exit(w.stopped, Kind(w.p), Level(w.p), at),
      Exit(w.reached, "take_profit", Target(w.p), at),
      AtNextOpen(signal, "exit_signal", next),
      AtNextOpen(set.maxHolding > 0 /\ at - w.p.since >= set.maxHolding, "max_holding", next),
      AtClose(PastCutoff(at), "time_exit"),
      AtClose(IsSessionLast(at), "session_end")>>

Due(exits) == {k \in DOMAIN exits : exits[k].applies}

Close(p, x) ==
    LET pnl == Blended(p, ExitFill(x.price))
    IN  /\ trades' = Append(trades, Trade(p, x.reason, x.when, pnl))
        /\ risk' = Booked(RolledOver, pnl)
        /\ pos' = NoTrade

Hold ==
    /\ at >= set.warmUp /\ at <= LastRow /\ pos # NoTrade
    /\ Exited(AfterRungs) < 100
    /\ Advance
    /\ \E signal \in BOOLEAN : \E w \in {Walked(AfterRungs)} : \E exits \in {Exits(w, signal, current')} :
          \/ Due(exits) # {} /\ Close(w.p, exits[Min(Due(exits))])
          \/ Due(exits) = {} /\ pos' = w.p /\ risk' = RolledOver /\ UNCHANGED trades

\* After the loop an open trade is closed at the last close.
EndOfData ==
    /\ at = LastRow + 1 /\ pos # NoTrade
    /\ trades' = Append(trades, Trade(pos, "end_of_data", LastRow, Blended(pos, ExitFill(lastClose))))
    /\ pos' = NoTrade
    /\ UNCHANGED <<set, at, current, lastClose, risk>>

PassNext == WarmUp \/ Watch \/ Break \/ LadderDone \/ Hold \/ EndOfData

PassSpec == PassInit /\ [][PassNext]_passVars
-----------------------------------------------------------------------------
PassTypeOK ==
    /\ set \in Settings /\ at \in 0..LastRow + 1 /\ current \in Bars
    /\ pos # NoTrade => /\ pos.since \in 1..LastRow
                        /\ Exited(pos) \in 0..99
                        /\ Len(pos.rungs) + Len(pos.partials) = Len(set.ladder)

\* One position at a time, entered after the last exit, and an intraday one is
\* closed in the session it was opened in ("positions cannot spill into the next
\* trading day", simulator.py:724-725); the replay of the trades relies on it.
TradesDisjoint ==
    \A k \in DOMAIN trades :
        /\ trades[k].since <= trades[k].exit
        /\ k > 1 => trades[k - 1].exit < trades[k].since
        /\ set.intraday => SessionOf(trades[k].since) = SessionOf(trades[k].exit)

\* Entry bars of all trades, the open one included; the signal is one bar earlier.
Entries == [k \in DOMAIN trades |-> trades[k].since] \o IF pos = NoTrade THEN << >> ELSE <<pos.since>>

\* The trades whose outcome counts for the bar: those of its session in an
\* intraday strategy, all of them in another.
CountsFor(t, b) == set.intraday => SessionOf(t.decided) = SessionOf(b)

DayLimits(k) ==
    LET today == {j \in 1..k - 1 : CountsFor(trades[j], Entries[k])}
    IN  set.intraday =>
            /\ set.cap > 0 => SumFunction([j \in today |-> trades[j].pnl]) > -set.cap
            /\ set.maxTrades > 0 => Cardinality(today) < set.maxTrades

CooledDown(k) ==
    LET t == trades[k - 1]
    IN  CountsFor(t, Entries[k]) =>
            Entries[k] - 1 >= t.decided + (IF t.pnl < 0 THEN set.coolLoss ELSE set.coolGain)

\* Among as many losses in a row as the breaker counts, one is followed by the pause.
LossPause(k) ==
    LET streak == k - set.maxLosses..k - 1
    IN  (/\ set.maxLosses > 0 /\ k > set.maxLosses
         /\ \A j \in streak : trades[j].pnl < 0 /\ CountsFor(trades[j], Entries[k]))
        => \E j \in streak : Entries[j + 1] - 1 >= trades[j].decided + PauseBars

\* Read off the list of trades, whoever closed them: no entry after the daily loss
\* cap or the daily number of trades is used up, none within a cooldown, and a
\* streak of losses is followed by the pause (simulator.py:1225-1234, 1347-1359).
EntriesRespectBreakers ==
    \A k \in DOMAIN Entries :
        /\ DayLimits(k)
        /\ k > 1 => CooledDown(k)
        /\ LossPause(k)

\* An exit that does not wait for the next open loses at most the initial risk and
\* the cost of both fills, and only the cost once a rung has moved the stop to the
\* entry, whichever of the exits comes first (simulator.py:1568-1573, 1920-1931).
LossBounded ==
    \A k \in DOMAIN trades :
        trades[k].exit <= trades[k].decided =>
            trades[k].pnl >= -100 * (set.cost + IF trades[k].secured THEN 0 ELSE set.stop)

\* "Ratchet means the floor never moves backwards" (simulator.py:1834-1836): the
\* operative level of an open trade only tightens, through rungs and trailing lines.
LevelOnlyTightens ==
    [][pos # NoTrade /\ pos' # NoTrade => Reaches(Level(pos'), Level(pos))]_passVars
=============================================================================
