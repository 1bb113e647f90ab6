--------------------------- MODULE StrategyEvaluator --------------------------
(***************************************************************************)
(* StrategyEvaluator.evaluate (app/services/execution/                     *)
(* strategy_evaluator.py) for one deployment on one symbol, called again   *)
(* and again by an order management system that owns positions, cash and   *)
(* counters and sends them by value.  Exits come first, and an evaluation  *)
(* that exits anything enters nothing.  An entry passes the gates          *)
(* (entry_gates.py), is sized (risk_manager.py) and passes the account     *)
(* checks (account_manager.py).  A position has a ladder of targets, or a  *)
(* single target when it has no rungs.                                     *)
(*                                                                         *)
(* The evaluator keeps nothing: what it changes in the positions it was    *)
(* sent is lost with a lost reply, and the reply names neither the rungs   *)
(* that fired nor the new stop, which the OMS is taken to derive from      *)
(* exit_price.  Prices are whole ticks and quantities whole shares (lot    *)
(* 1); the evaluator enters long positions only.                           *)
(***************************************************************************)
EXTENDS Integers, FiniteSets, FiniteSetsExt

CONSTANTS
    Prices,          \* last traded prices
    StopPct, TargetPct,
    Strategies,      \* the rungs, 1..n in the order of their index, and whether there is an exit signal
    Reward,          \* of each rung: its price in multiples of the initial risk
    Percent,         \* exit_fraction of each rung, in percent
    RiskAction,      \* of each rung
    Capital, RiskPct, MaxPositionPct, MinTrade,   \* sizing
    ReservePct, MaxOpen, CooldownBars,            \* account checks
    MaxLosses, LossCooldown, ProfitCooldown,      \* gates that need a history
    LastBar,         \* bound: bars explored
    NoReply

ASSUME EvaluatorAssumption ==
    /\ Prices \subseteq Nat \ {0} /\ LastBar \in Nat
    /\ {StopPct, TargetPct, RiskPct, MaxPositionPct} \subseteq 1..100 /\ ReservePct \in 0..100
    /\ \A s \in Strategies :
          /\ IsFiniteSet(s.rungs) /\ s.rungs = 1..Cardinality(s.rungs)
          /\ s.exitSignal \in BOOLEAN
          /\ \A i \in s.rungs :
                /\ Reward[i] \in Nat \ {0} /\ Percent[i] \in 1..100
                /\ RiskAction[i] \in {"none", "move_sl_to_breakeven", "move_sl_to_previous_tp"}
    /\ {Capital, MaxOpen} \subseteq Nat \ {0}
    /\ {MinTrade, CooldownBars, MaxLosses, LossCooldown, ProfitCooldown} \subseteq Nat

VARIABLES
    strategy,   \* the strategy_config of the deployment, fixed
    bar,        \* the clock, in bars
    positions,  \* of the OMS, by the bar of their entry (which their idempotency key names)
    cash,       \* available_margin
    losses,     \* consecutive_losses
    last,       \* last_trade_was_loss: "none", "loss" or "profit"
    since,      \* bars_since_last_trade, up to the longest cooldown
    reply       \* the answer on its way to the OMS

account == <<cash, losses, last, since>>

vars == <<strategy, bar, positions, account, reply>>

\* The evaluator reads a configured zero as not configured.
OrDefault(configured, default) == IF configured = 0 THEN default ELSE configured

Cooldown == OrDefault(CooldownBars, 5)
Reserve == OrDefault(ReservePct, 10)
LongestWait == Max({Cooldown, LossCooldown, ProfitCooldown})

Init ==
    /\ strategy \in Strategies
    /\ bar = 0
    /\ positions = << >>
    /\ cash = Capital
    /\ losses = 0
    /\ last = "none"
    /\ since = LongestWait
    /\ reply = NoReply
-----------------------------------------------------------------------------
(* Exits.  p is a position as it was sent.                                 *)

\* compute_tp_ladder with _round_lot: rounded down, and at least one share.
RoundLot(shares) == Max({1, shares})

RungQuantity(p, i) == RoundLot((p.size * Percent[i]) \div 100)

RungPrice(p, i) == p.entry + Reward[i] * (p.entry - p.first)

TargetPrice(p) == (p.entry * (100 + TargetPct)) \div 100

\* Mutant: a rung that was executed is tested again.
ReachedAgain(p, price) == {i \in strategy.rungs : price >= RungPrice(p, i)}

Reached(p, price) == {i \in strategy.rungs \ p.hit : price >= RungPrice(p, i)}

\* Rungs executed before rung i, in this evaluation or an earlier one.
FiredBelow(p, i, fired) == {j \in p.hit \cup fired : j < i}

\* What risk_action asks for, as a set of zero or one stop.
StopsOf(p, i, fired) ==
    IF RiskAction[i] = "move_sl_to_breakeven" THEN {p.entry}
    ELSE IF RiskAction[i] = "move_sl_to_previous_tp" /\ FiredBelow(p, i, fired) # {}
    THEN {RungPrice(p, Max(FiredBelow(p, i, fired)))}
    ELSE {}

\* Mutant: the stop is replaced instead of tightened.
StopReplaced(p, fired) ==
    LET moving == {i \in fired : StopsOf(p, i, fired) # {}}
    IN  IF moving = {} THEN p.stop ELSE CHOOSE x \in StopsOf(p, Max(moving), fired) : TRUE

StopAfter(p, fired) == Max({p.stop} \cup UNION {StopsOf(p, i, fired) : i \in fired})

\* Mutant: the stop itself does not count.
StopPassed(price, level) == price < level

StopReached(price, level) == price <= level

\* The exit of the rest of the position, after the rungs.
FullExit(p, price, signal, fired) ==
    IF strategy.rungs # {} /\ p.hit \cup fired = strategy.rungs THEN "none"
    ELSE IF StopReached(price, StopAfter(p, fired)) THEN "stop_loss"
    ELSE IF strategy.rungs = {} /\ price >= TargetPrice(p) THEN "take_profit"
    ELSE IF strategy.exitSignal /\ signal THEN "exit_signal"
    ELSE "none"

ExitOf(p, price, signal) ==
    LET fired == Reached(p, price)
    IN  [partial |-> fired, stop |-> StopAfter(p, fired), full |-> FullExit(p, price, signal, fired)]

\* The positions that _run_exit_phase has an instruction for.
Exiting(price, signal) ==
    {b \in DOMAIN positions :
        LET exit == ExitOf(positions[b], price, signal)
        IN  exit.partial # {} \/ exit.full # "none"}

EvaluateExits(price, signal) ==
    /\ reply = NoReply
    /\ Exiting(price, signal) # {}
    /\ reply' = [action |-> "exit_triggered", price |-> price, bar |-> bar,
                 exits  |-> [b \in Exiting(price, signal) |-> ExitOf(positions[b], price, signal)]]
    /\ UNCHANGED <<strategy, bar, positions, account>>
-----------------------------------------------------------------------------
(* Entries.  Signal, the gates on the candles and the price band are the   *)
(* market's choice; those that need a history are asked.                   *)

GatesPassed ==
    /\ MaxLosses > 0 => losses < MaxLosses
    /\ (last = "loss" /\ LossCooldown > 0) => since >= LossCooldown
    /\ (last = "profit" /\ ProfitCooldown > 0) => since >= ProfitCooldown

\* _round_tick rounds down.
InitialStop(entry) == (entry * (100 - StopPct)) \div 100

\* Mutant: without the limit on the capital of one position.
QuantityByRisk(entry) == RoundLot((Capital * RiskPct) \div (100 * (entry - InitialStop(entry))))

Quantity(entry) == Min({RoundLot((Capital * RiskPct) \div (100 * (entry - InitialStop(entry)))),
                        RoundLot((Capital * MaxPositionPct) \div (100 * entry))})

\* Mutant: the reserve is compared with the margin before the trade.
AccountClearBefore(entry) ==
    /\ entry * Quantity(entry) <= cash
    /\ cash * 100 >= Capital * Reserve
    /\ Cardinality(DOMAIN positions) < MaxOpen
    /\ since >= Cooldown

AccountClear(entry) ==
    /\ entry * Quantity(entry) <= cash
    /\ (cash - entry * Quantity(entry)) * 100 >= Capital * Reserve
    /\ Cardinality(DOMAIN positions) < MaxOpen
    /\ since >= Cooldown

EvaluateEntry(price) ==
    /\ reply = NoReply
    /\ Exiting(price, FALSE) = {}
    /\ GatesPassed
    /\ price * Quantity(price) >= MinTrade
    /\ AccountClear(price)
    /\ reply' = [action |-> "entry_created", price |-> price, bar |-> bar,
                 size   |-> Quantity(price), stop |-> InitialStop(price)]
    /\ UNCHANGED <<strategy, bar, positions, account>>
-----------------------------------------------------------------------------
(* The OMS.  A second entry in one bar is kept out by the cooldown, which  *)
(* is never zero.                                                          *)

\* exits[-1].quantity = rung.exit_qty; a full exit has the quantity of the position as sent.
Sold(p, exit) ==
    SumFunction([i \in exit.partial |-> RungQuantity(p, i)])
    + (IF exit.full = "none" THEN 0 ELSE p.held)

AfterExit(p, exit, price) ==
    [p EXCEPT !.held = @ - Sold(p, exit), !.hit = @ \cup exit.partial, !.stop = exit.stop,
              !.gain = @ + Sold(p, exit) * (price - p.entry)]

ApplyExits ==
    /\ reply # NoReply /\ reply.action = "exit_triggered"
    /\ LET after  == [b \in DOMAIN positions |->
                         IF b \in DOMAIN reply.exits
                         THEN AfterExit(positions[b], reply.exits[b], reply.price)
                         ELSE positions[b]]
           closed == {b \in DOMAIN after : after[b].held = 0}
           lost   == {b \in closed : after[b].gain < 0}
       IN  /\ positions' = [b \in DOMAIN after \ closed |-> after[b]]
           /\ cash' = cash + SumFunction([b \in DOMAIN reply.exits |->
                                           Sold(positions[b], reply.exits[b]) * reply.price])
           /\ IF closed = {} THEN UNCHANGED <<losses, last, since>>
              ELSE /\ losses' = IF lost = closed
                                THEN Min({losses + Cardinality(lost), MaxLosses}) ELSE 0
                   /\ last' = IF lost = closed THEN "loss" ELSE "profit"
                   /\ since' = 0
    /\ reply' = NoReply
    /\ UNCHANGED <<strategy, bar>>

ApplyEntry ==
    /\ reply # NoReply /\ reply.action = "entry_created"
    /\ positions' = [b \in DOMAIN positions \cup {reply.bar} |->
           IF b \in DOMAIN positions THEN positions[b]
           ELSE [entry |-> reply.price, size |-> reply.size, held |-> reply.size,
                 first |-> reply.stop, stop |-> reply.stop, hit |-> {}, gain |-> 0]]
    /\ cash' = cash - reply.price * reply.size
    /\ since' = 0
    /\ reply' = NoReply
    /\ UNCHANGED <<strategy, bar, losses, last>>

LoseReply ==
    /\ reply # NoReply
    /\ reply' = NoReply
    /\ UNCHANGED <<strategy, bar, positions, account>>

NextBar ==
    /\ bar < LastBar
    /\ bar' = bar + 1
    /\ since' = Min({since + 1, LongestWait})
    /\ UNCHANGED <<strategy, positions, cash, losses, last, reply>>

Next ==
    \/ \E price \in Prices :
          \/ \E signal \in BOOLEAN : EvaluateExits(price, signal)
          \/ EvaluateEntry(price)
    \/ ApplyExits
    \/ ApplyEntry
    \/ LoseReply
    \/ NextBar

Spec == Init /\ [][Next]_vars
-----------------------------------------------------------------------------
(* Ladders.  Nothing in the evaluator asks for these; the prompts do       *)
(* (strategy_prompt.py:96, user_input_interpreter.py:639).                 *)

\* What the rungs of a strategy sell of a position of this size when all have fired.
LadderQuantity(s, size) == SumFunction([i \in s.rungs |-> RoundLot((size * Percent[i]) \div 100)])

\* The rungs ascend, they sell no more than was bought, and there is no exit signal
\* that could fire with one of them.
LadderFits ==
    \A s \in Strategies : s.rungs # {} =>
        /\ ~s.exitSignal
        /\ \A i, j \in s.rungs : i < j => Reward[i] < Reward[j]
        /\ \A price \in Prices : LadderQuantity(s, Quantity(price)) <= Quantity(price)

-----------------------------------------------------------------------------
TypeOK ==
    /\ strategy \in Strategies
    /\ bar \in 0..LastBar
    /\ DOMAIN positions \subseteq 0..LastBar
    /\ \A b \in DOMAIN positions :
          /\ positions[b].entry \in Prices /\ positions[b].size \in Nat \ {0}
          /\ positions[b].held \in Int /\ positions[b].hit \subseteq strategy.rungs
    /\ cash \in Int /\ losses \in Nat /\ since \in 0..LongestWait
    /\ last \in {"none", "loss", "profit"}

\* However rungs, stops and lost replies follow each other, no more is sold than
\* was bought (exit_qty is a part of the ORIGINAL position, app/strategy/spec.py:84-85).
NeverOversold == \A b \in DOMAIN positions : positions[b].held >= 0

\* The stop of a position is never loosened, in whatever order the rungs fire and
\* whichever replies arrive (strategy_evaluator.py:692-705).
StopOnlyTightens ==
    [][\A b \in DOMAIN positions \cap DOMAIN positions' : positions'[b].stop >= positions[b].stop]_vars

AnsweredByStop(b) ==
    /\ reply.action = "exit_triggered"
    /\ b \in DOMAIN reply.exits
    /\ reply.exits[b].full = "stop_loss"

\* The ladder has fired to the end, and sold its part of the position.
Spent(p) ==
    /\ strategy.rungs # {} /\ p.hit = strategy.rungs
    /\ p.held = p.size - LadderQuantity(strategy, p.size)

\* An evaluation at or below the stop of a position answers with its stop-loss, and not
\* with the exits of others or an entry, until the last rung has fired; what is held
\* then is the part no rung sells, and no part that one was to sell
\* (strategy_evaluator.py:719-726).
StopGuardsUntilSpent ==
    reply # NoReply =>
        \A b \in DOMAIN positions : reply.price <= positions[b].stop =>
            AnsweredByStop(b) \/ Spent(positions[b])

\* What a position loses at its stop, and the capital it takes, stay within their
\* shares of the capital whatever rung has moved the stop, unless it is the one
\* share that is always bought (risk_manager.py:56-59); and the reserve is kept and
\* the positions stay within their number over any sequence of entries, exits,
\* losses and lost replies (account_manager.py:6-10).
LimitsKept ==
    /\ \A b \in DOMAIN positions :
          LET p == positions[b]
          IN  p.size > 1 => /\ p.held * (p.entry - p.stop) * 100 <= Capital * RiskPct
                            /\ p.size * p.entry * 100 <= Capital * MaxPositionPct
    /\ cash * 100 >= Capital * Reserve
    /\ Cardinality(DOMAIN positions) <= MaxOpen

\* "a leftover (<1.0) is closed later by the stop / exit-signal / EOD"
\* (app/strategy/spec.py:136).
LeftoverClosedByStop ==
    reply # NoReply =>
        \A b \in DOMAIN positions : reply.price <= positions[b].stop => AnsweredByStop(b)
=============================================================================
