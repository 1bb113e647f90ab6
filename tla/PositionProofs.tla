----------------------------- MODULE PositionProofs ----------------------------
(***************************************************************************)
(* Proofs about a position under its ladder and its protective levels, in  *)
(* the live evaluator and in the simulator, for any prices, strategies,    *)
(* percentages, limits and bars.                                           *)
(*                                                                         *)
(* StrategyEvaluator: BaseInv holds of every ladder: the answer under way  *)
(* is about the positions the OMS still has, and each position was bought  *)
(* in the size and with the stop of its entry.  On ladders that fit, in    *)
(* addition, Climbing: a position holds what its rungs have not sold, and  *)
(* its stop is below the rungs that are left, so that no evaluation fires  *)
(* a rung and closes the position as well.                                 *)
(*                                                                         *)
(* Simulator: PassInvariant says what an open trade may still lose and     *)
(* when it was entered, through the folds over the rungs and the minutes   *)
(* of a bar; BreakersInvariant, that what the circuit breakers remember is *)
(* true of the list of trades.                                             *)
(***************************************************************************)
EXTENDS StrategyEvaluator, Simulator, SumLemmas
-----------------------------------------------------------------------------
(* Sizes, rungs and stops.                                                 *)

\* A product grows with its factors.
LEMMA Products ==
    ASSUME NEW a \in Nat, NEW b \in Nat, NEW c \in Nat, a <= b
    PROVE  a * c <= b * c /\ a * c \in Nat /\ b * c \in Nat
<1>1. b * c = a * c + (b - a) * c
  OBVIOUS
<1>2. (b - a) * c \in Nat /\ a * c \in Nat /\ b * c \in Nat
  OBVIOUS
<1> QED
  BY <1>1, <1>2

LEMMA QuotientParts ==
    ASSUME NEW a \in Nat, NEW b \in Nat \ {0}
    PROVE  a \div b \in Nat /\ (a \div b) * b <= a
OBVIOUS

LEMMA LeastOfTwo ==
    ASSUME NEW a \in Int, NEW b \in Int
    PROVE  /\ Min({a, b}) \in {a, b} /\ Min({a, b}) <= a /\ Min({a, b}) <= b
           /\ Max({a, b}) \in {a, b} /\ Max({a, b}) >= a /\ Max({a, b}) >= b
<1>1. \E x \in {a, b} : \A y \in {a, b} : x =< y
  OBVIOUS
<1>2. \E x \in {a, b} : \A y \in {a, b} : x >= y
  OBVIOUS
<1> QED
  BY <1>1, <1>2 DEF Min, Max

LEMMA RoundLotParts ==
    ASSUME NEW shares \in Nat
    PROVE  /\ RoundLot(shares) \in Nat \ {0}
           /\ RoundLot(shares) > 1 \/ shares >= 1 => RoundLot(shares) = shares
<1>1. Max({1, shares}) \in {1, shares} /\ Max({1, shares}) >= 1 /\ Max({1, shares}) >= shares
  BY LeastOfTwo
<1> QED
  BY <1>1 DEF RoundLot

\* The initial stop is below the entry.
LEMMA StopBelow ==
    ASSUME NEW entry \in Prices
    PROVE  InitialStop(entry) \in Nat /\ InitialStop(entry) < entry /\ entry \in Nat \ {0}
<1>1. entry \in Nat \ {0} /\ StopPct \in 1..100
  BY EvaluatorAssumption
<1>2. (100 - StopPct) * entry <= 99 * entry /\ (100 - StopPct) * entry \in Nat
  BY <1>1, Products
<1>3. entry * (100 - StopPct) = (100 - StopPct) * entry
  BY <1>1
<1> QED
  BY <1>1, <1>2, <1>3 DEF InitialStop

\* What is bought is one share at least, and more than one only within both limits.
LEMMA QuantityParts ==
    ASSUME NEW price \in Prices
    PROVE  LET q == Quantity(price)
               perShare == price - InitialStop(price)
           IN  /\ q \in Nat \ {0}
               /\ q > 1 => /\ q * (100 * perShare) <= Capital * RiskPct
                           /\ q * (100 * price) <= Capital * MaxPositionPct
<1> DEFINE d == 100 * (price - InitialStop(price))
           e == 100 * price
           x == Capital * RiskPct
           y == Capital * MaxPositionPct
           q == Quantity(price)
<1>1. d \in Nat \ {0} /\ e \in Nat \ {0}
  BY StopBelow
<1>2. x \in Nat /\ y \in Nat
  <2>1. {Capital, MaxOpen} \subseteq Nat \ {0}
    BY EvaluatorAssumption
  <2>2. {StopPct, TargetPct, RiskPct, MaxPositionPct} \subseteq 1..100
    BY EvaluatorAssumption
  <2>3. Capital \in Nat
    BY <2>1
  <2>4. RiskPct \in Nat /\ MaxPositionPct \in Nat
    BY <2>2
  <2> QED
    BY <2>3, <2>4
<1>3. q = Min({RoundLot(x \div d), RoundLot(y \div e)})
  BY DEF Quantity
<1> HIDE DEF d, e, x, y, q
<1>4. x \div d \in Nat /\ y \div e \in Nat
  BY ONLY <1>1, <1>2, QuotientParts
<1>5. (x \div d) * d <= x /\ (y \div e) * e <= y
  BY ONLY <1>1, <1>2, QuotientParts
<1>6. q \in Nat \ {0} /\ (q > 1 => q <= x \div d /\ q <= y \div e)
  <2> DEFINE u == RoundLot(x \div d)
             v == RoundLot(y \div e)
  <2>1. u \in Nat \ {0} /\ v \in Nat \ {0} /\ (u > 1 => u = x \div d) /\ (v > 1 => v = y \div e)
    BY <1>4, RoundLotParts
  <2>2. q = Min({u, v})
    BY <1>3
  <2> HIDE DEF u, v
  <2>3. q \in {u, v} /\ q <= u /\ q <= v
    <3>1. u \in Int /\ v \in Int
      BY <2>1
    <3>2. Min({u, v}) \in {u, v} /\ Min({u, v}) <= u /\ Min({u, v}) <= v
      BY ONLY <3>1, LeastOfTwo
    <3> QED
      BY <2>2, <3>2
  <2> QED
    BY <2>1, <2>3
<1>7. ASSUME q > 1 PROVE q * d <= x /\ q * e <= y
  <2>1. q * d <= (x \div d) * d /\ q * e <= (y \div e) * e
    BY <1>1, <1>4, <1>6, <1>7, Products
  <2>2. q * d \in Nat /\ (x \div d) * d \in Nat /\ q * e \in Nat /\ (y \div e) * e \in Nat
    BY <1>1, <1>4, <1>6
  <2> QED
    BY <1>2, <1>5, <2>1, <2>2
<1> QED
  BY <1>6, <1>7 DEF d, e, x, y, q

\* The symbols of the ladder: the rungs of the strategy, and what they are worth.
LEMMA RungParts ==
    ASSUME strategy \in Strategies
    PROVE  /\ IsFiniteSet(strategy.rungs) /\ Cardinality(strategy.rungs) \in Nat
           /\ strategy.rungs = 1..Cardinality(strategy.rungs)
           /\ \A i \in strategy.rungs :
                 /\ i \in Nat /\ Reward[i] \in Nat \ {0} /\ Percent[i] \in 1..100
                 /\ RiskAction[i] \in {"none", "move_sl_to_breakeven", "move_sl_to_previous_tp"}
<1>1. /\ IsFiniteSet(strategy.rungs) /\ strategy.rungs = 1..Cardinality(strategy.rungs)
      /\ \A i \in strategy.rungs :
            /\ Reward[i] \in Nat \ {0} /\ Percent[i] \in 1..100
            /\ RiskAction[i] \in {"none", "move_sl_to_breakeven", "move_sl_to_previous_tp"}
  BY EvaluatorAssumption
<1>2. Cardinality(strategy.rungs) \in Nat
  BY <1>1, FS_CardinalityType
<1>3. \A i \in strategy.rungs : i \in Nat
  BY <1>1, <1>2
<1> QED
  BY <1>1, <1>2, <1>3

\* A position of the OMS.
Lot == [entry : Prices, size : Nat \ {0}, held : Int, first : Nat, stop : Int, hit : SUBSET Nat, gain : Int]

\* What it was bought for, and that its stop is where it was or tighter.
Sized(p) ==
    /\ p.size = Quantity(p.entry) /\ p.first = InitialStop(p.entry)
    /\ p.first <= p.stop
    /\ p.hit \subseteq strategy.rungs

\* A rung is above the entry.
LEMMA RungAbove ==
    ASSUME strategy \in Strategies, NEW p \in Lot, Sized(p), NEW i \in strategy.rungs
    PROVE  RungPrice(p, i) \in Nat /\ p.entry < RungPrice(p, i) /\ p.entry \in Nat
<1>1. p.entry \in Prices /\ p.first = InitialStop(p.entry)
  BY DEF Lot, Sized
<1>2. p.entry \in Nat /\ p.entry - p.first \in Nat \ {0}
  BY <1>1, StopBelow
<1>3. Reward[i] \in Nat \ {0}
  BY RungParts
<1>4. Reward[i] * (p.entry - p.first) \in Nat \ {0}
  BY <1>2, <1>3
<1> QED
  BY <1>2, <1>4 DEF RungPrice

\* A higher reward is a higher price.
LEMMA RungsAscend ==
    ASSUME strategy \in Strategies, NEW p \in Lot, Sized(p),
           NEW i \in strategy.rungs, NEW j \in strategy.rungs, Reward[i] < Reward[j]
    PROVE  RungPrice(p, i) < RungPrice(p, j)
<1>1. p.entry \in Prices /\ p.first = InitialStop(p.entry)
  BY DEF Lot, Sized
<1> DEFINE margin == p.entry - p.first
<1>2. p.entry \in Nat /\ margin \in Nat \ {0}
  BY <1>1, StopBelow
<1>3. Reward[i] \in Nat /\ Reward[j] \in Nat
  BY RungParts
<1>4. RungPrice(p, i) = p.entry + Reward[i] * margin /\ RungPrice(p, j) = p.entry + Reward[j] * margin
  BY DEF RungPrice
<1> HIDE DEF margin
<1>5. (Reward[i] + 1) * margin <= Reward[j] * margin
  BY <1>2, <1>3, Products
<1>6. (Reward[i] + 1) * margin = Reward[i] * margin + margin
  BY <1>2, <1>3
<1>7. Reward[i] * margin \in Nat /\ Reward[j] * margin \in Nat
  BY <1>2, <1>3
<1> QED
  BY <1>2, <1>4, <1>5, <1>6, <1>7

\* A rung asks for one stop or none: the entry, or the price of a rung below it.
LEMMA StopsOfParts ==
    ASSUME strategy \in Strategies, NEW p \in Lot, Sized(p),
           NEW fired \in SUBSET strategy.rungs, NEW i \in fired
    PROVE  \/ StopsOf(p, i, fired) = {}
           \/ StopsOf(p, i, fired) = {p.entry} /\ p.entry \in Nat
           \/ \E j \in p.hit \cup fired :
                 j < i /\ j \in strategy.rungs /\ StopsOf(p, i, fired) = {RungPrice(p, j)} /\ RungPrice(p, j) \in Nat
<1>1. p.entry \in Nat
  BY StopBelow DEF Lot
<1>2. CASE RiskAction[i] = "move_sl_to_previous_tp" /\ FiredBelow(p, i, fired) # {}
  <2> DEFINE below == FiredBelow(p, i, fired)
             j == Max(below)
  <2>1. below \in SUBSET (1..Cardinality(strategy.rungs)) /\ Cardinality(strategy.rungs) \in Nat
    BY RungParts DEF FiredBelow, Sized
  <2> HIDE DEF below
  <2>2. j \in below
    BY <1>2, <2>1, LastIndex DEF below
  <2>3. j \in p.hit \cup fired /\ j < i /\ j \in strategy.rungs
    BY <2>2 DEF below, FiredBelow, Sized
  <2>4. StopsOf(p, i, fired) = {RungPrice(p, j)}
    BY <1>2 DEF StopsOf, below
  <2> QED
    BY <2>3, <2>4, RungAbove
<1>3. CASE ~ (RiskAction[i] = "move_sl_to_previous_tp" /\ FiredBelow(p, i, fired) # {})
  BY <1>1, <1>3 DEF StopsOf
<1> QED
  BY <1>2, <1>3

\* The stop after the rungs is one that was asked for, and the tightest.
LEMMA StopAfterParts ==
    ASSUME strategy \in Strategies, NEW p \in Lot, Sized(p), NEW fired \in SUBSET strategy.rungs
    PROVE  /\ StopAfter(p, fired) \in Int /\ p.stop <= StopAfter(p, fired)
           /\ \/ StopAfter(p, fired) = p.stop
              \/ \E i \in fired : StopAfter(p, fired) \in StopsOf(p, i, fired)
<1> DEFINE U(T) == {p.stop} \cup UNION {StopsOf(p, i, fired) : i \in T}
           G == {T \in SUBSET fired : U(T) \subseteq Int /\ \E m \in U(T) : \A y \in U(T) : m >= y}
<1>1. {} \in G
  BY DEF Lot
<1>2. ASSUME NEW T \in SUBSET fired, T \in G, NEW x \in fired \ T
      PROVE  T \cup {x} \in G
  <2>1. PICK m \in U(T) : \A y \in U(T) : m >= y
    BY <1>2
  <2>2. U(T \cup {x}) = U(T) \cup StopsOf(p, x, fired)
    OBVIOUS
  <2>3. U(T) \subseteq Int
    BY <1>2
  <2>4. StopsOf(p, x, fired) = {} \/ \E v \in Int : StopsOf(p, x, fired) = {v}
    BY StopsOfParts
  <2> HIDE DEF U
  <2>5. CASE StopsOf(p, x, fired) = {}
    BY <2>1, <2>2, <2>3, <2>5
  <2>6. ASSUME NEW v \in Int, StopsOf(p, x, fired) = {v} PROVE T \cup {x} \in G
    <3>1. U(T \cup {x}) = U(T) \cup {v} /\ U(T \cup {x}) \subseteq Int
      BY <2>2, <2>3, <2>6
    <3>2. CASE m >= v
      BY <2>1, <3>1, <3>2
    <3>3. CASE ~ (m >= v)
      <4>1. \A y \in U(T \cup {x}) : v >= y
        BY <2>1, <2>3, <3>1, <3>3
      <4> QED
        BY <3>1, <4>1
    <3> QED
      BY <3>2, <3>3
  <2> QED
    BY <2>4, <2>5, <2>6
<1>3. IsFiniteSet(fired)
  BY RungParts, FS_Subset
<1>4. fired \in G
  <2> HIDE DEF G
  <2>1. \A T \in SUBSET fired : T \in G => \A x \in fired \ T : T \cup {x} \in G
    BY <1>2
  <2> QED
    BY <1>1, <1>3, <2>1, InductionOnSubsets
<1>5. StopAfter(p, fired) = Max(U(fired))
  BY DEF StopAfter
<1>6. Max(U(fired)) \in U(fired) /\ \A y \in U(fired) : Max(U(fired)) >= y
  <2> HIDE DEF U
  <2> QED
    BY <1>4 DEF Max
<1>7. p.stop \in U(fired) /\ U(fired) \subseteq Int
  BY <1>4
<1>8. \/ StopAfter(p, fired) = p.stop
      \/ \E i \in fired : StopAfter(p, fired) \in StopsOf(p, i, fired)
  BY <1>5, <1>6
<1> HIDE DEF U
<1> QED
  BY <1>5, <1>6, <1>7, <1>8
-----------------------------------------------------------------------------
(* The invariant every instance keeps.                                     *)

ExitReply(price, row, signal) ==
    [action |-> "exit_triggered", price |-> price, bar |-> row,
     exits  |-> [b \in Exiting(price, signal) |-> ExitOf(positions[b], price, signal)]]

EntryReply(price, row) ==
    [action |-> "entry_created", price |-> price, bar |-> row,
     size   |-> Quantity(price), stop |-> InitialStop(price)]

\* The part of the account checks that stays true until the reply arrives.
Affordable(price) ==
    /\ (cash - price * Quantity(price)) * 100 >= Capital * Reserve
    /\ Cardinality(DOMAIN positions) < MaxOpen

\* The answer under way is about the positions as they are.
ReplyFits ==
    \/ reply = NoReply
    \/ \E price \in Prices, row \in 0..LastBar :
          \/ \E signal \in BOOLEAN : reply = ExitReply(price, row, signal)
          \/ reply = EntryReply(price, row) /\ Exiting(price, FALSE) = {} /\ Affordable(price)

Book ==
    /\ DOMAIN positions \subseteq 0..LastBar
    /\ positions \in [DOMAIN positions -> Lot]
    /\ \A b \in DOMAIN positions : Sized(positions[b])

Counters ==
    /\ strategy \in Strategies /\ bar \in 0..LastBar
    /\ cash \in Int /\ losses \in Nat /\ since \in 0..LongestWait
    /\ last \in {"none", "loss", "profit"}

BaseInv == Counters /\ Book /\ ReplyFits

LEMMA WaitType == LongestWait \in Nat
<1>1. {MinTrade, CooldownBars, MaxLosses, LossCooldown, ProfitCooldown} \subseteq Nat
  BY EvaluatorAssumption
<1>2. CooldownBars \in Nat /\ LossCooldown \in Nat /\ ProfitCooldown \in Nat
  BY <1>1
<1>3. Cooldown \in Nat
  BY <1>2 DEF Cooldown, OrDefault
<1> DEFINE waits == {Cooldown, LossCooldown, ProfitCooldown}
<1>4. \E x \in waits : \A y \in waits : x >= y
  BY <1>2, <1>3
<1>5. waits \subseteq Nat
  BY <1>2, <1>3
<1>6. LongestWait = Max(waits)
  BY DEF LongestWait
<1> HIDE DEF waits
<1> QED
  BY <1>4, <1>5, <1>6 DEF Max

\* What is sold of a position at its rungs.
LEMMA RungSum ==
    ASSUME strategy \in Strategies, NEW p \in Lot, NEW some \in SUBSET strategy.rungs
    PROVE  /\ IsFiniteSet(some)
           /\ \A i \in strategy.rungs : RungQuantity(p, i) \in Nat \ {0}
           /\ SumFunction([i \in some |-> RungQuantity(p, i)]) \in Nat
<1>1. IsFiniteSet(some)
  BY RungParts, FS_Subset
<1>2. ASSUME NEW i \in strategy.rungs PROVE RungQuantity(p, i) \in Nat \ {0}
  <2>0. p.size \in Nat
    BY DEF Lot
  <2>a. Percent[i] \in 1..100
    BY RungParts
  <2>1. p.size \in Nat /\ Percent[i] \in Nat
    BY <2>0, <2>a
  <2>2. (p.size * Percent[i]) \in Nat
    BY <2>1
  <2>3. (p.size * Percent[i]) \div 100 \in Nat
    BY <2>2
  <2> QED
    BY <2>3, RoundLotParts DEF RungQuantity
<1> DEFINE f == [i \in some |-> RungQuantity(p, i)]
<1>3. DOMAIN f = some /\ \A i \in some : f[i] \in Nat
  BY <1>2
<1>4. SumFunction(f) = SumFunctionOnSet(f, some)
  BY <1>3 DEF SumFunction
<1> HIDE DEF f
<1>5. SumFunction(f) \in Nat
  BY <1>1, <1>3, <1>4, SumNat
<1> QED
  BY <1>1, <1>2, <1>5 DEF f

LEMMA ExitParts ==
    ASSUME strategy \in Strategies, NEW p \in Lot, Sized(p), NEW price \in Prices, NEW signal \in BOOLEAN
    PROVE  LET exit == ExitOf(p, price, signal)
               q == AfterExit(p, exit, price)
           IN  /\ exit.partial = Reached(p, price) /\ exit.partial \subseteq strategy.rungs
               /\ Sold(p, exit) \in Int /\ (p.held >= 0 => Sold(p, exit) \in Nat)
               /\ q \in Lot /\ Sized(q) /\ p.stop <= q.stop
               /\ q.entry = p.entry /\ q.size = p.size /\ q.first = p.first
               /\ q.held = p.held - Sold(p, exit)
               /\ q.hit = p.hit \cup exit.partial
               /\ q.stop = StopAfter(p, exit.partial)
<1> DEFINE exit == ExitOf(p, price, signal)
           fired == Reached(p, price)
           n == Sold(p, exit)
           q == AfterExit(p, exit, price)
           sum == SumFunction([i \in fired |-> RungQuantity(p, i)])
<1>1. fired \in SUBSET strategy.rungs
  BY DEF Reached
<1>2. exit.partial = fired /\ exit.stop = StopAfter(p, fired)
  BY DEF ExitOf
<1>3. p.entry \in Nat /\ price \in Nat /\ p.held \in Int /\ p.gain \in Int /\ p.hit \in SUBSET Nat /\ p.stop \in Int
  BY StopBelow DEF Lot
<1>4. sum \in Nat
  BY <1>1, RungSum
<1>5. n = sum + (IF exit.full = "none" THEN 0 ELSE p.held)
  BY <1>2 DEF Sold
<1>6. n \in Int /\ (p.held >= 0 => n \in Nat)
  <2> HIDE DEF n, sum, exit
  <2> QED
    BY <1>3, <1>4, <1>5
<1>7. StopAfter(p, fired) \in Int /\ p.stop <= StopAfter(p, fired)
  BY <1>1, StopAfterParts
<1>8. fired \subseteq Nat
  BY <1>1, RungParts
<1>9. q = [p EXCEPT !.held = p.held - n, !.hit = p.hit \cup fired, !.stop = StopAfter(p, fired),
                    !.gain = p.gain + n * (price - p.entry)]
  BY <1>2 DEF AfterExit
<1>10. n * (price - p.entry) \in Int
  <2> HIDE DEF n
  <2> QED
    BY <1>3, <1>6
<1> HIDE DEF n, q, fired, exit, sum
<1> DEFINE gained == p.gain + n * (price - p.entry)
<1>11. gained \in Int /\ p.held - n \in Int /\ p.hit \cup fired \in SUBSET Nat
  <2>1. gained \in Int
    BY <1>3, <1>10
  <2>2. p.held - n \in Int
    BY <1>3, <1>6
  <2>3. p.hit \cup fired \in SUBSET Nat
    BY <1>3, <1>8
  <2> QED
    BY <2>1, <2>2, <2>3
<1> HIDE DEF gained
<1>12. q = [p EXCEPT !.held = p.held - n, !.hit = p.hit \cup fired, !.stop = StopAfter(p, fired), !.gain = gained]
  BY <1>9 DEF gained
<1>13. /\ q.entry = p.entry /\ q.size = p.size /\ q.first = p.first
       /\ q.held = p.held - n /\ q.hit = p.hit \cup fired /\ q.stop = StopAfter(p, fired)
  BY <1>12 DEF Lot
<1>14. q \in Lot
  BY <1>7, <1>11, <1>12 DEF Lot
<1>15. Sized(q)
  <2>1. p.size = Quantity(p.entry) /\ p.first = InitialStop(p.entry) /\ p.first <= p.stop /\ p.hit \subseteq strategy.rungs
    BY DEF Sized
  <2>2. p.first \in Nat
    BY DEF Lot
  <2>3. q.first <= q.stop
    BY <1>3, <1>7, <1>13, <2>1, <2>2
  <2>4. q.hit \subseteq strategy.rungs
    BY <1>1, <1>13, <2>1
  <2> QED
    BY <1>13, <2>1, <2>3, <2>4 DEF Sized
<1> QED
  BY <1>1, <1>2, <1>6, <1>7, <1>13, <1>14, <1>15 DEF n, q, fired, exit

\* What the OMS makes of an answer with exits.
LEMMA AppliedExits ==
    ASSUME BaseInv, ApplyExits
    PROVE  \E price \in Prices, signal \in BOOLEAN :
              LET going == Exiting(price, signal)
                  Leave(b) == ExitOf(positions[b], price, signal)
              IN  /\ DOMAIN positions' \subseteq DOMAIN positions
                  /\ positions' = [b \in DOMAIN positions' |-> positions'[b]]
                  /\ \A b \in DOMAIN positions' :
                        /\ positions'[b] = IF b \in going THEN AfterExit(positions[b], Leave(b), price)
                                          ELSE positions[b]
                        /\ positions'[b].held # 0
                  /\ cash' = cash + SumFunction([b \in going |-> Sold(positions[b], Leave(b)) * price])
<1> DEFINE Applied(exits, price) ==
               LET after  == [b \in DOMAIN positions |->
                                  IF b \in DOMAIN exits THEN AfterExit(positions[b], exits[b], price)
                                  ELSE positions[b]]
                   closed == {b \in DOMAIN after : after[b].held = 0}
               IN  /\ positions' = [b \in DOMAIN after \ closed |-> after[b]]
                   /\ cash' = cash + SumFunction([b \in DOMAIN exits |-> Sold(positions[b], exits[b]) * price])
<1>1. reply # NoReply /\ reply.action = "exit_triggered" /\ Applied(reply.exits, reply.price)
  BY DEF ApplyExits
<1>2. PICK price \in Prices, signal \in BOOLEAN, row \in 0..LastBar : reply = ExitReply(price, row, signal)
  <2>1. ASSUME NEW price \in Prices, NEW row \in 0..LastBar, reply = EntryReply(price, row) PROVE FALSE
    BY <1>1, <2>1 DEF EntryReply
  <2> QED
    BY <1>1, <2>1 DEF BaseInv, ReplyFits
<1> DEFINE going == Exiting(price, signal)
           exits == [b \in going |-> ExitOf(positions[b], price, signal)]
<1>3. reply.exits = exits /\ reply.price = price
  BY <1>2 DEF ExitReply
<1>4. Applied(exits, price)
  BY <1>1, <1>3
<1>5. DOMAIN exits = going /\ \A b \in going : exits[b] = ExitOf(positions[b], price, signal)
  OBVIOUS
<1> HIDE DEF exits, going
<1>6. SumFunction([b \in DOMAIN exits |-> Sold(positions[b], exits[b]) * price])
      = SumFunction([b \in going |-> Sold(positions[b], ExitOf(positions[b], price, signal)) * price])
  <2>1. [b \in DOMAIN exits |-> Sold(positions[b], exits[b]) * price]
        = [b \in going |-> Sold(positions[b], ExitOf(positions[b], price, signal)) * price]
    BY ONLY <1>5
  <2> QED
    BY <2>1
<1>7. /\ DOMAIN positions' \subseteq DOMAIN positions
      /\ positions' = [b \in DOMAIN positions' |-> positions'[b]]
      /\ \A b \in DOMAIN positions' :
            /\ positions'[b] = IF b \in going THEN AfterExit(positions[b], ExitOf(positions[b], price, signal), price)
                              ELSE positions[b]
            /\ positions'[b].held # 0
  BY <1>4, <1>5
<1> QED
  BY <1>4, <1>6, <1>7 DEF going

\* A step that leaves the positions alone leaves what would be said of them alone.
LEMMA SamePositions ==
    ASSUME UNCHANGED <<strategy, positions>>
    PROVE  /\ Book => Book'
           /\ \A price, signal : Exiting(price, signal)' = Exiting(price, signal)
           /\ \A price, row, signal : ExitReply(price, row, signal)' = ExitReply(price, row, signal)
           /\ \A price, row : EntryReply(price, row)' = EntryReply(price, row)
           /\ cash' = cash => \A price : Affordable(price)' = Affordable(price)
<1>1. Book => Book'
  BY DEF Book, Lot, Sized
<1>2. \A p, price, signal : ExitOf(p, price, signal)' = ExitOf(p, price, signal)
  BY DEF ExitOf, FullExit, StopReached, StopAfter, StopsOf, FiredBelow, Reached, RungPrice, TargetPrice
<1>3. \A price, signal : Exiting(price, signal)' = Exiting(price, signal)
  BY <1>2 DEF Exiting
<1>4. \A price, row, signal : ExitReply(price, row, signal)' = ExitReply(price, row, signal)
  <2>1. \A price, signal : [b \in Exiting(price, signal) |-> ExitOf(positions[b], price, signal)]'
                          = [b \in Exiting(price, signal) |-> ExitOf(positions[b], price, signal)]
    BY <1>2, <1>3
  <2> QED
    BY <2>1 DEF ExitReply
<1>5. \A price, row : EntryReply(price, row)' = EntryReply(price, row)
  BY DEF EntryReply
<1>6. cash' = cash => \A price : Affordable(price)' = Affordable(price)
  BY DEF Affordable, Reserve
<1> QED
  BY <1>1, <1>3, <1>4, <1>5, <1>6

LEMMA ApplyExitsKeeps ==
    ASSUME BaseInv, ApplyExits
    PROVE  /\ BaseInv'
           /\ \A b \in DOMAIN positions \cap DOMAIN positions' : positions'[b].stop >= positions[b].stop
<1>1. PICK price \in Prices, signal \in BOOLEAN :
          LET going == Exiting(price, signal)
              Leave(b) == ExitOf(positions[b], price, signal)
          IN  /\ DOMAIN positions' \subseteq DOMAIN positions
              /\ positions' = [b \in DOMAIN positions' |-> positions'[b]]
              /\ \A b \in DOMAIN positions' :
                    /\ positions'[b] = IF b \in going THEN AfterExit(positions[b], Leave(b), price)
                                      ELSE positions[b]
                    /\ positions'[b].held # 0
              /\ cash' = cash + SumFunction([b \in going |-> Sold(positions[b], Leave(b)) * price])
  BY AppliedExits
<1> DEFINE going == Exiting(price, signal)
           n(b) == Sold(positions[b], ExitOf(positions[b], price, signal))
<1>2. strategy \in Strategies /\ strategy' = strategy
  BY DEF BaseInv, Counters, ApplyExits
<1>3. ASSUME NEW b \in DOMAIN positions
      PROVE  /\ positions[b] \in Lot /\ Sized(positions[b])
             /\ n(b) \in Int
             /\ AfterExit(positions[b], ExitOf(positions[b], price, signal), price) \in Lot
             /\ Sized(AfterExit(positions[b], ExitOf(positions[b], price, signal), price))
             /\ positions[b].stop <= AfterExit(positions[b], ExitOf(positions[b], price, signal), price).stop
  <2>1. positions[b] \in Lot /\ Sized(positions[b])
    BY DEF BaseInv, Book
  <2> QED
    BY <1>2, <2>1, ExitParts
<1>4. ASSUME NEW b \in DOMAIN positions'
      PROVE  positions'[b] \in Lot /\ Sized(positions'[b]) /\ positions'[b].stop >= positions[b].stop
  <2>1. b \in DOMAIN positions
    BY <1>1
  <2>2. positions[b].stop \in Int
    BY <1>3, <2>1 DEF Lot
  <2>3. CASE b \in Exiting(price, signal)
    <3>1. positions'[b] = AfterExit(positions[b], ExitOf(positions[b], price, signal), price)
      BY <1>1, <2>3
    <3>2. positions'[b] \in Lot /\ Sized(positions'[b]) /\ positions[b].stop <= positions'[b].stop
      BY <1>3, <2>1, <3>1
    <3>3. positions'[b].stop \in Int
      BY <3>2 DEF Lot
    <3> QED
      BY <2>2, <3>2, <3>3
  <2>4. CASE b \notin Exiting(price, signal)
    <3>1. positions'[b] = positions[b]
      BY <1>1, <2>4
    <3> QED
      BY <1>3, <2>1, <2>2, <3>1
  <2> QED
    BY <2>3, <2>4
<1>5. Book'
  <2>1. DOMAIN positions' \subseteq 0..LastBar
    BY <1>1 DEF BaseInv, Book
  <2>2. positions' \in [DOMAIN positions' -> Lot]
    BY <1>1, <1>4
  <2>3. \A b \in DOMAIN positions' : Sized(positions[b])'
    BY <1>2, <1>4 DEF Sized
  <2> QED
    BY <2>1, <2>2, <2>3 DEF Book, Lot
<1>6. cash' \in Int
  <2> DEFINE f == [b \in going |-> n(b) * price]
  <2>1. IsFiniteSet(going)
    <3>1. IsFiniteSet(0..LastBar)
      BY FS_Interval, EvaluatorAssumption
    <3>2. going \subseteq DOMAIN positions /\ DOMAIN positions \subseteq 0..LastBar
      BY DEF Exiting, BaseInv, Book
    <3> QED
      BY <3>1, <3>2, FS_Subset
  <2>2. price \in Int
    BY StopBelow
  <2>3. ASSUME NEW b \in going PROVE n(b) * price \in Int
    <3>1. n(b) \in Int
      BY <1>3 DEF Exiting
    <3> HIDE DEF n
    <3> QED
      BY <2>2, <3>1
  <2>4. DOMAIN f = going /\ \A b \in going : f[b] \in Int
    BY <2>3
  <2>5. cash' = cash + SumFunction(f) /\ cash \in Int
    BY <1>1 DEF BaseInv, Counters
  <2> HIDE DEF f, going
  <2>6. SumFunction(f) \in Int
    BY <2>1, <2>4, SumType DEF SumFunction
  <2> QED
    BY <2>5, <2>6
<1>7. losses' \in Nat /\ since' \in 0..LongestWait /\ last' \in {"none", "loss", "profit"}
  <2> DEFINE Closing(closed, lost) ==
                 IF closed = {} THEN UNCHANGED <<losses, last, since>>
                 ELSE /\ losses' = IF lost = closed
                                   THEN Min({losses + Cardinality(lost), MaxLosses}) ELSE 0
                      /\ last' = IF lost = closed THEN "loss" ELSE "profit"
                      /\ since' = 0
  <2>1. \E closed \in SUBSET DOMAIN positions, lost \in SUBSET DOMAIN positions : Closing(closed, lost)
    <3> DEFINE after  == [b \in DOMAIN positions |->
                              IF b \in DOMAIN reply.exits
                              THEN AfterExit(positions[b], reply.exits[b], reply.price)
                              ELSE positions[b]]
               closed == {b \in DOMAIN after : after[b].held = 0}
               lost   == {b \in closed : after[b].gain < 0}
    <3>1. Closing(closed, lost)
      BY DEF ApplyExits
    <3>2. closed \in SUBSET DOMAIN positions /\ lost \in SUBSET DOMAIN positions
      OBVIOUS
    <3> HIDE DEF closed, lost
    <3> QED
      BY <3>1, <3>2
  <2>2. PICK closed \in SUBSET DOMAIN positions, lost \in SUBSET DOMAIN positions : Closing(closed, lost)
    BY <2>1
  <2>3. losses \in Nat /\ since \in 0..LongestWait /\ last \in {"none", "loss", "profit"}
    BY DEF BaseInv, Counters
  <2>4. MaxLosses \in Nat
    <3>1. {MinTrade, CooldownBars, MaxLosses, LossCooldown, ProfitCooldown} \subseteq Nat
      BY EvaluatorAssumption
    <3> QED
      BY <3>1
  <2>5. Cardinality(lost) \in Nat
    <3>1. IsFiniteSet(0..LastBar)
      BY FS_Interval, EvaluatorAssumption
    <3>2. lost \subseteq 0..LastBar
      BY DEF BaseInv, Book
    <3> QED
      BY <3>1, <3>2, FS_Subset, FS_CardinalityType
  <2>6. losses + Cardinality(lost) \in Nat
    BY <2>3, <2>5
  <2>7. Min({losses + Cardinality(lost), MaxLosses}) \in Nat
    <3> DEFINE count == losses + Cardinality(lost)
    <3>1. count \in Nat
      BY <2>6
    <3> HIDE DEF count
    <3>2. Min({count, MaxLosses}) \in {count, MaxLosses}
      <4>1. count \in Int /\ MaxLosses \in Int
        BY <2>4, <3>1
      <4> QED
        BY ONLY <4>1, LeastOfTwo
    <3>3. Min({count, MaxLosses}) \in Nat
      BY <2>4, <3>1, <3>2
    <3> QED
      BY <3>3 DEF count
  <2> QED
    BY <2>2, <2>3, <2>7, WaitType
<1>8. Counters'
  BY <1>2, <1>6, <1>7 DEF BaseInv, Counters, ApplyExits, LongestWait
<1>9. ReplyFits'
  BY DEF ApplyExits, ReplyFits
<1> QED
  BY <1>4, <1>5, <1>8, <1>9 DEF BaseInv

LEMMA ApplyEntryKeeps ==
    ASSUME BaseInv, ApplyEntry
    PROVE  /\ BaseInv'
           /\ \A b \in DOMAIN positions : b \in DOMAIN positions' /\ positions'[b] = positions[b]
           /\ \E price \in Prices, row \in 0..LastBar :
                 /\ Affordable(price)
                 /\ cash' = cash - price * Quantity(price)
                 /\ DOMAIN positions' = DOMAIN positions \cup {row}
                 /\ \A b \in DOMAIN positions' \ DOMAIN positions :
                       positions'[b] = [entry |-> price, size |-> Quantity(price), held |-> Quantity(price),
                                        first |-> InitialStop(price), stop |-> InitialStop(price),
                                        hit |-> {}, gain |-> 0]
<1>1. reply # NoReply /\ reply.action = "entry_created"
  BY DEF ApplyEntry
<1>2. PICK price \in Prices, row \in 0..LastBar : reply = EntryReply(price, row) /\ Affordable(price)
  <2>1. ASSUME NEW price \in Prices, NEW row \in 0..LastBar, NEW signal \in BOOLEAN, reply = ExitReply(price, row, signal)
        PROVE  FALSE
    BY <1>1, <2>1 DEF ExitReply
  <2> QED
    BY <1>1, <2>1 DEF BaseInv, ReplyFits
<1> DEFINE bought == [entry |-> price, size |-> Quantity(price), held |-> Quantity(price),
                      first |-> InitialStop(price), stop |-> InitialStop(price), hit |-> {}, gain |-> 0]
<1>3. reply.price = price /\ reply.bar = row /\ reply.size = Quantity(price) /\ reply.stop = InitialStop(price)
  BY <1>2 DEF EntryReply
<1>4. /\ positions' = [b \in DOMAIN positions \cup {row} |-> IF b \in DOMAIN positions THEN positions[b] ELSE bought]
      /\ cash' = cash - price * Quantity(price) /\ since' = 0
      /\ reply' = NoReply /\ strategy' = strategy /\ bar' = bar /\ losses' = losses /\ last' = last
  BY <1>3 DEF ApplyEntry
<1>5. price \in Nat /\ Quantity(price) \in Nat \ {0} /\ InitialStop(price) \in Nat
  BY StopBelow, QuantityParts
<1>6. bought \in Lot /\ Sized(bought)
  BY <1>5 DEF Lot, Sized
<1> HIDE DEF bought
<1>7. Book'
  <2>1. DOMAIN positions' \subseteq 0..LastBar
    BY <1>4 DEF BaseInv, Book
  <2>2. \A b \in DOMAIN positions' : positions'[b] \in Lot /\ Sized(positions'[b])
    BY <1>4, <1>6 DEF BaseInv, Book
  <2>3. positions' \in [DOMAIN positions' -> Lot]
    BY <1>4, <2>2
  <2>4. \A b \in DOMAIN positions' : Sized(positions[b])'
    BY <1>4, <2>2 DEF Sized
  <2> QED
    BY <2>1, <2>3, <2>4 DEF Book, Lot
<1>8. Counters'
  <2>1. cash' \in Int
    <3>1. price * Quantity(price) \in Nat
      BY <1>5
    <3> QED
      BY <1>4, <3>1 DEF BaseInv, Counters
  <2> QED
    BY <1>4, <2>1, WaitType DEF BaseInv, Counters, LongestWait
<1>9. ReplyFits'
  BY <1>4 DEF ReplyFits
<1> QED
  BY <1>2, <1>4, <1>7, <1>8, <1>9 DEF BaseInv, bought

LEMMA EvaluateKeeps ==
    ASSUME BaseInv, NEW price \in Prices,
           EvaluateEntry(price) \/ \E signal \in BOOLEAN : EvaluateExits(price, signal)
    PROVE  BaseInv' /\ UNCHANGED <<strategy, positions, account>>
<1>1. bar \in 0..LastBar
  BY DEF BaseInv, Counters
<1>2. CASE EvaluateEntry(price)
  <2>1. UNCHANGED <<strategy, bar, positions, account>>
    BY <1>2 DEF EvaluateEntry
  <2>2. reply' = EntryReply(price, bar) /\ Exiting(price, FALSE) = {} /\ Affordable(price)
    BY <1>2 DEF EvaluateEntry, EntryReply, AccountClear, Affordable
  <2>3. reply' = EntryReply(price, bar)' /\ Exiting(price, FALSE)' = {} /\ Affordable(price)'
    BY <2>1, <2>2, SamePositions DEF account
  <2>4. ReplyFits'
    BY <1>1, <2>1, <2>3 DEF ReplyFits
  <2> QED
    BY <2>1, <2>4, SamePositions DEF BaseInv, Counters, LongestWait, account
<1>3. ASSUME NEW signal \in BOOLEAN, EvaluateExits(price, signal)
      PROVE  BaseInv' /\ UNCHANGED <<strategy, positions, account>>
  <2>1. UNCHANGED <<strategy, bar, positions, account>>
    BY <1>3 DEF EvaluateExits
  <2>2. reply' = ExitReply(price, bar, signal)
    BY <1>3 DEF EvaluateExits, ExitReply
  <2>3. reply' = ExitReply(price, bar, signal)'
    BY <2>1, <2>2, SamePositions
  <2>4. ReplyFits'
    BY <1>1, <2>1, <2>3 DEF ReplyFits
  <2> QED
    BY <2>1, <2>4, SamePositions DEF BaseInv, Counters, LongestWait, account
<1> QED
  BY <1>2, <1>3

LEMMA WaitKeeps ==
    ASSUME BaseInv, LoseReply \/ NextBar
    PROVE  BaseInv' /\ UNCHANGED <<strategy, positions, cash>>
<1>1. CASE LoseReply
  BY <1>1, SamePositions DEF LoseReply, BaseInv, Counters, LongestWait, account, ReplyFits
<1>2. CASE NextBar
  <2>1. UNCHANGED <<strategy, positions, cash, losses, last, reply>> /\ bar' = bar + 1 /\ bar < LastBar
    BY <1>2 DEF NextBar
  <2>2. LastBar \in Nat
    BY EvaluatorAssumption
  <2>3. since' \in 0..LongestWait
    <3>1. since' = Min({since + 1, LongestWait}) /\ since \in 0..LongestWait
      BY <1>2 DEF NextBar, BaseInv, Counters
    <3> DEFINE wait == LongestWait
    <3>2. wait \in Nat
      BY WaitType
    <3> HIDE DEF wait
    <3>3. since' = Min({since + 1, wait}) /\ since \in 0..wait
      BY <3>1 DEF wait
    <3>4. since + 1 \in Nat
      BY <3>2, <3>3
    <3>5. Min({since + 1, wait}) \in {since + 1, wait} /\ Min({since + 1, wait}) <= wait
      BY <3>2, <3>4, LeastOfTwo
    <3>6. since' \in 0..wait
      BY <3>2, <3>3, <3>4, <3>5
    <3> QED
      BY <3>6 DEF wait
  <2>4. ReplyFits'
    <3>1. CASE reply = NoReply
      BY <2>1, <3>1 DEF ReplyFits
    <3>2. ASSUME NEW price \in Prices, NEW row \in 0..LastBar, NEW signal \in BOOLEAN, reply = ExitReply(price, row, signal)
          PROVE  ReplyFits'
      <4>1. reply' = ExitReply(price, row, signal)'
        BY <2>1, <3>2, SamePositions
      <4> QED
        BY <4>1 DEF ReplyFits
    <3>3. ASSUME NEW price \in Prices, NEW row \in 0..LastBar,
                 reply = EntryReply(price, row), Exiting(price, FALSE) = {}, Affordable(price)
          PROVE  ReplyFits'
      <4>1. reply' = EntryReply(price, row)' /\ Exiting(price, FALSE)' = {} /\ Affordable(price)'
        BY <2>1, <3>3, SamePositions
      <4> QED
        BY <4>1 DEF ReplyFits
    <3> QED
      BY <3>1, <3>2, <3>3 DEF BaseInv, ReplyFits
  <2>5. Counters'
    BY <2>1, <2>2, <2>3 DEF BaseInv, Counters, LongestWait
  <2> QED
    BY <2>1, <2>4, <2>5, SamePositions DEF BaseInv
<1> QED
  BY <1>1, <1>2

LEMMA BaseStart == Init => BaseInv
<1> SUFFICES ASSUME Init PROVE BaseInv
  OBVIOUS
<1>1. strategy \in Strategies /\ bar = 0 /\ positions = << >> /\ cash = Capital /\ losses = 0
      /\ last = "none" /\ since = LongestWait /\ reply = NoReply
  BY DEF Init
<1>2. DOMAIN positions = {}
  BY <1>1
<1>3. Capital \in Nat /\ LastBar \in Nat
  <2>1. {Capital, MaxOpen} \subseteq Nat \ {0}
    BY EvaluatorAssumption
  <2> QED
    BY <2>1, EvaluatorAssumption
<1>4. positions \in [DOMAIN positions -> Lot]
  BY <1>1, <1>2
<1> QED
  BY <1>1, <1>2, <1>3, <1>4, WaitType DEF BaseInv, Counters, Book, ReplyFits

LEMMA BaseStep ==
    ASSUME BaseInv, [Next]_vars
    PROVE  /\ BaseInv'
           /\ \A b \in DOMAIN positions \cap DOMAIN positions' : positions'[b].stop >= positions[b].stop
<1>0. ASSUME UNCHANGED positions
      PROVE  \A b \in DOMAIN positions \cap DOMAIN positions' : positions'[b].stop >= positions[b].stop
  BY <1>0 DEF BaseInv, Book, Lot
<1>1. ASSUME NEW price \in Prices, EvaluateEntry(price) \/ \E signal \in BOOLEAN : EvaluateExits(price, signal)
      PROVE  BaseInv' /\ UNCHANGED positions
  BY <1>1, EvaluateKeeps
<1>2. CASE ApplyExits
  BY <1>2, ApplyExitsKeeps
<1>3. CASE ApplyEntry
  <2>1. \A b \in DOMAIN positions : positions[b].stop \in Int
    BY DEF BaseInv, Book, Lot
  <2> QED
    BY <1>3, <2>1, ApplyEntryKeeps
<1>4. CASE LoseReply \/ NextBar
  BY <1>0, <1>4, WaitKeeps
<1>5. CASE UNCHANGED vars
  BY <1>0, <1>5, SamePositions DEF vars, account, BaseInv, Counters, LongestWait, ReplyFits
<1> QED
  BY <1>0, <1>1, <1>2, <1>3, <1>4, <1>5 DEF Next

\* Whatever the ladder of a strategy, the answer under way is about the positions the
\* OMS still has, and every position was bought in the size and with the stop of its entry.
THEOREM EvaluatorInvariant == Spec => []BaseInv
<1>1. BaseInv /\ [Next]_vars => BaseInv'
  BY BaseStep
<1> QED
  BY <1>1, BaseStart, PTL DEF Spec

THEOREM EvaluatorTypeCorrect == Spec => []TypeOK
<1>1. BaseInv => TypeOK
  BY DEF BaseInv, Counters, Book, Lot, Sized, TypeOK
<1> QED
  BY <1>1, EvaluatorInvariant, PTL

\* However the rungs of a ladder are ordered and whatever they ask for, and whichever
\* answers are lost, no stop is loosened.
THEOREM StopsAlwaysTighten == Spec => StopOnlyTightens
<1>1. BaseInv /\ [Next]_vars
      => [\A b \in DOMAIN positions \cap DOMAIN positions' : positions'[b].stop >= positions[b].stop]_vars
  BY BaseStep
<1> QED
  BY <1>1, EvaluatorInvariant, PTL DEF Spec, StopOnlyTightens
-----------------------------------------------------------------------------
(* Ladders that fit their positions.                                       *)

SoldAtRungs(p, some) == SumFunction([i \in some |-> RungQuantity(p, i)])

\* A position holds what its rungs have not sold, and its stop is below those left.
Climbing(p) ==
    /\ p.held = p.size - SoldAtRungs(p, p.hit)
    /\ p.held > 0
    /\ \A i \in strategy.rungs \ p.hit : p.stop < RungPrice(p, i)

LadderInv == \A b \in DOMAIN positions : Climbing(positions[b])

\* The rungs of two disjoint sets sell the sum of what each sells.
LEMMA RungsApart ==
    ASSUME strategy \in Strategies, NEW p \in Lot,
           NEW some \in SUBSET strategy.rungs, NEW others \in SUBSET (strategy.rungs \ some)
    PROVE  SoldAtRungs(p, some \cup others) = SoldAtRungs(p, some) + SoldAtRungs(p, others)
<1> DEFINE f == [i \in strategy.rungs |-> RungQuantity(p, i)]
           G == {T \in SUBSET others :
                    SumFunctionOnSet(f, some \cup T) = SumFunctionOnSet(f, some) + SumFunctionOnSet(f, T)}
<1>1. \A i \in strategy.rungs : f[i] \in Int
  BY RungSum
<1>2. \A T \in SUBSET strategy.rungs : IsFiniteSet(T) /\ SumFunctionOnSet(f, T) \in Int
  <2>1. ASSUME NEW T \in SUBSET strategy.rungs PROVE IsFiniteSet(T) /\ \A i \in T : f[i] \in Int
    BY <1>1, RungParts, FS_Subset
  <2> HIDE DEF f
  <2> QED
    BY <2>1, SumType
<1>3. \A T \in SUBSET strategy.rungs : SoldAtRungs(p, T) = SumFunctionOnSet(f, T)
  <2> SUFFICES ASSUME NEW T \in SUBSET strategy.rungs PROVE SoldAtRungs(p, T) = SumFunctionOnSet(f, T)
    OBVIOUS
  <2> DEFINE g == [i \in T |-> RungQuantity(p, i)]
  <2>1. IsFiniteSet(T)
    BY <1>2
  <2>2. \A i \in T : g[i] = f[i] /\ g[i] \in Int
    BY <1>1
  <2>3. SoldAtRungs(p, T) = SumFunctionOnSet(g, T)
    BY DEF SoldAtRungs, SumFunction
  <2> HIDE DEF f, g
  <2> QED
    BY <2>1, <2>2, <2>3, SumSame
<1> HIDE DEF f
<1>4. {} \in G
  <2>1. some \cup {} = some /\ SumFunctionOnSet(f, {}) = 0 /\ SumFunctionOnSet(f, some) \in Int
    BY <1>2, SumEmpty
  <2> QED
    BY <2>1
<1>5. ASSUME NEW T \in SUBSET others, T \in G, NEW x \in others \ T PROVE T \cup {x} \in G
  <2>1. some \cup (T \cup {x}) = (some \cup T) \cup {x} /\ x \notin some \cup T
    OBVIOUS
  <2>2. (some \cup T) \in SUBSET strategy.rungs /\ T \in SUBSET strategy.rungs /\ x \in strategy.rungs
    OBVIOUS
  <2>3. IsFiniteSet(some \cup T) /\ IsFiniteSet(T)
    BY <1>2, <2>2
  <2>4. SumFunctionOnSet(f, (some \cup T) \cup {x}) = f[x] + SumFunctionOnSet(f, some \cup T)
    <3>1. \A y \in (some \cup T) \cup {x} : f[y] \in Int
      BY <1>1, <2>2
    <3> QED
      BY <2>1, <2>3, <3>1, SumAdd
  <2>5. SumFunctionOnSet(f, T \cup {x}) = f[x] + SumFunctionOnSet(f, T)
    <3>1. \A y \in T \cup {x} : f[y] \in Int
      BY <1>1, <2>2
    <3> QED
      BY <2>3, <3>1, SumAdd
  <2>6. SumFunctionOnSet(f, some \cup T) = SumFunctionOnSet(f, some) + SumFunctionOnSet(f, T)
    BY <1>5
  <2>7. f[x] \in Int /\ SumFunctionOnSet(f, some) \in Int /\ SumFunctionOnSet(f, T) \in Int
    BY <1>1, <1>2, <2>2
  <2>8. SumFunctionOnSet(f, some \cup (T \cup {x})) = SumFunctionOnSet(f, some) + SumFunctionOnSet(f, T \cup {x})
    <3>1. SumFunctionOnSet(f, some \cup (T \cup {x})) = SumFunctionOnSet(f, (some \cup T) \cup {x})
      BY ONLY <2>1
    <3> QED
      BY ONLY <3>1, <2>4, <2>5, <2>6, <2>7
  <2> QED
    BY <2>8
<1>6. others \in G
  <2>1. IsFiniteSet(others)
    BY <1>2
  <2> HIDE DEF G
  <2>2. \A T \in SUBSET others : T \in G => \A x \in others \ T : T \cup {x} \in G
    BY <1>5
  <2> QED
    BY <1>4, <2>1, <2>2, InductionOnSubsets
<1> QED
  BY <1>3, <1>6

\* All rungs together sell no more than was bought.
LEMMA LadderWithin ==
    ASSUME LadderFits, strategy \in Strategies, NEW p \in Lot, Sized(p), NEW some \in SUBSET strategy.rungs
    PROVE  SoldAtRungs(p, some) \in Nat /\ SoldAtRungs(p, some) <= p.size
<1>1. SoldAtRungs(p, some) \in Nat /\ SoldAtRungs(p, strategy.rungs \ some) \in Nat
  BY RungSum DEF SoldAtRungs
<1>2. SoldAtRungs(p, strategy.rungs) = SoldAtRungs(p, some) + SoldAtRungs(p, strategy.rungs \ some)
  <2>1. some \cup (strategy.rungs \ some) = strategy.rungs
    OBVIOUS
  <2>2. SoldAtRungs(p, some \cup (strategy.rungs \ some))
        = SoldAtRungs(p, some) + SoldAtRungs(p, strategy.rungs \ some)
    BY RungsApart
  <2> QED
    BY <2>1, <2>2
<1>3. p.size \in Nat /\ p.size = Quantity(p.entry) /\ p.entry \in Prices
  BY DEF Lot, Sized
<1>4. SoldAtRungs(p, strategy.rungs) <= p.size
  <2>1. CASE strategy.rungs = {}
    <3>1. SoldAtRungs(p, strategy.rungs) = 0
      BY <2>1, SumEmpty DEF SoldAtRungs, SumFunction
    <3> QED
      BY <1>3, <3>1
  <2>2. CASE strategy.rungs # {}
    <3>1. SoldAtRungs(p, strategy.rungs) = LadderQuantity(strategy, p.size)
      BY DEF SoldAtRungs, LadderQuantity, RungQuantity
    <3>2. LadderQuantity(strategy, Quantity(p.entry)) <= Quantity(p.entry)
      BY <1>3, <2>2 DEF LadderFits
    <3> QED
      BY <1>3, <3>1, <3>2
  <2> QED
    BY <2>1, <2>2
<1> QED
  BY <1>1, <1>2, <1>3, <1>4

\* What the prompts ask of a ladder makes it one that fits, when every rung is at least
\* one share: ascending targets whose fractions sum to no more than the whole
\* (strategy_prompt.py:96, user_input_interpreter.py:639).
THEOREM FractionsFit ==
    ASSUME \A s \in Strategies : s.rungs # {} =>
               /\ ~s.exitSignal
               /\ \A i, j \in s.rungs : i < j => Reward[i] < Reward[j]
               /\ SumFunction([i \in s.rungs |-> Percent[i]]) <= 100
               /\ \A price \in Prices, i \in s.rungs : Quantity(price) * Percent[i] >= 100
    PROVE  LadderFits
<1> SUFFICES ASSUME NEW s \in Strategies, s.rungs # {}, NEW price \in Prices
             PROVE  LadderQuantity(s, Quantity(price)) <= Quantity(price)
  BY DEF LadderFits
<1> DEFINE S == s.rungs
           q == Quantity(price)
           f == [i \in S |-> RoundLot((q * Percent[i]) \div 100)]
           g == [i \in S |-> Percent[i]]
           G == {T \in SUBSET S : 100 * SumFunctionOnSet(f, T) <= q * SumFunctionOnSet(g, T)}
<1>1. q \in Nat \ {0}
  BY QuantityParts
<1>2. IsFiniteSet(S) /\ \A i \in S : Percent[i] \in 1..100
  BY EvaluatorAssumption
<1>3. ASSUME NEW i \in S PROVE f[i] \in Nat /\ g[i] \in Nat /\ 100 * f[i] <= q * g[i]
  <2> DEFINE part == q * Percent[i]
  <2>1. Percent[i] \in Nat
    BY <1>2
  <2>2. part \in Nat /\ part >= 100
    <3>1. part >= 100
      OBVIOUS
    <3>2. q * Percent[i] \in Nat
      <4> HIDE DEF q
      <4> QED
        BY <1>1, <2>1
    <3> QED
      BY <3>1, <3>2
  <2>3. f[i] = RoundLot(part \div 100) /\ g[i] = Percent[i] /\ q * g[i] = part
    OBVIOUS
  <2> HIDE DEF part, f, g
  <2>4. part \div 100 \in Nat /\ part \div 100 >= 1 /\ 100 * (part \div 100) <= part
    BY <2>2
  <2>6. f[i] = part \div 100
    BY <2>3, <2>4, RoundLotParts
  <2> QED
    BY <2>1, <2>3, <2>4, <2>6
<1>4. \A T \in SUBSET S : IsFiniteSet(T) /\ SumFunctionOnSet(f, T) \in Nat /\ SumFunctionOnSet(g, T) \in Nat
  <2> HIDE DEF f, g, S
  <2>1. ASSUME NEW T \in SUBSET S
        PROVE  IsFiniteSet(T) /\ SumFunctionOnSet(f, T) \in Nat /\ SumFunctionOnSet(g, T) \in Nat
    <3>1. IsFiniteSet(T)
      BY <1>2, FS_Subset
    <3>2. \A i \in T : f[i] \in Nat /\ g[i] \in Nat
      BY <1>3
    <3> QED
      BY <3>1, <3>2, SumNat
  <2> QED
    BY <2>1
<1>5. LadderQuantity(s, q) = SumFunctionOnSet(f, S) /\ SumFunctionOnSet(g, S) <= 100
  BY DEF LadderQuantity, SumFunction
<1> HIDE DEF f, g, q, S
<1>6. {} \in G
  BY <1>1, SumEmpty
<1>7. ASSUME NEW T \in SUBSET S, T \in G, NEW x \in S \ T PROVE T \cup {x} \in G
  <2> DEFINE a == SumFunctionOnSet(f, T)
             b == SumFunctionOnSet(g, T)
  <2>1. a \in Nat /\ b \in Nat /\ IsFiniteSet(T) /\ 100 * a <= q * b
    BY <1>4, <1>7
  <2>2. f[x] \in Nat /\ g[x] \in Nat /\ 100 * f[x] <= q * g[x]
    BY <1>3
  <2>3. \A y \in T \cup {x} : f[y] \in Int /\ g[y] \in Int
    BY <1>3
  <2>4. SumFunctionOnSet(f, T \cup {x}) = f[x] + a /\ SumFunctionOnSet(g, T \cup {x}) = g[x] + b
    BY <2>1, <2>3, SumAdd
  <2> HIDE DEF a, b
  <2>5. q * (g[x] + b) = q * g[x] + q * b /\ q * g[x] \in Nat /\ q * b \in Nat
    BY <1>1, <2>1, <2>2
  <2>6. 100 * (f[x] + a) <= q * (g[x] + b)
    BY <2>1, <2>2, <2>5
  <2> QED
    BY <2>4, <2>6
<1>8. S \in G
  <2> HIDE DEF G
  <2>1. \A T \in SUBSET S : T \in G => \A x \in S \ T : T \cup {x} \in G
    BY <1>7
  <2> QED
    BY <1>2, <1>6, <2>1, InductionOnSubsets
<1>9. SumFunctionOnSet(f, S) <= q
  <2> DEFINE a == SumFunctionOnSet(f, S)
             b == SumFunctionOnSet(g, S)
  <2>1. a \in Nat /\ b \in Nat /\ b <= 100 /\ 100 * a <= q * b
    BY <1>4, <1>5, <1>8
  <2> HIDE DEF a, b
  <2>2. b * q <= 100 * q /\ q * b = b * q
    BY <1>1, <2>1, Products
  <2>3. 100 * a <= 100 * q
    BY <1>1, <2>1, <2>2
  <2>4. a <= q
    BY <1>1, <2>1, <2>3
  <2> QED
    BY <2>4 DEF a
<1> QED
  BY <1>5, <1>9 DEF q

\* The stop that the rungs leave is below the price that fired them, and below the
\* rungs above that price.
LEMMA StopBelowRungs ==
    ASSUME LadderFits, strategy \in Strategies, NEW p \in Lot, Sized(p), Climbing(p), NEW price \in Prices
    PROVE  LET fired == Reached(p, price)
           IN  /\ \A k \in strategy.rungs \ (p.hit \cup fired) : StopAfter(p, fired) < RungPrice(p, k)
               /\ fired # {} => StopAfter(p, fired) < price
<1> DEFINE fired == Reached(p, price)
           level == StopAfter(p, fired)
<1>1. fired \in SUBSET strategy.rungs /\ fired \subseteq strategy.rungs \ p.hit
  BY DEF Reached
<1>2. price \in Nat /\ p.stop \in Int /\ level \in Int
  BY <1>1, StopBelow, StopAfterParts DEF Lot
<1>3. \A i \in strategy.rungs : RungPrice(p, i) \in Nat /\ p.entry < RungPrice(p, i) /\ p.entry \in Nat
  BY RungAbove
<1>4. \A i \in fired : RungPrice(p, i) <= price
  BY <1>2, <1>3 DEF Reached
<1>5. \A k \in strategy.rungs \ (p.hit \cup fired) : price < RungPrice(p, k)
  BY <1>2, <1>3 DEF Reached
<1>6. \A i \in strategy.rungs \ p.hit : p.stop < RungPrice(p, i)
  BY DEF Climbing
<1>7. \/ level = p.stop
      \/ level = p.entry /\ fired # {}
      \/ \E i \in fired, j \in strategy.rungs : j < i /\ level = RungPrice(p, j)
  <2>1. CASE level = p.stop
    BY <2>1
  <2>2. ASSUME NEW i \in fired, level \in StopsOf(p, i, fired)
        PROVE  \/ level = p.entry /\ fired # {}
               \/ \E j \in strategy.rungs : j < i /\ level = RungPrice(p, j)
    <3> HIDE DEF level, fired
    <3>1. \/ StopsOf(p, i, fired) = {}
          \/ StopsOf(p, i, fired) = {p.entry}
          \/ \E j \in p.hit \cup fired : j < i /\ j \in strategy.rungs /\ StopsOf(p, i, fired) = {RungPrice(p, j)}
      BY <1>1, StopsOfParts
    <3> QED
      BY <2>2, <3>1
  <2>3. level = p.stop \/ \E i \in fired : level \in StopsOf(p, i, fired)
    BY <1>1, StopAfterParts
  <2> HIDE DEF level, fired
  <2> QED
    BY <2>1, <2>2, <2>3
<1> HIDE DEF level, fired
<1>8. CASE level = p.stop
  BY <1>1, <1>2, <1>3, <1>4, <1>6, <1>8 DEF level, fired
<1>9. CASE level = p.entry /\ fired # {}
  <2>1. PICK i \in fired : TRUE
    BY <1>9
  <2>2. level < price
    BY <1>1, <1>2, <1>3, <1>4, <1>9, <2>1
  <2>3. \A k \in strategy.rungs : level < RungPrice(p, k)
    BY <1>3, <1>9
  <2> QED
    BY <2>2, <2>3 DEF level, fired
<1>10. ASSUME NEW i \in fired, NEW j \in strategy.rungs, j < i, level = RungPrice(p, j)
       PROVE  /\ \A k \in strategy.rungs \ (p.hit \cup fired) : level < RungPrice(p, k)
              /\ level < price
  <2>1. i \in strategy.rungs /\ RungPrice(p, i) <= price /\ RungPrice(p, i) \in Nat
    BY <1>1, <1>3, <1>4
  <2>2. Reward[j] < Reward[i]
    BY <1>10, <2>1 DEF LadderFits
  <2>3. RungPrice(p, j) < RungPrice(p, i)
    BY <2>1, <2>2, RungsAscend
  <2>4. level < price
    BY <1>2, <1>10, <2>1, <2>3
  <2>5. \A k \in strategy.rungs \ (p.hit \cup fired) : level < RungPrice(p, k)
    BY <1>2, <1>3, <1>5, <2>4
  <2> QED
    BY <2>4, <2>5
<1> QED
  BY <1>7, <1>8, <1>9, <1>10 DEF level, fired

\* An evaluation that fires a rung of a ladder closes nothing else of the position.
LEMMA RungsAlone ==
    ASSUME LadderFits, strategy \in Strategies, NEW p \in Lot, Sized(p), Climbing(p),
           NEW price \in Prices, NEW signal \in BOOLEAN, Reached(p, price) # {}
    PROVE  FullExit(p, price, signal, Reached(p, price)) = "none"
<1> DEFINE fired == Reached(p, price)
<1>1. strategy.rungs # {} /\ ~ strategy.exitSignal
  BY DEF Reached, LadderFits
<1>2. StopAfter(p, fired) < price
  BY StopBelowRungs
<1>3. price \in Nat /\ StopAfter(p, fired) \in Int
  BY StopBelow, StopAfterParts DEF Reached
<1>4. ~ StopReached(price, StopAfter(p, fired))
  BY <1>2, <1>3 DEF StopReached
<1> HIDE DEF fired
<1> QED
  BY <1>1, <1>4 DEF FullExit, fired

LEMMA ClimbingKept ==
    ASSUME LadderFits, strategy \in Strategies, NEW p \in Lot, Sized(p), Climbing(p),
           NEW price \in Prices, NEW signal \in BOOLEAN
    PROVE  LET exit == ExitOf(p, price, signal)
               q == AfterExit(p, exit, price)
           IN  Sold(p, exit) \in Nat /\ (q.held # 0 => Climbing(q))
<1> DEFINE exit == ExitOf(p, price, signal)
           fired == Reached(p, price)
           q == AfterExit(p, exit, price)
<1>1. /\ exit.partial = fired /\ fired \in SUBSET strategy.rungs
      /\ q \in Lot /\ Sized(q)
      /\ q.entry = p.entry /\ q.size = p.size /\ q.first = p.first
      /\ q.held = p.held - Sold(p, exit) /\ q.hit = p.hit \cup fired /\ q.stop = StopAfter(p, fired)
      /\ p.held >= 0 => Sold(p, exit) \in Nat
  BY ExitParts
<1>2. exit.full = FullExit(p, price, signal, fired)
  BY DEF ExitOf
<1>3. p.held \in Int /\ p.size \in Nat /\ p.held > 0 /\ p.held = p.size - SoldAtRungs(p, p.hit)
  BY DEF Lot, Climbing
<1>4. p.hit \in SUBSET strategy.rungs /\ q.hit \in SUBSET strategy.rungs
  BY <1>1 DEF Sized
<1>5. \A i : RungPrice(q, i) = RungPrice(p, i) /\ RungQuantity(q, i) = RungQuantity(p, i)
  BY <1>1 DEF RungPrice, RungQuantity
<1>6. SoldAtRungs(q, q.hit) = SoldAtRungs(p, q.hit)
  BY <1>5 DEF SoldAtRungs
<1>7. Sold(p, exit) = SoldAtRungs(p, fired) + (IF exit.full = "none" THEN 0 ELSE p.held)
  BY <1>1 DEF Sold, SoldAtRungs
<1>8. \A k \in strategy.rungs \ q.hit : q.stop < RungPrice(q, k)
  BY <1>1, <1>5, StopBelowRungs
<1> HIDE DEF exit, fired, q
<1>9. SoldAtRungs(p, q.hit) = SoldAtRungs(p, p.hit) + SoldAtRungs(p, fired)
  <2>1. fired \in SUBSET (strategy.rungs \ p.hit)
    BY DEF fired, Reached
  <2> QED
    BY <1>1, <1>4, <2>1, RungsApart
<1>10. /\ SoldAtRungs(p, q.hit) \in Nat /\ SoldAtRungs(p, q.hit) <= p.size
       /\ SoldAtRungs(p, p.hit) \in Nat /\ SoldAtRungs(p, fired) \in Nat
  BY <1>1, <1>4, LadderWithin
<1>11. CASE exit.full = "none"
  <2>1. Sold(p, exit) = SoldAtRungs(p, fired)
    BY <1>7, <1>10, <1>11
  <2>2. q.held = p.size - SoldAtRungs(p, q.hit) /\ q.held >= 0
    BY <1>1, <1>3, <1>9, <1>10, <2>1
  <2>3. q.held # 0 => q.held > 0
    BY <1>3, <1>10, <2>2
  <2> QED
    BY <1>1, <1>3, <1>6, <1>8, <2>2, <2>3 DEF Climbing, exit, q
<1>12. CASE exit.full # "none"
  <2>1. fired = {}
    BY <1>2, <1>12, RungsAlone DEF fired
  <2>2. SoldAtRungs(p, fired) = 0
    BY <2>1, SumEmpty DEF SoldAtRungs, SumFunction
  <2>3. Sold(p, exit) = p.held
    BY <1>3, <1>7, <1>12, <2>2
  <2>4. q.held = 0
    BY <1>1, <1>3, <2>3
  <2> QED
    BY <1>1, <1>3, <2>4 DEF exit, q
<1> QED
  BY <1>11, <1>12

LEMMA ClimbingSame ==
    ASSUME UNCHANGED <<strategy, positions>>
    PROVE  LadderInv => LadderInv'
BY DEF LadderInv, Climbing, SoldAtRungs, RungQuantity, RungPrice

LEMMA LadderStep ==
    ASSUME LadderFits, BaseInv, LadderInv, [Next]_vars
    PROVE  LadderInv'
<1>1. strategy \in Strategies /\ \A b \in DOMAIN positions : positions[b] \in Lot /\ Sized(positions[b]) /\ Climbing(positions[b])
  BY DEF BaseInv, Counters, Book, LadderInv
<1>2. CASE ApplyExits
  <2>1. PICK price \in Prices, signal \in BOOLEAN :
            /\ DOMAIN positions' \subseteq DOMAIN positions
            /\ \A b \in DOMAIN positions' :
                  /\ positions'[b] = IF b \in Exiting(price, signal)
                                    THEN AfterExit(positions[b], ExitOf(positions[b], price, signal), price)
                                    ELSE positions[b]
                  /\ positions'[b].held # 0
    BY <1>2, AppliedExits
  <2>2. strategy' = strategy
    BY <1>2 DEF ApplyExits
  <2>3. ASSUME NEW b \in DOMAIN positions' PROVE Climbing(positions'[b])
    <3>1. CASE b \in Exiting(price, signal)
      BY <1>1, <2>1, <3>1, ClimbingKept
    <3>2. CASE b \notin Exiting(price, signal)
      BY <1>1, <2>1, <3>2
    <3> QED
      BY <3>1, <3>2
  <2> QED
    BY <2>2, <2>3 DEF LadderInv, Climbing, SoldAtRungs, RungQuantity, RungPrice
<1>3. CASE ApplyEntry
  <2>1. /\ \A b \in DOMAIN positions : b \in DOMAIN positions' /\ positions'[b] = positions[b]
        /\ \E price \in Prices :
              \A b \in DOMAIN positions' \ DOMAIN positions :
                 positions'[b] = [entry |-> price, size |-> Quantity(price), held |-> Quantity(price),
                                  first |-> InitialStop(price), stop |-> InitialStop(price), hit |-> {}, gain |-> 0]
    BY <1>3, ApplyEntryKeeps
  <2>2. strategy' = strategy
    BY <1>3 DEF ApplyEntry
  <2>3. ASSUME NEW b \in DOMAIN positions' PROVE Climbing(positions'[b])
    <3>1. CASE b \in DOMAIN positions
      BY <1>1, <2>1, <3>1
    <3>2. CASE b \notin DOMAIN positions
      <4>1. PICK price \in Prices :
                positions'[b] = [entry |-> price, size |-> Quantity(price), held |-> Quantity(price),
                                 first |-> InitialStop(price), stop |-> InitialStop(price), hit |-> {}, gain |-> 0]
        BY <2>1, <3>2
      <4> DEFINE p == positions'[b]
      <4>2. Quantity(price) \in Nat \ {0} /\ price \in Nat /\ InitialStop(price) \in Nat /\ InitialStop(price) < price
        BY QuantityParts, StopBelow
      <4>3. /\ p.entry = price /\ p.size = Quantity(price) /\ p.held = Quantity(price)
            /\ p.first = InitialStop(price) /\ p.stop = InitialStop(price) /\ p.hit = {}
        BY <4>1
      <4>4. p \in Lot
        BY <4>1, <4>2 DEF Lot
      <4>5. Sized(p)
        BY <4>2, <4>3 DEF Sized
      <4> HIDE DEF p
      <4>6. \A i \in strategy.rungs : RungPrice(p, i) \in Nat /\ p.entry < RungPrice(p, i)
        BY <1>1, <4>4, <4>5, RungAbove
      <4>7. \A i \in strategy.rungs : p.stop < RungPrice(p, i)
        BY <4>2, <4>3, <4>6
      <4>8. SoldAtRungs(p, p.hit) = 0
        BY <4>3, SumEmpty DEF SoldAtRungs, SumFunction
      <4>9. Climbing(p)
        BY <4>2, <4>3, <4>7, <4>8 DEF Climbing
      <4> QED
        BY <4>9 DEF p
    <3> QED
      BY <3>1, <3>2
  <2> QED
    BY <2>2, <2>3 DEF LadderInv, Climbing, SoldAtRungs, RungQuantity, RungPrice
<1>4. ASSUME NEW price \in Prices, EvaluateEntry(price) \/ \E signal \in BOOLEAN : EvaluateExits(price, signal)
      PROVE  LadderInv'
  BY <1>4, EvaluateKeeps, ClimbingSame
<1>5. CASE LoseReply \/ NextBar
  BY <1>5, WaitKeeps, ClimbingSame
<1>6. CASE UNCHANGED vars
  BY <1>6, ClimbingSame DEF vars
<1> QED
  BY <1>2, <1>3, <1>4, <1>5, <1>6 DEF Next

\* On a ladder that fits, a position holds exactly what its rungs have left, something is
\* left as long as it is open, and its stop is below the rungs that have not fired.
THEOREM LadderInvariant == ASSUME LadderFits PROVE Spec => [](BaseInv /\ LadderInv)
<1>1. Init => BaseInv /\ LadderInv
  BY BaseStart DEF Init, LadderInv
<1>2. BaseInv /\ LadderInv /\ [Next]_vars => BaseInv' /\ LadderInv'
  BY BaseStep, LadderStep
<1> QED
  BY <1>1, <1>2, PTL DEF Spec

\* A ladder that fits never sells more than was bought.
THEOREM NeverSoldShort == ASSUME LadderFits PROVE Spec => []NeverOversold
<1>1. BaseInv /\ LadderInv => NeverOversold
  BY DEF BaseInv, Book, Lot, LadderInv, Climbing, NeverOversold
<1> QED
  BY <1>1, LadderInvariant, PTL

\* On a ladder that fits, a stop that the price has reached is answered with a stop-loss
\* of what is left, until the last rung has fired; then the position holds the part that
\* the ladder does not sell, whatever answers were lost.
THEOREM StopGuardsTheLadder == ASSUME LadderFits PROVE Spec => []StopGuardsUntilSpent
<1>1. ASSUME BaseInv, LadderInv, NEW b \in DOMAIN positions, NEW price \in Prices, NEW signal \in BOOLEAN,
             price <= positions[b].stop, ~Spent(positions[b])
      PROVE  ExitOf(positions[b], price, signal).full = "stop_loss" /\ b \in Exiting(price, signal)
  <2> DEFINE p == positions[b]
             fired == Reached(p, price)
  <2>1. strategy \in Strategies /\ p \in Lot /\ Sized(p) /\ Climbing(p) /\ ~Spent(p)
    BY <1>1 DEF BaseInv, Counters, Book, LadderInv
  <2> HIDE DEF p
  <2>2. price \in Nat /\ p.stop \in Int /\ price <= p.stop
    BY <1>1, <2>1, StopBelow DEF Lot, p
  <2>3. fired = {}
    <3>1. \A i \in strategy.rungs \ p.hit : p.stop < RungPrice(p, i) /\ RungPrice(p, i) \in Nat
      BY <2>1, RungAbove DEF Climbing
    <3> QED
      BY <2>2, <3>1 DEF Reached
  <2>4. strategy.rungs = {} \/ p.hit # strategy.rungs
    <3>1. ASSUME p.hit = strategy.rungs PROVE SoldAtRungs(p, p.hit) = LadderQuantity(strategy, p.size)
      BY <3>1 DEF SoldAtRungs, LadderQuantity, RungQuantity
    <3> QED
      BY <2>1, <3>1 DEF Climbing, Spent
  <2>5. StopAfter(p, fired) = p.stop
    BY <2>1, <2>3, StopAfterParts
  <2>6. FullExit(p, price, signal, fired) = "stop_loss"
    <3>1. StopReached(price, StopAfter(p, fired))
      BY <2>2, <2>5 DEF StopReached
    <3>2. ~ (strategy.rungs # {} /\ p.hit \cup fired = strategy.rungs)
      BY <2>3, <2>4
    <3> HIDE DEF fired
    <3> QED
      BY <3>1, <3>2 DEF FullExit
  <2>7. ExitOf(p, price, signal).full = "stop_loss"
    BY <2>6 DEF ExitOf
  <2> QED
    BY <2>7 DEF p, Exiting
<1>2. BaseInv /\ LadderInv => StopGuardsUntilSpent
  <2> SUFFICES ASSUME BaseInv, LadderInv, reply # NoReply, NEW b \in DOMAIN positions, reply.price <= positions[b].stop,
                      ~Spent(positions[b])
               PROVE  AnsweredByStop(b)
    BY DEF StopGuardsUntilSpent
  <2>1. ASSUME NEW price \in Prices, NEW row \in 0..LastBar, NEW signal \in BOOLEAN, reply = ExitReply(price, row, signal)
        PROVE  AnsweredByStop(b)
    <3>1. reply.price = price /\ reply.action = "exit_triggered"
          /\ reply.exits = [x \in Exiting(price, signal) |-> ExitOf(positions[x], price, signal)]
      BY <2>1 DEF ExitReply
    <3>2. ExitOf(positions[b], price, signal).full = "stop_loss" /\ b \in Exiting(price, signal)
      BY <1>1, <3>1
    <3> QED
      BY <3>1, <3>2 DEF AnsweredByStop
  <2>2. ASSUME NEW price \in Prices, NEW row \in 0..LastBar, reply = EntryReply(price, row), Exiting(price, FALSE) = {}
        PROVE  FALSE
    <3>1. reply.price = price
      BY <2>2 DEF EntryReply
    <3>2. b \in Exiting(price, FALSE)
      BY <1>1, <3>1
    <3> QED
      BY <2>2, <3>2
  <2> QED
    BY <2>1, <2>2 DEF BaseInv, ReplyFits
<1> QED
  BY <1>2, LadderInvariant, PTL

LEMMA CapitalParts ==
    /\ Capital \in Nat /\ MaxOpen \in Nat /\ Reserve \in 0..100
    /\ RiskPct \in Nat /\ MaxPositionPct \in Nat
    /\ Capital * Reserve \in Nat /\ Capital * Reserve <= Capital * 100
<1>1. {Capital, MaxOpen} \subseteq Nat \ {0} /\ ReservePct \in 0..100
  BY EvaluatorAssumption
<1>2. {StopPct, TargetPct, RiskPct, MaxPositionPct} \subseteq 1..100
  BY EvaluatorAssumption
<1>3. Reserve \in 0..100
  BY <1>1 DEF Reserve, OrDefault
<1>4. Capital \in Nat /\ MaxOpen \in Nat /\ Reserve \in Nat /\ Reserve <= 100
  BY <1>1, <1>3
<1>5. Reserve * Capital <= 100 * Capital /\ Reserve * Capital \in Nat
  BY <1>4, Products
<1>6. Capital * Reserve = Reserve * Capital /\ Capital * 100 = 100 * Capital
  BY <1>4
<1>7. RiskPct \in Nat /\ MaxPositionPct \in Nat
  BY <1>2
<1> QED
  BY <1>3, <1>4, <1>5, <1>6, <1>7

\* The reserve and the number of positions.
ReserveKept ==
    /\ cash * 100 >= Capital * Reserve
    /\ Cardinality(DOMAIN positions) <= MaxOpen

LEMMA BookFinite ==
    ASSUME BaseInv
    PROVE  /\ IsFiniteSet(DOMAIN positions)
           /\ \A some \in SUBSET DOMAIN positions : IsFiniteSet(some) /\ Cardinality(some) \in Nat
<1>1. IsFiniteSet(0..LastBar)
  <2>1. 0 \in Int /\ LastBar \in Int
    BY EvaluatorAssumption
  <2> QED
    BY ONLY <2>1, FS_Interval
<1>2. \A some \in SUBSET DOMAIN positions : some \subseteq 0..LastBar
  BY DEF BaseInv, Book
<1>3. \A some \in SUBSET DOMAIN positions : IsFiniteSet(some)
  BY <1>1, <1>2, FS_Subset
<1> QED
  BY <1>3, FS_CardinalityType

LEMMA ReserveStep ==
    ASSUME LadderFits, BaseInv, LadderInv, ReserveKept, [Next]_vars
    PROVE  ReserveKept'
<1> DEFINE kept == Capital * Reserve
           held == DOMAIN positions
<1>1. cash \in Int /\ kept \in Nat /\ MaxOpen \in Nat
  BY CapitalParts DEF BaseInv, Counters
<1>2. cash * 100 >= kept /\ Cardinality(held) <= MaxOpen /\ IsFiniteSet(held) /\ Cardinality(held) \in Nat
  BY BookFinite DEF ReserveKept
<1> HIDE DEF kept
<1>3. ASSUME cash' \in Int, cash' >= cash, Cardinality(DOMAIN positions') <= MaxOpen
      PROVE  ReserveKept'
  BY <1>1, <1>2, <1>3 DEF ReserveKept, kept, Reserve
<1>4. ASSUME UNCHANGED <<cash, positions>> PROVE ReserveKept'
  BY <1>4 DEF ReserveKept, Reserve
<1>5. CASE ApplyExits
  <2>1. PICK price \in Prices, signal \in BOOLEAN :
            /\ DOMAIN positions' \subseteq DOMAIN positions
            /\ cash' = cash + SumFunction([b \in Exiting(price, signal) |->
                                             Sold(positions[b], ExitOf(positions[b], price, signal)) * price])
    BY <1>5, AppliedExits
  <2> DEFINE going == Exiting(price, signal)
             f == [b \in going |-> Sold(positions[b], ExitOf(positions[b], price, signal)) * price]
  <2>2. going \in SUBSET DOMAIN positions
    BY DEF Exiting
  <2>3. ASSUME NEW b \in going PROVE f[b] \in Nat
    <3>1. strategy \in Strategies /\ positions[b] \in Lot /\ Sized(positions[b]) /\ Climbing(positions[b])
      BY <2>2 DEF BaseInv, Counters, Book, LadderInv
    <3>2. Sold(positions[b], ExitOf(positions[b], price, signal)) \in Nat
      BY <3>1, ClimbingKept
    <3>3. price \in Nat
      BY StopBelow
    <3> DEFINE n == Sold(positions[b], ExitOf(positions[b], price, signal))
    <3>4. f[b] = n * price
      OBVIOUS
    <3> HIDE DEF n, f
    <3>5. n \in Nat
      BY <3>2 DEF n
    <3> QED
      BY <3>3, <3>4, <3>5
  <2>4. DOMAIN f = going /\ cash' = cash + SumFunction(f)
    BY <2>1
  <2>5. IsFiniteSet(going)
    BY <2>2, BookFinite
  <2> HIDE DEF f, going
  <2>6. SumFunction(f) \in Nat
    BY <2>3, <2>4, <2>5, SumNat DEF SumFunction
  <2>7. Cardinality(DOMAIN positions') <= Cardinality(held) /\ Cardinality(DOMAIN positions') \in Nat
    BY <1>2, <2>1, FS_Subset, FS_CardinalityType
  <2> QED
    BY <1>1, <1>2, <1>3, <2>4, <2>6, <2>7
<1>6. CASE ApplyEntry
  <2>1. PICK price \in Prices, row \in 0..LastBar :
            /\ Affordable(price)
            /\ cash' = cash - price * Quantity(price)
            /\ DOMAIN positions' = DOMAIN positions \cup {row}
    BY <1>6, ApplyEntryKeeps
  <2>2. (cash - price * Quantity(price)) * 100 >= Capital * Reserve /\ Cardinality(held) < MaxOpen
    BY <2>1 DEF Affordable
  <2>3. cash' * 100 >= Capital * Reserve
    BY <2>1, <2>2
  <2>4. Cardinality(held \cup {row}) <= Cardinality(held) + 1 /\ Cardinality(held \cup {row}) \in Nat
    <3>1. CASE row \in held
      <4>1. held \cup {row} = held
        BY <3>1
      <4> QED
        BY <1>2, <4>1
    <3>2. CASE row \notin held
      <4> HIDE DEF held
      <4>1. Cardinality(held \cup {row}) = Cardinality(held) + 1
        BY <1>2, <3>2, FS_AddElement
      <4> QED
        BY <1>2, <4>1
    <3> QED
      BY <3>1, <3>2
  <2>5. Cardinality(DOMAIN positions') <= MaxOpen
    BY <1>1, <1>2, <2>1, <2>2, <2>4
  <2> QED
    BY <2>3, <2>5 DEF ReserveKept, Reserve
<1>7. ASSUME NEW price \in Prices, EvaluateEntry(price) \/ \E signal \in BOOLEAN : EvaluateExits(price, signal)
      PROVE  ReserveKept'
  BY <1>4, <1>7, EvaluateKeeps DEF account
<1>8. CASE LoseReply \/ NextBar
  BY <1>4, <1>8, WaitKeeps
<1>9. CASE UNCHANGED vars
  BY <1>4, <1>9 DEF vars, account
<1> QED
  BY <1>5, <1>6, <1>7, <1>8, <1>9 DEF Next

\* What can be lost at its stop, and what was paid, of a position of a ladder that fits.
LEMMA LotWithinLimits ==
    ASSUME LadderFits, strategy \in Strategies, NEW p \in Lot, Sized(p), Climbing(p), p.size > 1
    PROVE  /\ p.held * (p.entry - p.stop) * 100 <= Capital * RiskPct
           /\ p.size * p.entry * 100 <= Capital * MaxPositionPct
<1> DEFINE margin == p.entry - p.first
           left == p.entry - p.stop
           x == Capital * RiskPct
           y == Capital * MaxPositionPct
           n == p.size
           h == p.held
           e == p.entry
<1>1. e \in Prices /\ n = Quantity(e) /\ p.first = InitialStop(e)
  BY DEF Sized, Lot
<1>2. n \in Nat /\ e \in Nat /\ margin \in Nat /\ left \in Int /\ left <= margin
  BY <1>1, StopBelow DEF Sized, Lot
<1>3. x \in Nat /\ y \in Nat
  BY CapitalParts
<1>4. h \in Nat /\ h <= n
  <2>1. SoldAtRungs(p, p.hit) \in Nat
    BY LadderWithin DEF Sized
  <2>2. h = n - SoldAtRungs(p, p.hit) /\ h > 0 /\ h \in Int
    BY DEF Climbing, Lot
  <2> HIDE DEF h, n
  <2> QED
    BY <1>2, <2>1, <2>2
<1>5. n * (100 * margin) <= x /\ n * (100 * e) <= y
  BY <1>1, QuantityParts
<1>6. p.held * (p.entry - p.stop) * 100 = h * left * 100 /\ p.size * p.entry * 100 = n * e * 100
  OBVIOUS
<1> HIDE DEF margin, left, x, y, n, h, e
<1>7. n * e * 100 <= y
  <2>1. n * (100 * e) = n * e * 100
    BY <1>2
  <2> QED
    BY <1>5, <2>1
<1>8. CASE left <= 0
  <2>1. h * (0 - left) \in Nat
    BY <1>2, <1>4, <1>8
  <2>2. h * left = 0 - h * (0 - left)
    BY <1>2, <1>4
  <2>3. h * left <= 0 /\ h * left \in Int
    BY <2>1, <2>2
  <2> QED
    BY <1>3, <1>6, <1>7, <2>3 DEF x, y
<1>9. CASE left > 0
  <2>1. left \in Nat
    BY <1>2, <1>9
  <2>2. h * left <= n * left
    BY <1>2, <1>4, <2>1, Products
  <2>3. left * n <= margin * n
    BY <1>2, <2>1, Products
  <2>4. h * left \in Nat /\ n * left = left * n /\ n * margin = margin * n /\ n * left \in Nat /\ n * margin \in Nat
    BY <1>2, <1>4, <2>1
  <2>5. n * (100 * margin) = 100 * (n * margin)
    BY <1>2
  <2>6. h * left <= n * margin
    BY <2>2, <2>3, <2>4
  <2>7. h * left * 100 <= x
    BY <1>3, <1>5, <2>4, <2>5, <2>6
  <2> QED
    BY <1>6, <1>7, <2>7 DEF x, y
<1> QED
  BY <1>2, <1>8, <1>9

\* The risk and the capital of each position, the reserve and the number of positions
\* stay within their limits, whatever is sold and whichever answers are lost.
THEOREM LimitsAlwaysKept == ASSUME LadderFits PROVE Spec => []LimitsKept
<1>1. Init => ReserveKept
  <2> SUFFICES ASSUME Init PROVE ReserveKept
    OBVIOUS
  <2>1. cash = Capital /\ DOMAIN positions = {}
    BY DEF Init
  <2> QED
    BY <2>1, CapitalParts, FS_EmptySet DEF ReserveKept
<1>2. BaseInv /\ LadderInv /\ ReserveKept /\ [Next]_vars => ReserveKept'
  BY ReserveStep
<1>3. BaseInv /\ LadderInv /\ ReserveKept => LimitsKept
  <2> SUFFICES ASSUME BaseInv, LadderInv, ReserveKept PROVE LimitsKept
    OBVIOUS
  <2>1. ASSUME NEW b \in DOMAIN positions, positions[b].size > 1
        PROVE  /\ positions[b].held * (positions[b].entry - positions[b].stop) * 100 <= Capital * RiskPct
               /\ positions[b].size * positions[b].entry * 100 <= Capital * MaxPositionPct
    <3>1. strategy \in Strategies /\ positions[b] \in Lot /\ Sized(positions[b]) /\ Climbing(positions[b])
      BY DEF BaseInv, Counters, Book, LadderInv
    <3> QED
      BY <2>1, <3>1, LotWithinLimits
  <2> QED
    BY <2>1 DEF LimitsKept, ReserveKept
<1> QED
  BY <1>1, <1>2, <1>3, LadderInvariant, PTL DEF Spec
-----------------------------------------------------------------------------
(* Candles.                                                                *)

\* A finite set of numbers has a least and a greatest element.
LEMMA Extremes ==
    ASSUME NEW S \in SUBSET Int, IsFiniteSet(S), S # {}
    PROVE  /\ Max(S) \in S /\ \A x \in S : Max(S) >= x
           /\ Min(S) \in S /\ \A x \in S : Min(S) <= x
<1> DEFINE Bounded(T) == T # {} => /\ \E m \in T : \A x \in T : m >= x
                                   /\ \E m \in T : \A x \in T : m =< x
           G == {T \in SUBSET S : Bounded(T)}
<1>1. {} \in G
  OBVIOUS
<1>2. ASSUME NEW T \in SUBSET S, T \in G, NEW x \in S \ T PROVE T \cup {x} \in G
  <2>1. CASE T = {}
    BY <2>1
  <2>2. CASE T # {}
    <3>1. PICK m \in T : \A y \in T : m >= y
      BY <1>2, <2>2
    <3>2. PICK l \in T : \A y \in T : l =< y
      BY <1>2, <2>2
    <3>3. m \in Int /\ l \in Int /\ x \in Int /\ T \subseteq Int
      OBVIOUS
    <3>4. \E n \in T \cup {x} : \A y \in T \cup {x} : n >= y
      <4>1. CASE m >= x
        BY <3>1, <3>3, <4>1
      <4>2. CASE x >= m
        BY <3>1, <3>3, <4>2
      <4> QED
        BY <3>3, <4>1, <4>2
    <3>5. \E n \in T \cup {x} : \A y \in T \cup {x} : n =< y
      <4>1. CASE l =< x
        BY <3>2, <3>3, <4>1
      <4>2. CASE x =< l
        BY <3>2, <3>3, <4>2
      <4> QED
        BY <3>3, <4>1, <4>2
    <3> QED
      BY <3>4, <3>5
  <2> QED
    BY <2>1, <2>2
<1> HIDE DEF G
<1>3. S \in G
  BY <1>1, <1>2, InductionOnSubsets
<1>4. Bounded(S)
  BY <1>3 DEF G
<1> QED
  BY <1>4 DEF Max, Min

Minute == [high : Int, low : Int, close : Int]

Sane(m) == m \in Minute /\ m.low <= m.close /\ m.close <= m.high

\* The candle of a bar spans its minutes.
LEMMA CandleParts ==
    ASSUME NEW b \in Bars
    PROVE  /\ b.open \in Int
           /\ b.minutes \in Seq(Minute) /\ Len(b.minutes) \in Nat \ {0}
           /\ \A k \in 1..Len(b.minutes) : Sane(b.minutes[k])
           /\ Sane(Candle(b)) /\ Candle(b).close = b.minutes[Len(b.minutes)].close
<1>1. /\ b \in [open : Int, minutes : Seq(Minute)] /\ b.minutes # << >>
      /\ \A k \in DOMAIN b.minutes :
            b.minutes[k].low <= b.minutes[k].close /\ b.minutes[k].close <= b.minutes[k].high
  BY PassAssumption DEF Minute
<1>2. b.open \in Int /\ b.minutes \in Seq(Minute)
  BY <1>1
<1> DEFINE ms == b.minutes
           n == Len(ms)
           Highs == {ms[k].high : k \in DOMAIN ms}
           Lows == {ms[k].low : k \in DOMAIN ms}
<1>3. n \in Nat \ {0} /\ DOMAIN ms = 1..n /\ n \in 1..n
  BY <1>1, <1>2
<1>4. \A k \in 1..n : ms[k] \in Minute
  BY <1>2, <1>3
<1>5. \A k \in 1..n : ms[k].high \in Int /\ ms[k].low \in Int /\ ms[k].close \in Int
  BY <1>4 DEF Minute
<1>6. \A k \in 1..n : Sane(ms[k])
  BY <1>1, <1>3, <1>4 DEF Sane
<1>7. IsFiniteSet(1..n)
  <2>1. n \in Int /\ 1 \in Int
    BY <1>3
  <2> QED
    BY ONLY <2>1, FS_Interval
<1>8. IsFiniteSet(Highs) /\ IsFiniteSet(Lows)
  <2>1. [k \in 1..n |-> ms[k].high] \in Surjection(1..n, Highs)
    BY <1>3 DEF Surjection
  <2>2. [k \in 1..n |-> ms[k].low] \in Surjection(1..n, Lows)
    BY <1>3 DEF Surjection
  <2> HIDE DEF Highs, Lows, n
  <2> QED
    BY <1>7, <2>1, <2>2, FS_Surjection
<1>9. Highs \in SUBSET Int /\ Lows \in SUBSET Int /\ ms[n].high \in Highs /\ ms[n].low \in Lows
  BY <1>3, <1>5
<1> HIDE DEF Highs, Lows, ms, n
<1>10. Max(Highs) \in Int /\ Max(Highs) >= ms[n].high /\ Min(Lows) \in Int /\ Min(Lows) <= ms[n].low
  BY <1>8, <1>9, Extremes
<1>11. Last(b.minutes).close = ms[n].close
  BY DEF Last, ms, n
<1>12. Candle(b) = [high |-> Max(Highs), low |-> Min(Lows), close |-> ms[n].close]
  BY <1>11 DEF Candle, Highs, Lows, ms
<1>13. ms[n].low <= ms[n].close /\ ms[n].close <= ms[n].high
  BY <1>3, <1>6 DEF Sane
<1>14. Sane(Candle(b)) /\ Candle(b).close = ms[n].close
  BY <1>3, <1>5, <1>10, <1>12, <1>13 DEF Sane, Minute
<1> QED
  BY <1>2, <1>3, <1>6, <1>14 DEF ms, n

\* A sum over a sequence that grows by one value.
LEMMA SumAppended ==
    ASSUME NEW n \in Nat, NEW f \in [1..n -> Int], NEW g \in [1..(n + 1) -> Int],
           \A i \in 1..n : g[i] = f[i]
    PROVE  SumFunction(g) = SumFunction(f) + g[n + 1] /\ SumFunction(f) \in Int
<1>1. IsFiniteSet(1..n) /\ 1..(n + 1) = (1..n) \cup {n + 1} /\ n + 1 \notin 1..n
  <2>1. n \in Int /\ 1 \in Int
    OBVIOUS
  <2>2. IsFiniteSet(1..n)
    BY ONLY <2>1, FS_Interval
  <2> QED
    BY <2>2
<1>2. SumFunctionOnSet(g, (1..n) \cup {n + 1}) = g[n + 1] + SumFunctionOnSet(g, 1..n)
  BY <1>1, SumAdd
<1>3. SumFunctionOnSet(g, 1..n) = SumFunctionOnSet(f, 1..n) /\ SumFunctionOnSet(f, 1..n) \in Int
  <2>1. \A i \in 1..n : f[i] \in Int /\ g[i] \in Int
    OBVIOUS
  <2> QED
    BY <1>1, <2>1, SumSame, SumType
<1>4. SumFunction(f) = SumFunctionOnSet(f, 1..n) /\ SumFunction(g) = SumFunctionOnSet(g, 1..(n + 1))
  BY DEF SumFunction
<1>5. g[n + 1] \in Int
  OBVIOUS
<1>6. SumFunctionOnSet(g, 1..(n + 1)) = g[n + 1] + SumFunctionOnSet(g, 1..n)
  BY <1>1, <1>2
<1> QED
  BY <1>3, <1>4, <1>5, <1>6
-----------------------------------------------------------------------------
(* Positions.                                                              *)

Actions == {"none", "move_sl_to_breakeven", "move_sl_to_previous_tp"}

Priced == [price : Int, fraction : 1..100, action : Actions]

Partial == [price : Int, fraction : 1..100, gain : Int, secures : BOOLEAN]

Held == [entry : Int, since : Nat, stop : Int, floor : Int, line : Int, best : Int,
         rungs : Seq(Priced), partials : Seq(Partial)]

\* What the rungs that are left would sell.
Left(p) == SumFunction([k \in DOMAIN p.rungs |-> p.rungs[k].fraction])

Secured(p) == \E k \in DOMAIN p.partials : p.partials[k].secures

\* The stop is at most the initial risk below the entry, and at the entry once a rung
\* has secured the trade; the rungs are above it, and what they have sold has lost the
\* cost at most.
Sound(p) ==
    /\ p \in Held
    /\ Gain(p.entry, p.stop) >= -set.stop
    /\ Secured(p) => Gain(p.entry, p.stop) >= 0
    /\ \A k \in DOMAIN p.rungs : Gain(p.entry, p.rungs[k].price) >= 0
    /\ \A k \in DOMAIN p.partials : Gain(p.entry, p.partials[k].price) >= 0
    /\ Taken(p) >= -(set.cost * Exited(p))

LEMMA PassParts ==
    ASSUME set \in Settings
    PROVE  /\ set.short \in BOOLEAN /\ set.intraday \in BOOLEAN /\ set.intrabar \in BOOLEAN
           /\ set.cost \in Nat /\ set.stop \in Nat \ {0} /\ set.target \in Int
           /\ set.trail \in Trailing /\ set.trailProfit \in Trailing /\ set.ladder \in Seq(Rungs)
           /\ set.maxHolding \in Int /\ set.cutoff \in Int /\ set.cap \in Int /\ set.maxTrades \in Int
           /\ set.maxLosses \in Int /\ set.coolLoss \in Int /\ set.coolGain \in Int
           /\ set.confirm \in Int /\ set.warmUp \in Int /\ set.gap \in Int
<1>1. set \in Passes
  BY PassAssumption
<1> QED
  BY <1>1 DEF Passes

\* Directions.
LEMMA GainParts ==
    ASSUME set \in Settings, NEW a \in Int, NEW b \in Int
    PROVE  /\ Gain(a, b) \in Int /\ Gain(a, a) = 0 /\ Gain(b, a) = -Gain(a, b)
           /\ Towards(a, b) \in Int /\ Gain(a, Towards(a, b)) = b
           /\ Reaches(b, a) <=> Gain(a, b) >= 0
           /\ Tighter(a, b) \in Int /\ Gain(a, Tighter(a, b)) >= 0 /\ Gain(b, Tighter(a, b)) >= 0
           /\ Tighter(a, b) \in {a, b}
<1>1. set.short \in BOOLEAN
  BY PassParts
<1> QED
  BY <1>1 DEF Gain, Towards, Reaches, Tighter

LEMMA GainChain ==
    ASSUME set \in Settings, NEW a \in Int, NEW b \in Int, NEW c \in Int
    PROVE  /\ Gain(a, b) + Gain(b, c) = Gain(a, c)
           /\ Gain(a, b) \in Int /\ Gain(b, c) \in Int /\ Gain(a, c) \in Int
<1>1. set.short \in BOOLEAN
  BY PassParts
<1> QED
  BY <1>1 DEF Gain

LEMMA GainNoWorse ==
    ASSUME set \in Settings, NEW a \in Int, NEW b \in Int, NEW c \in Int, Gain(a, b) >= 0, Gain(b, c) >= 0
    PROVE  Gain(a, c) >= 0
<1>1. set.short \in BOOLEAN
  BY PassParts
<1> QED
  BY <1>1 DEF Gain

LEMMA HeldParts ==
    ASSUME NEW p \in Held
    PROVE  /\ p.entry \in Int /\ p.since \in Nat /\ p.stop \in Int /\ p.floor \in Int /\ p.line \in Int
           /\ p.best \in Int /\ p.rungs \in Seq(Priced) /\ p.partials \in Seq(Partial)
           /\ Len(p.rungs) \in Nat /\ DOMAIN p.rungs = 1..Len(p.rungs)
           /\ Len(p.partials) \in Nat /\ DOMAIN p.partials = 1..Len(p.partials)
           /\ \A k \in 1..Len(p.rungs) : p.rungs[k] \in Priced
           /\ \A k \in 1..Len(p.partials) : p.partials[k] \in Partial
           /\ \A k \in 1..Len(p.rungs) : p.rungs[k].price \in Int /\ p.rungs[k].fraction \in Nat
           /\ \A k \in 1..Len(p.partials) :
                 p.partials[k].price \in Int /\ p.partials[k].fraction \in Nat /\ p.partials[k].gain \in Int
<1>1. /\ p.entry \in Int /\ p.since \in Nat /\ p.stop \in Int /\ p.floor \in Int /\ p.line \in Int
      /\ p.best \in Int /\ p.rungs \in Seq(Priced) /\ p.partials \in Seq(Partial)
  BY DEF Held
<1>2. \A r \in Priced : r.price \in Int /\ r.fraction \in Nat
  BY DEF Priced
<1>3. \A x \in Partial : x.price \in Int /\ x.fraction \in Nat /\ x.gain \in Int
  BY DEF Partial
<1> QED
  BY <1>1, <1>2, <1>3

\* The sums of a position.
LEMMA HeldSums ==
    ASSUME NEW p \in Held
    PROVE  Exited(p) \in Nat /\ Taken(p) \in Int /\ Left(p) \in Nat
<1> DEFINE n == Len(p.partials)
           m == Len(p.rungs)
           f == [k \in 1..n |-> p.partials[k].fraction]
           g == [k \in 1..n |-> p.partials[k].fraction * p.partials[k].gain]
           h == [k \in 1..m |-> p.rungs[k].fraction]
<1>1. n \in Nat /\ m \in Nat /\ DOMAIN p.partials = 1..n /\ DOMAIN p.rungs = 1..m
  BY HeldParts
<1>2. IsFiniteSet(1..n) /\ IsFiniteSet(1..m)
  <2>1. 1 \in Int /\ n \in Int /\ m \in Int
    BY <1>1
  <2> QED
    BY ONLY <2>1, FS_Interval
<1>3. \A k \in 1..n : f[k] \in Nat /\ g[k] \in Int
  BY HeldParts
<1>4. \A k \in 1..m : h[k] \in Nat
  BY HeldParts
<1>5. Exited(p) = SumFunctionOnSet(f, 1..n) /\ Taken(p) = SumFunctionOnSet(g, 1..n)
      /\ Left(p) = SumFunctionOnSet(h, 1..m)
  BY <1>1 DEF Exited, Taken, Left, SumFunction
<1> HIDE DEF f, g, h, n, m
<1> QED
  BY <1>2, <1>3, <1>4, <1>5, SumNat, SumType

LEMMA RungStopParts ==
    ASSUME set \in Settings, NEW p, Sound(p), NEW r \in Priced
    PROVE  /\ RungStop(p, r) \in Int /\ Gain(p.stop, RungStop(p, r)) >= 0
           /\ r.action # "none" => Gain(p.entry, RungStop(p, r)) >= 0
<1>1. p \in Held /\ \A k \in DOMAIN p.partials : Gain(p.entry, p.partials[k].price) >= 0
  BY DEF Sound
<1>2. p.entry \in Int /\ p.stop \in Int
  BY <1>1, HeldParts
<1> DEFINE previous == IF p.partials = << >> THEN p.entry ELSE Last(p.partials).price
<1>3. previous \in Int /\ Gain(p.entry, previous) >= 0
  <2>1. CASE p.partials = << >>
    <3>1. Gain(p.entry, p.entry) = 0
      BY <1>2, GainParts
    <3> QED
      BY <1>2, <2>1, <3>1
  <2>2. CASE p.partials # << >>
    <3>1. Len(p.partials) \in 1..Len(p.partials) /\ DOMAIN p.partials = 1..Len(p.partials)
      BY <1>1, <2>2, HeldParts
    <3>2. previous = p.partials[Len(p.partials)].price
      BY <2>2 DEF Last
    <3> QED
      BY <1>1, <3>1, <3>2, HeldParts
  <2> QED
    BY <2>1, <2>2
<1> HIDE DEF previous
<1>4. \A q \in Int : /\ Tighter(p.stop, q) \in Int /\ Gain(p.stop, Tighter(p.stop, q)) >= 0
                     /\ Gain(q, Tighter(p.stop, q)) >= 0
  BY <1>2, GainParts
<1>5. \A q \in Int : Gain(p.entry, q) >= 0 => Gain(p.entry, Tighter(p.stop, q)) >= 0
  <2> SUFFICES ASSUME NEW q \in Int, Gain(p.entry, q) >= 0 PROVE Gain(p.entry, Tighter(p.stop, q)) >= 0
    OBVIOUS
  <2> DEFINE t == Tighter(p.stop, q)
  <2>1. t \in Int /\ Gain(q, t) >= 0
    BY <1>4
  <2> HIDE DEF t
  <2>2. Gain(p.entry, q) + Gain(q, t) = Gain(p.entry, t) /\ Gain(p.entry, q) \in Int /\ Gain(q, t) \in Int
    BY <1>2, <2>1, GainChain
  <2> QED
    BY <2>1, <2>2 DEF t
<1>6. Gain(p.entry, p.entry) = 0 /\ Gain(p.stop, p.stop) = 0
  BY <1>2, GainParts
<1>7. r.action \in Actions
  BY DEF Priced
<1>8. CASE r.action = "move_sl_to_breakeven"
  <2>1. RungStop(p, r) = Tighter(p.stop, p.entry)
    BY <1>8 DEF RungStop
  <2> QED
    BY <1>2, <1>4, <1>5, <1>6, <2>1
<1>9. CASE r.action = "move_sl_to_previous_tp"
  <2>1. RungStop(p, r) = Tighter(p.stop, previous)
    BY <1>9 DEF RungStop, previous
  <2> QED
    BY <1>3, <1>4, <1>5, <2>1
<1>10. CASE r.action = "none"
  <2>1. RungStop(p, r) = p.stop
    BY <1>10 DEF RungStop
  <2> QED
    BY <1>2, <1>6, <1>10, <2>1
<1> QED
  BY <1>7, <1>8, <1>9, <1>10 DEF Actions

\* Costs come off a fill.
LEMMA ExitCost ==
    ASSUME set \in Settings, NEW a \in Int, NEW b \in Int
    PROVE  ExitFill(b) \in Int /\ Gain(a, ExitFill(b)) = Gain(a, b) - set.cost
           /\ EntryFill(b) \in Int
<1>1. set.cost \in Int /\ -set.cost \in Int /\ set.short \in BOOLEAN
  BY PassParts
<1> QED
  BY <1>1 DEF ExitFill, EntryFill, Towards, Gain

\* What an earlier and a later state of a trade have in common while its rungs fire.
SameTrade(q, p) ==
    /\ q.entry = p.entry /\ q.since = p.since /\ q.floor = p.floor /\ q.line = p.line /\ q.best = p.best
    /\ Gain(p.stop, q.stop) >= 0

LEMMA FireParts ==
    ASSUME set \in Settings, current \in Bars, NEW p, Sound(p), NEW r \in Priced,
           Gain(p.entry, r.price) >= 0
    PROVE  LET q == Fire(p, r)
           IN  /\ Sound(q) /\ SameTrade(q, p)
               /\ Len(q.rungs) + Len(q.partials) = Len(p.rungs) + Len(p.partials) + 1
               /\ Exited(q) + Left(q) = Exited(p) + Left(p) + r.fraction
<1> DEFINE q == Fire(p, r)
           high == BestOf(Candle(current))
           fill == ExitFill(IF Reaches(current.open, r.price) THEN current.open ELSE r.price)
           x == [price |-> r.price, fraction |-> r.fraction, gain |-> Gain(p.entry, fill),
                 secures |-> r.action # "none"]
<1>1. p \in Held
  BY DEF Sound
<1>2. r.price \in Int /\ r.fraction \in 1..100 /\ r.fraction \in Nat /\ r.action \in Actions
  BY DEF Priced
<1>3. Exited(p) \in Nat /\ Taken(p) \in Int /\ Left(p) \in Nat
  BY <1>1, HeldSums
<1>4. CASE ~Reaches(high, r.price)
  <2> DEFINE m == Len(p.rungs)
             new == Append(p.rungs, r)
  <2>1. q = [p EXCEPT !.rungs = new]
    BY <1>4 DEF Fire
  <2>2. m \in Nat /\ new \in Seq(Priced) /\ Len(new) = m + 1 /\ DOMAIN p.rungs = 1..m /\ DOMAIN new = 1..(m + 1)
        /\ new[m + 1] = r /\ \A i \in 1..m : new[i] = p.rungs[i]
    BY <1>1, HeldParts, AppendParts
  <2> HIDE DEF new, q
  <2>3. q \in Held
    BY <1>1, <2>1, <2>2 DEF Held
  <2>4. /\ q.entry = p.entry /\ q.since = p.since /\ q.floor = p.floor /\ q.line = p.line /\ q.best = p.best
        /\ q.stop = p.stop /\ q.partials = p.partials /\ q.rungs = new
    BY <1>1, <2>1 DEF Held
  <2>5. Exited(q) = Exited(p) /\ Taken(q) = Taken(p) /\ (Secured(q) <=> Secured(p))
    BY <2>4 DEF Exited, Taken, Secured
  <2>6. Left(q) = Left(p) + r.fraction
    <3> DEFINE f == [k \in 1..m |-> p.rungs[k].fraction]
               g == [k \in 1..(m + 1) |-> new[k].fraction]
    <3>1. f \in [1..m -> Int] /\ g \in [1..(m + 1) -> Int] /\ \A i \in 1..m : g[i] = f[i]
      <4>1. \A i \in 1..m : p.rungs[i].fraction \in Int
        BY <1>1, HeldParts
      <4>2. \A i \in 1..(m + 1) : new[i].fraction \in Int
        <5> SUFFICES ASSUME NEW i \in 1..(m + 1) PROVE new[i].fraction \in Int
          OBVIOUS
        <5>1. i \in 1..m \/ i = m + 1
          BY <2>2
        <5> QED
          BY <1>2, <2>2, <4>1, <5>1
      <4>3. \A i \in 1..m : i \in 1..(m + 1)
        BY <2>2
      <4> QED
        BY <2>2, <4>1, <4>2, <4>3
    <3>2. Left(p) = SumFunction(f) /\ Left(q) = SumFunction(g) /\ g[m + 1] = r.fraction
      BY <2>2, <2>4 DEF Left
    <3> HIDE DEF f, g, m
    <3> QED
      BY <2>2, <3>1, <3>2, SumAppended
  <2>7. Sound(q)
    <3>1. \A k \in DOMAIN new : Gain(p.entry, new[k].price) >= 0
      <4> SUFFICES ASSUME NEW k \in 1..(m + 1) PROVE Gain(p.entry, new[k].price) >= 0
        BY <2>2
      <4>1. k \in 1..m \/ k = m + 1
        BY <2>2
      <4>2. \A i \in 1..m : Gain(p.entry, p.rungs[i].price) >= 0
        BY <2>2 DEF Sound
      <4> QED
        BY <2>2, <4>1, <4>2
    <3> QED
      BY <2>3, <2>4, <2>5, <3>1 DEF Sound
  <2>8. Gain(p.stop, p.stop) = 0
    BY <1>1, HeldParts, GainParts
  <2>9. SameTrade(q, p)
    BY <2>4, <2>8 DEF SameTrade
  <2>10. Len(q.rungs) + Len(q.partials) = Len(p.rungs) + Len(p.partials) + 1
    <3>1. Len(p.rungs) \in Nat /\ Len(p.partials) \in Nat
      BY <1>1, HeldParts
    <3>2. Len(q.rungs) = Len(p.rungs) + 1 /\ Len(q.partials) = Len(p.partials)
      BY <2>2, <2>4
    <3> DEFINE a == Len(p.rungs)
               b == Len(p.partials)
               c == Len(q.rungs)
               d == Len(q.partials)
    <3> HIDE DEF a, b, c, d
    <3>3. a \in Nat /\ b \in Nat /\ c = a + 1 /\ d = b
      BY <3>1, <3>2 DEF a, b, c, d
    <3>4. c + d = a + b + 1
      BY ONLY <3>3
    <3> QED
      BY <3>4 DEF a, b, c, d
  <2>11. Exited(q) + Left(q) = Exited(p) + Left(p) + r.fraction
    BY <1>2, <1>3, <2>5, <2>6
  <2> QED
    BY <2>7, <2>9, <2>10, <2>11 DEF q
<1>5. CASE Reaches(high, r.price)
  <2> DEFINE n == Len(p.partials)
             new == Append(p.partials, x)
             stop == RungStop(p, r)
  <2>1. q = [p EXCEPT !.stop = stop, !.partials = new]
    BY <1>5 DEF Fire
  <2>2. fill \in Int /\ Gain(p.entry, fill) \in Int /\ Gain(p.entry, fill) >= -set.cost
    <3> DEFINE base == IF Reaches(current.open, r.price) THEN current.open ELSE r.price
    <3>1. current.open \in Int /\ p.entry \in Int /\ set.cost \in Nat
      BY <1>1, CandleParts, HeldParts, PassParts
    <3>2. base \in Int /\ Gain(r.price, base) >= 0
      <4>1. CASE Reaches(current.open, r.price)
        BY <1>2, <3>1, <4>1, GainParts
      <4>2. CASE ~Reaches(current.open, r.price)
        <5>1. Gain(r.price, r.price) = 0
          BY <1>2, GainParts
        <5> QED
          BY <1>2, <4>2, <5>1
      <4> QED
        BY <4>1, <4>2
    <3> HIDE DEF base
    <3>3. Gain(p.entry, r.price) + Gain(r.price, base) = Gain(p.entry, base)
          /\ Gain(p.entry, r.price) \in Int /\ Gain(r.price, base) \in Int
      BY <1>2, <3>1, <3>2, GainChain
    <3>4. fill \in Int /\ Gain(p.entry, fill) = Gain(p.entry, base) - set.cost
      BY <3>1, <3>2, ExitCost DEF base
    <3> HIDE DEF fill
    <3> QED
      BY <3>1, <3>2, <3>3, <3>4
  <2> HIDE DEF fill
  <2>3. x \in Partial /\ x.price = r.price /\ x.fraction = r.fraction /\ x.gain = Gain(p.entry, fill)
        /\ (x.secures <=> r.action # "none")
    BY <1>2, <2>2 DEF Partial
  <2> HIDE DEF x
  <2>4. n \in Nat /\ new \in Seq(Partial) /\ Len(new) = n + 1 /\ DOMAIN p.partials = 1..n
        /\ DOMAIN new = 1..(n + 1) /\ new[n + 1] = x /\ \A i \in 1..n : new[i] = p.partials[i]
    BY <1>1, <2>3, HeldParts, AppendParts
  <2>5. stop \in Int /\ Gain(p.stop, stop) >= 0 /\ (r.action # "none" => Gain(p.entry, stop) >= 0)
    BY RungStopParts
  <2> HIDE DEF new, q, stop
  <2>6. q \in Held
    BY <1>1, <2>1, <2>4, <2>5 DEF Held
  <2>7. /\ q.entry = p.entry /\ q.since = p.since /\ q.floor = p.floor /\ q.line = p.line /\ q.best = p.best
        /\ q.stop = stop /\ q.partials = new /\ q.rungs = p.rungs
    BY <1>1, <2>1 DEF Held
  <2>8. \A i \in 1..n : p.partials[i].fraction \in Int /\ p.partials[i].gain \in Int
    BY <1>1, HeldParts
  <2>9. \A i \in 1..(n + 1) : new[i].fraction \in Int /\ new[i].gain \in Int
    <3> SUFFICES ASSUME NEW i \in 1..(n + 1) PROVE new[i].fraction \in Int /\ new[i].gain \in Int
      OBVIOUS
    <3>1. i \in 1..n \/ i = n + 1
      BY <2>4
    <3>2. CASE i \in 1..n
      BY <2>4, <2>8, <3>2
    <3>3. CASE i = n + 1
      <4>1. x.fraction \in Int /\ x.gain \in Int
        BY <1>2, <2>2, <2>3
      <4> QED
        BY <2>4, <3>3, <4>1
    <3> QED
      BY <3>1, <3>2, <3>3
  <2>10. \A i \in 1..n : i \in 1..(n + 1)
    BY <2>4
  <2>11. Exited(q) = Exited(p) + r.fraction
    <3> DEFINE f == [k \in 1..n |-> p.partials[k].fraction]
               g == [k \in 1..(n + 1) |-> new[k].fraction]
    <3>1. f \in [1..n -> Int] /\ g \in [1..(n + 1) -> Int] /\ \A i \in 1..n : g[i] = f[i]
      BY <2>4, <2>8, <2>9, <2>10
    <3>2. Exited(p) = SumFunction(f) /\ Exited(q) = SumFunction(g) /\ g[n + 1] = r.fraction
      BY <2>3, <2>4, <2>7 DEF Exited
    <3> HIDE DEF f, g, n
    <3> QED
      BY <2>4, <3>1, <3>2, SumAppended
  <2>12. Taken(q) = Taken(p) + r.fraction * Gain(p.entry, fill)
    <3> DEFINE f == [k \in 1..n |-> p.partials[k].fraction * p.partials[k].gain]
               g == [k \in 1..(n + 1) |-> new[k].fraction * new[k].gain]
    <3>1. f \in [1..n -> Int] /\ g \in [1..(n + 1) -> Int] /\ \A i \in 1..n : g[i] = f[i]
      BY <2>4, <2>8, <2>9, <2>10
    <3>2. Taken(p) = SumFunction(f) /\ Taken(q) = SumFunction(g) /\ g[n + 1] = r.fraction * Gain(p.entry, fill)
      BY <2>3, <2>4, <2>7 DEF Taken
    <3> HIDE DEF f, g, n
    <3> QED
      BY <2>4, <3>1, <3>2, SumAppended
  <2>13. Taken(q) >= -(set.cost * Exited(q))
    <3> DEFINE c == set.cost
               v == Gain(p.entry, fill)
               e == Exited(p)
               t == r.fraction
    <3>1. c \in Nat /\ v \in Int /\ v >= -c /\ e \in Nat /\ t \in Nat /\ Taken(p) \in Int /\ Taken(p) >= -(c * e)
      BY <1>2, <1>3, <2>2, PassParts DEF Sound
    <3>2. Taken(q) = Taken(p) + t * v /\ Exited(q) = e + t
      BY <2>11, <2>12
    <3> HIDE DEF c, v, e, t
    <3>3. t * v >= -(c * t)
      <4>1. v + c \in Nat
        BY <3>1
      <4>2. t * (v + c) \in Nat
        BY <3>1, <4>1
      <4>3. t * (v + c) = t * v + c * t
        BY <3>1
      <4> QED
        BY <3>1, <4>2, <4>3
    <3>4. c * (e + t) = c * e + c * t
      BY <3>1
    <3> QED
      BY <3>1, <3>2, <3>3, <3>4 DEF c
  <2>14. Gain(p.entry, p.stop) + Gain(p.stop, stop) = Gain(p.entry, stop)
         /\ Gain(p.entry, p.stop) \in Int /\ Gain(p.stop, stop) \in Int
    BY <1>1, <2>5, HeldParts, GainChain
  <2>15. Secured(q) => Gain(p.entry, stop) >= 0
    <3> SUFFICES ASSUME Secured(q) PROVE Gain(p.entry, stop) >= 0
      OBVIOUS
    <3>1. PICK k \in 1..(n + 1) : new[k].secures
      BY <2>4, <2>7 DEF Secured
    <3>2. CASE k \in 1..n
      <4>1. Secured(p)
        BY <2>4, <3>1, <3>2 DEF Secured
      <4> QED
        BY <2>5, <2>14, <4>1 DEF Sound
    <3>3. CASE k = n + 1
      BY <2>3, <2>4, <2>5, <3>1, <3>3
    <3> QED
      BY <2>4, <3>2, <3>3
  <2>16. \A k \in DOMAIN new : Gain(p.entry, new[k].price) >= 0
    <3> SUFFICES ASSUME NEW k \in 1..(n + 1) PROVE Gain(p.entry, new[k].price) >= 0
      BY <2>4
    <3>1. k \in 1..n \/ k = n + 1
      BY <2>4
    <3>2. \A i \in 1..n : Gain(p.entry, p.partials[i].price) >= 0
      BY <2>4 DEF Sound
    <3> QED
      BY <2>3, <2>4, <3>1, <3>2
  <2>17. Gain(p.entry, stop) >= -set.stop
    <3>1. Gain(p.entry, p.stop) >= -set.stop /\ set.stop \in Nat
      BY PassParts DEF Sound
    <3> QED
      BY <2>5, <2>14, <3>1
  <2>18. Sound(q)
    <3>1. \A k \in DOMAIN p.rungs : Gain(p.entry, p.rungs[k].price) >= 0
      BY DEF Sound
    <3> QED
      BY <2>6, <2>7, <2>13, <2>15, <2>16, <2>17, <3>1 DEF Sound
  <2>19. SameTrade(q, p)
    BY <2>5, <2>7 DEF SameTrade
  <2>20. Len(q.rungs) + Len(q.partials) = Len(p.rungs) + Len(p.partials) + 1
    <3>1. Len(p.rungs) \in Nat /\ Len(p.partials) \in Nat
      BY <1>1, HeldParts
    <3>2. Len(q.partials) = Len(p.partials) + 1 /\ Len(q.rungs) = Len(p.rungs)
      BY <2>4, <2>7
    <3> DEFINE a == Len(p.rungs)
               b == Len(p.partials)
               c == Len(q.rungs)
               d == Len(q.partials)
    <3> HIDE DEF a, b, c, d
    <3>3. a \in Nat /\ b \in Nat /\ c = a /\ d = b + 1
      BY <3>1, <3>2 DEF a, b, c, d
    <3>4. c + d = a + b + 1
      BY ONLY <3>3
    <3> QED
      BY <3>4 DEF a, b, c, d
  <2>21. Left(q) = Left(p)
    BY <2>7 DEF Left
  <2>22. Exited(q) + Left(q) = Exited(p) + Left(p) + r.fraction
    BY <1>2, <1>3, <2>11, <2>21
  <2> QED
    BY <2>18, <2>19, <2>20, <2>22 DEF q
<1> QED
  BY <1>4, <1>5 DEF q

\* The trade before the rungs of the bar are looked at.
Bare == [pos EXCEPT !.rungs = << >>]

LEMMA BareParts ==
    ASSUME set \in Settings, Sound(pos)
    PROVE  /\ Sound(Bare) /\ SameTrade(Bare, pos)
           /\ Len(Bare.rungs) = 0 /\ Len(Bare.partials) = Len(pos.partials)
           /\ Exited(Bare) = Exited(pos) /\ Left(Bare) = 0
<1> DEFINE q == Bare
<1>1. pos \in Held
  BY DEF Sound
<1>2. << >> \in Seq(Priced) /\ Len(<< >>) = 0 /\ DOMAIN << >> = {}
  OBVIOUS
<1>3. q \in Held
  BY <1>1, <1>2 DEF Held, Bare
<1>4. /\ q.entry = pos.entry /\ q.since = pos.since /\ q.floor = pos.floor /\ q.line = pos.line /\ q.best = pos.best
      /\ q.stop = pos.stop /\ q.partials = pos.partials /\ q.rungs = << >>
  BY <1>1 DEF Held, Bare
<1> HIDE DEF q
<1>5. Exited(q) = Exited(pos) /\ Taken(q) = Taken(pos) /\ (Secured(q) <=> Secured(pos))
  BY <1>4 DEF Exited, Taken, Secured
<1>6. Left(q) = 0
  <2>1. Left(q) = SumFunctionOnSet([k \in DOMAIN q.rungs |-> q.rungs[k].fraction], {})
    BY <1>2, <1>4 DEF Left, SumFunction
  <2> QED
    BY <2>1, SumEmpty
<1>7. Sound(q)
  BY <1>2, <1>3, <1>4, <1>5 DEF Sound
<1>8. Gain(pos.stop, pos.stop) = 0
  BY <1>1, HeldParts, GainParts
<1> QED
  BY <1>2, <1>4, <1>5, <1>6, <1>7, <1>8 DEF SameTrade, q

\* The fold over the rungs, rung by rung.
LEMMA RungsTrace ==
    ASSUME set \in Settings, current \in Bars, Sound(pos)
    PROVE  \E h : /\ h[0] = Bare /\ h[Len(pos.rungs)] = AfterRungs
                  /\ \A i \in 1..Len(pos.rungs) : h[i] = Fire(h[i - 1], pos.rungs[i])
<1> DEFINE V == {q \in Held : Sound(q) /\ q.entry = pos.entry}
           R == {r \in Priced : Gain(pos.entry, r.price) >= 0}
           F == [x \in V \X R |-> Fire(x[1], x[2])]
           rungs == pos.rungs
           D == DOMAIN rungs
           Solves(k) == k = [s \in SUBSET D |-> IF s = {} THEN Bare ELSE Fire(k[s \ {Max(s)}], rungs[Max(s)])]
           k == CHOOSE k : Solves(k)
<1>1. ASSUME NEW q \in V, NEW r \in R PROVE Fire(q, r) \in V /\ F[<<q, r>>] = Fire(q, r)
  <2>1. Sound(Fire(q, r)) /\ SameTrade(Fire(q, r), q)
    BY FireParts
  <2> QED
    BY <2>1 DEF Sound, SameTrade
<1>2. pos \in Held /\ Len(rungs) \in Nat /\ D = 1..Len(rungs) /\ rungs \in Seq(Priced)
  BY HeldParts DEF Sound
<1>3. \A i \in D : rungs[i] \in R
  BY <1>2, HeldParts DEF Sound
<1>4. Foldable(V, R, F, Bare, rungs)
  <2>1. \A x \in V \X R : x[1] \in V /\ x[2] \in R /\ x = <<x[1], x[2]>>
    OBVIOUS
  <2>2. Bare \in V
    BY BareParts DEF Sound, SameTrade
  <2>3. rungs \in Seq(R)
    BY <1>2, <1>3
  <2> HIDE DEF V, R
  <2>4. F \in [V \X R -> V]
    BY <1>1, <2>1
  <2> QED
    BY <2>2, <2>3, <2>4 DEF Foldable
<1>5. \A s \in SUBSET D : s # {} => Max(s) \in D
  BY <1>2, LastIndex
<1> HIDE DEF V, R, F
<1>6. \E e : Solves(e)
  <2>1. PICK e : FoldUnfolding(e, V, F, Bare, rungs)
    BY <1>4, FoldUnfolds
  <2>2. ASSUME NEW s \in SUBSET D, s # {}
        PROVE  F[<<e[s \ {Max(s)}], rungs[Max(s)]>>] = Fire(e[s \ {Max(s)}], rungs[Max(s)])
    <3>1. e[s \ {Max(s)}] \in V /\ rungs[Max(s)] \in R
      BY <1>3, <1>5, <2>1, <2>2 DEF FoldUnfolding
    <3> QED
      BY <1>1, <3>1
  <2>3. Solves(e)
    BY <2>1, <2>2 DEF FoldUnfolding
  <2> QED
    BY <2>3
<1>7. Solves(k)
  <2> HIDE DEF Solves
  <2> QED
    BY <1>6
<1>8. AfterRungs = k[D]
  BY DEF AfterRungs, Bare, FoldLeft, MapThenFoldSet
<1> HIDE DEF k
<1>9. k[{}] = Bare
  BY <1>7
<1>10. ASSUME NEW s \in SUBSET D, s # {}, k[s \ {Max(s)}] \in V
       PROVE  k[s] = F[<<k[s \ {Max(s)}], rungs[Max(s)]>>]
  <2>1. k[s] = Fire(k[s \ {Max(s)}], rungs[Max(s)])
    BY <1>7, <1>10
  <2>2. rungs[Max(s)] \in R
    BY <1>3, <1>5, <1>10
  <2> QED
    BY <1>1, <1>10, <2>1, <2>2
<1> HIDE DEF Solves
<1>11. PICK h : TraceOf(h, V, F, Bare, rungs) /\ h[Len(rungs)] = k[D]
  <2>1. FoldsInto(k, V, F, Bare, rungs)
    BY <1>9, <1>10 DEF FoldsInto
  <2> QED
    BY <1>4, <2>1, FoldTrace
<1>12. ASSUME NEW i \in 1..Len(rungs) PROVE h[i] = Fire(h[i - 1], rungs[i])
  <2>1. i - 1 \in 0..Len(rungs)
    BY <1>2
  <2>2. h[i - 1] \in V /\ rungs[i] \in R
    BY <1>2, <1>3, <1>11, <2>1 DEF TraceOf
  <2> QED
    BY <1>1, <1>11, <2>2 DEF TraceOf
<1> QED
  BY <1>8, <1>11, <1>12 DEF TraceOf

\* The trade after i of its rungs.
SumTo(i) == SumFunction([j \in 1..i |-> pos.rungs[j].fraction])

FiredTo(q, i) ==
    /\ Sound(q) /\ SameTrade(q, pos)
    /\ Len(q.rungs) + Len(q.partials) = Len(pos.partials) + i
    /\ Exited(q) + Left(q) = Exited(pos) + SumTo(i)

LEMMA AfterRungsParts ==
    ASSUME set \in Settings, current \in Bars, Sound(pos)
    PROVE  /\ Sound(AfterRungs) /\ SameTrade(AfterRungs, pos)
           /\ Len(AfterRungs.rungs) + Len(AfterRungs.partials) = Len(pos.rungs) + Len(pos.partials)
           /\ Exited(AfterRungs) + Left(AfterRungs) = Exited(pos) + Left(pos)
<1> DEFINE n == Len(pos.rungs)
<1>1. PICK h : /\ h[0] = Bare /\ h[n] = AfterRungs
               /\ \A i \in 1..n : h[i] = Fire(h[i - 1], pos.rungs[i])
  BY RungsTrace
<1>2. pos \in Held /\ n \in Nat /\ DOMAIN pos.rungs = 1..n /\ Len(pos.partials) \in Nat
      /\ Exited(pos) \in Nat
  BY HeldParts, HeldSums DEF Sound
<1>3. \A i \in 1..n : /\ pos.rungs[i] \in Priced /\ pos.rungs[i].fraction \in Int
                      /\ Gain(pos.entry, pos.rungs[i].price) >= 0
  <2>1. \A i \in 1..n : pos.rungs[i] \in Priced /\ pos.rungs[i].fraction \in Nat
    BY <1>2, HeldParts
  <2>2. \A i \in 1..n : Gain(pos.entry, pos.rungs[i].price) >= 0
    BY <1>2 DEF Sound
  <2> QED
    BY <2>1, <2>2
<1>4. SumTo(0) = 0
  <2>1. 1..0 = {}
    OBVIOUS
  <2>2. SumTo(0) = SumFunctionOnSet([j \in 1..0 |-> pos.rungs[j].fraction], {})
    BY <2>1 DEF SumTo, SumFunction
  <2> QED
    BY <2>2, SumEmpty
<1>5. ASSUME NEW i \in Nat, i + 1 <= n
      PROVE  SumTo(i + 1) = SumTo(i) + pos.rungs[i + 1].fraction /\ SumTo(i) \in Int
  <2> DEFINE f == [j \in 1..i |-> pos.rungs[j].fraction]
             g == [j \in 1..(i + 1) |-> pos.rungs[j].fraction]
  <2>1. \A j \in 1..(i + 1) : j \in 1..n
    BY <1>2, <1>5
  <2>2. \A j \in 1..i : j \in 1..(i + 1)
    OBVIOUS
  <2>3. f \in [1..i -> Int] /\ g \in [1..(i + 1) -> Int] /\ \A j \in 1..i : g[j] = f[j]
    BY <1>3, <2>1, <2>2
  <2>4. g[i + 1] = pos.rungs[i + 1].fraction
    OBVIOUS
  <2>5. SumTo(i) = SumFunction(f) /\ SumTo(i + 1) = SumFunction(g)
    BY DEF SumTo
  <2> HIDE DEF f, g
  <2> QED
    BY <2>3, <2>4, <2>5, SumAppended
<1> DEFINE G == {i \in Nat : i <= n => FiredTo(h[i], i)}
<1>6. 0 \in G
  <2>1. FiredTo(Bare, 0)
    <3>1. /\ Sound(Bare) /\ SameTrade(Bare, pos) /\ Len(Bare.rungs) = 0
          /\ Len(Bare.partials) = Len(pos.partials) /\ Exited(Bare) = Exited(pos) /\ Left(Bare) = 0
      BY BareParts
    <3> DEFINE a == Len(Bare.rungs)
               b == Len(Bare.partials)
               c == Len(pos.partials)
    <3>2. a = 0 /\ b = c /\ c \in Nat
      BY <1>2, <3>1
    <3> HIDE DEF a, b, c
    <3>3. a + b = c + 0
      BY <3>2
    <3>4. Exited(Bare) + Left(Bare) = Exited(pos) + SumTo(0)
      BY <1>2, <1>4, <3>1
    <3> QED
      BY <3>1, <3>3, <3>4 DEF FiredTo, a, b, c
  <2> QED
    BY <1>1, <2>1
<1>7. ASSUME NEW i \in Nat, i \in G PROVE i + 1 \in G
  <2> SUFFICES ASSUME i + 1 <= n PROVE FiredTo(h[i + 1], i + 1)
    OBVIOUS
  <2> DEFINE q == h[i]
             r == pos.rungs[i + 1]
             e == h[i + 1]
  <2>1. FiredTo(q, i)
    BY <1>2, <1>7
  <2>2. i + 1 \in 1..n /\ (i + 1) - 1 = i
    BY <1>2
  <2>3. e = Fire(q, r)
    BY <1>1, <2>2
  <2>4. r \in Priced /\ r.fraction \in Int /\ Gain(pos.entry, r.price) >= 0
    BY <1>3, <2>2
  <2>5. q.entry = pos.entry /\ Sound(q) /\ SameTrade(q, pos)
    BY <2>1 DEF SameTrade, FiredTo
  <2> HIDE DEF q, r, e, G
  <2>6. /\ Sound(e) /\ SameTrade(e, q)
        /\ Len(e.rungs) + Len(e.partials) = Len(q.rungs) + Len(q.partials) + 1
        /\ Exited(e) + Left(e) = Exited(q) + Left(q) + r.fraction
    BY <2>3, <2>4, <2>5, FireParts
  <2>7. q \in Held /\ e \in Held
    BY <2>5, <2>6 DEF Sound
  <2>8. SameTrade(e, pos)
    <3>1. q.stop \in Int /\ e.stop \in Int /\ pos.stop \in Int
      BY <1>2, <2>7, HeldParts
    <3>2. Gain(pos.stop, q.stop) >= 0 /\ Gain(q.stop, e.stop) >= 0
      BY <2>5, <2>6 DEF SameTrade
    <3>3. Gain(pos.stop, e.stop) >= 0
      BY <3>1, <3>2, GainNoWorse
    <3> QED
      BY <2>5, <2>6, <3>3 DEF SameTrade
  <2>9. Exited(q) + Left(q) \in Int
    BY <2>7, HeldSums
  <2>10. Exited(e) + Left(e) = Exited(pos) + SumTo(i + 1)
    <3>1. SumTo(i + 1) = SumTo(i) + r.fraction /\ SumTo(i) \in Int
      BY <1>5 DEF r
    <3>2. Exited(q) + Left(q) = Exited(pos) + SumTo(i)
      BY <2>1 DEF FiredTo
    <3> QED
      BY <1>2, <2>4, <2>6, <3>1, <3>2
  <2>11. Len(e.rungs) + Len(e.partials) = Len(pos.partials) + (i + 1)
    <3>1. Len(q.rungs) + Len(q.partials) = Len(pos.partials) + i
      BY <2>1 DEF FiredTo
    <3> DEFINE a == Len(e.rungs) + Len(e.partials)
               b == Len(q.rungs) + Len(q.partials)
               c == Len(pos.partials)
    <3>2. a = b + 1 /\ b = c + i /\ c \in Nat
      BY <1>2, <2>6, <3>1
    <3> HIDE DEF a, b, c
    <3>3. a = c + (i + 1)
      BY <3>2
    <3> QED
      BY <3>3 DEF a, c
  <2> QED
    BY <2>6, <2>8, <2>10, <2>11 DEF e, FiredTo
<1>8. n \in G
  <2> HIDE DEF G
  <2> QED
    BY <1>2, <1>6, <1>7, InductionOnNumbers
<1>9. FiredTo(AfterRungs, n)
  BY <1>1, <1>2, <1>8
<1>10. SumTo(n) = Left(pos)
  BY <1>2 DEF Left, SumTo
<1>11. Len(AfterRungs.rungs) + Len(AfterRungs.partials) = Len(pos.rungs) + Len(pos.partials)
  <2>1. Len(AfterRungs.rungs) + Len(AfterRungs.partials) = Len(pos.partials) + n
    BY <1>9 DEF FiredTo
  <2> DEFINE a == Len(pos.partials)
  <2>2. a \in Nat /\ n \in Nat
    BY <1>2
  <2> HIDE DEF a, n
  <2>3. a + n = n + a
    BY <2>2
  <2> QED
    BY <2>1, <2>3 DEF a, n
<1> QED
  BY <1>9, <1>10, <1>11 DEF FiredTo
-----------------------------------------------------------------------------
(* The walk.                                                               *)

LEMMA LevelParts ==
    ASSUME set \in Settings, NEW p \in Held
    PROVE  /\ Level(p) \in Int /\ Level(p) \in {p.stop, p.floor, p.line}
           /\ Gain(p.stop, Level(p)) >= 0 /\ Gain(p.floor, Level(p)) >= 0 /\ Gain(p.line, Level(p)) >= 0
<1> DEFINE t == Tighter(p.stop, p.floor)
<1>1. p.stop \in Int /\ p.floor \in Int /\ p.line \in Int
  BY HeldParts
<1>2. t \in Int /\ t \in {p.stop, p.floor} /\ Gain(p.stop, t) >= 0 /\ Gain(p.floor, t) >= 0
  BY <1>1, GainParts
<1>3. Level(p) = Tighter(t, p.line)
  BY DEF Level
<1> HIDE DEF t
<1>0. /\ Tighter(t, p.line) \in Int /\ Tighter(t, p.line) \in {t, p.line}
      /\ Gain(t, Tighter(t, p.line)) >= 0 /\ Gain(p.line, Tighter(t, p.line)) >= 0
  <2>1. t \in Int /\ p.line \in Int
    BY <1>1, <1>2
  <2> QED
    BY <2>1, GainParts
<1>4. Level(p) \in Int /\ Level(p) \in {t, p.line} /\ Gain(t, Level(p)) >= 0 /\ Gain(p.line, Level(p)) >= 0
  BY <1>0, <1>3
<1>5. Gain(p.stop, Level(p)) >= 0
  BY <1>1, <1>2, <1>4, GainNoWorse
<1>6. Gain(p.floor, Level(p)) >= 0
  BY <1>1, <1>2, <1>4, GainNoWorse
<1> QED
  BY <1>2, <1>4, <1>5, <1>6

\* What a walk leaves of a trade: its trailing lines have only tightened.
Walks(q, p) ==
    /\ q.entry = p.entry /\ q.since = p.since /\ q.stop = p.stop
    /\ q.rungs = p.rungs /\ q.partials = p.partials
    /\ Gain(p.floor, q.floor) >= 0 /\ Gain(p.line, q.line) >= 0

LEMMA RatchetedParts ==
    ASSUME set \in Settings, NEW spec \in Trailing, NEW line \in Int, NEW p \in Held,
           NEW best \in Int, NEW close \in Int
    PROVE  Ratcheted(spec, line, p, best, close) \in Int
           /\ Gain(line, Ratcheted(spec, line, p, best, close)) >= 0
<1>1. spec.distance \in Int /\ -spec.distance \in Int
  BY DEF Trailing
<1>2. Towards(best, -spec.distance) \in Int
  BY <1>1, GainParts
<1> DEFINE t == Towards(best, -spec.distance)
<1> HIDE DEF t
<1>3. Tighter(line, t) \in Int /\ Gain(line, Tighter(line, t)) >= 0 /\ Gain(line, line) = 0
  BY <1>2, GainParts DEF t
<1> QED
  BY <1>3 DEF Ratcheted, t

Walkings(p) ==
    {w \in [p : Held, hit : BOOLEAN, stopped : BOOLEAN, reached : BOOLEAN] :
        /\ Sound(w.p) /\ Walks(w.p, p) /\ (w.hit <=> w.stopped \/ w.reached)
        /\ w.reached => HasTarget}

LEMMA WalkParts ==
    ASSUME set \in Settings, NEW p \in Held, NEW w \in Walkings(p), NEW m, Sane(m)
    PROVE  LET v == Walk(w, m)
           IN  /\ v \in Walkings(p)
               /\ ~v.hit => Gain(Level(v.p), m.close) >= 0
<1> DEFINE best == Tighter(BestOf(m), w.p.best)
           floor == Ratcheted(set.trail, w.p.floor, w.p, best, m.close)
           line == Ratcheted(set.trailProfit, w.p.line, w.p, best, m.close)
           q == [w.p EXCEPT !.best = best, !.floor = floor, !.line = line]
           stopped == Reaches(Level(q), WorstOf(m))
           reached == HasTarget /\ Reaches(BestOf(m), Target(q))
           v == Walk(w, m)
<1>1. w.p \in Held /\ Sound(w.p) /\ Walks(w.p, p)
  BY DEF Walkings
<1>2. CASE w.hit
  BY <1>2 DEF Walk
<1>3. CASE ~w.hit
  <2>1. v = [p |-> q, hit |-> stopped \/ reached, stopped |-> stopped, reached |-> reached]
    BY <1>3 DEF Walk
  <2>2. m.high \in Int /\ m.low \in Int /\ m.close \in Int
    BY DEF Sane, Minute
  <2>3. BestOf(m) \in Int /\ WorstOf(m) \in Int /\ Gain(WorstOf(m), m.close) >= 0
    <3>1. set.short \in BOOLEAN
      BY PassParts
    <3> QED
      BY <2>2, <3>1 DEF BestOf, WorstOf, Gain, Sane
  <2>4. w.p.best \in Int /\ w.p.floor \in Int /\ w.p.line \in Int /\ w.p.stop \in Int
        /\ p.floor \in Int /\ p.line \in Int
    BY <1>1, HeldParts
  <2>5. best \in Int
    BY <2>3, <2>4, GainParts
  <2>6. set.trail \in Trailing /\ set.trailProfit \in Trailing
    BY PassParts
  <2> HIDE DEF best
  <2>7. floor \in Int /\ Gain(w.p.floor, floor) >= 0
    BY <1>1, <2>2, <2>4, <2>5, <2>6, RatchetedParts
  <2>8. line \in Int /\ Gain(w.p.line, line) >= 0
    BY <1>1, <2>2, <2>4, <2>5, <2>6, RatchetedParts
  <2> HIDE DEF floor, line
  <2>9. q \in Held
    BY <1>1, <2>5, <2>7, <2>8 DEF Held
  <2>10. /\ q.entry = w.p.entry /\ q.since = w.p.since /\ q.stop = w.p.stop /\ q.rungs = w.p.rungs
         /\ q.partials = w.p.partials /\ q.floor = floor /\ q.line = line
    BY <1>1 DEF Held
  <2> HIDE DEF q
  <2>11. Sound(q)
    <3>1. Exited(q) = Exited(w.p) /\ Taken(q) = Taken(w.p) /\ (Secured(q) <=> Secured(w.p))
      BY <2>10 DEF Exited, Taken, Secured
    <3> QED
      BY <1>1, <2>9, <2>10, <3>1 DEF Sound
  <2>12. Gain(p.floor, floor) >= 0
    <3>1. Gain(p.floor, w.p.floor) >= 0
      BY <1>1 DEF Walks
    <3> QED
      BY <2>4, <2>7, <3>1, GainNoWorse
  <2>13. Gain(p.line, line) >= 0
    <3>1. Gain(p.line, w.p.line) >= 0
      BY <1>1 DEF Walks
    <3> QED
      BY <2>4, <2>8, <3>1, GainNoWorse
  <2>14. Walks(q, p)
    BY <1>1, <2>10, <2>12, <2>13 DEF Walks
  <2>15. stopped \in BOOLEAN /\ reached \in BOOLEAN
    BY DEF Reaches, HasTarget
  <2>16. ~stopped => Gain(Level(q), m.close) >= 0
    <3> SUFFICES ASSUME ~stopped PROVE Gain(Level(q), m.close) >= 0
      OBVIOUS
    <3>1. Level(q) \in Int
      BY <2>9, LevelParts
    <3> DEFINE x == Level(q)
               y == WorstOf(m)
    <3>2. x \in Int /\ y \in Int /\ m.close \in Int /\ Gain(y, m.close) >= 0
      BY <2>2, <2>3, <3>1
    <3>3. ~(Gain(y, x) >= 0)
      BY DEF Reaches
    <3> HIDE DEF x, y
    <3>4. Gain(x, y) >= 0
      BY <3>2, <3>3, GainParts
    <3>5. Gain(x, m.close) >= 0
      BY <3>2, <3>4, GainNoWorse
    <3> QED
      BY <3>5 DEF x
  <2>0. reached => HasTarget
    OBVIOUS
  <2> HIDE DEF stopped, reached, v
  <2>17. v \in Walkings(p) /\ v.p = q /\ (v.hit <=> stopped \/ reached)
    BY <2>0, <2>1, <2>9, <2>11, <2>14, <2>15 DEF Walkings
  <2> QED
    BY <2>16, <2>17 DEF v
<1> QED
  BY <1>2, <1>3

\* The candles of the bar that the walk looks at.
Steps == IF set.intrabar THEN current.minutes ELSE <<Candle(current)>>

LEMMA StepsParts ==
    ASSUME set \in Settings, current \in Bars
    PROVE  /\ Steps \in Seq(Minute) /\ Len(Steps) \in Nat \ {0} /\ DOMAIN Steps = 1..Len(Steps)
           /\ \A i \in 1..Len(Steps) : Sane(Steps[i])
           /\ Steps[Len(Steps)].close = Candle(current).close
<1>1. CASE set.intrabar
  BY <1>1, CandleParts DEF Steps
<1>2. CASE ~set.intrabar
  <2>1. Steps = <<Candle(current)>>
    BY <1>2 DEF Steps
  <2>2. Sane(Candle(current)) /\ Candle(current) \in Minute
    BY CandleParts DEF Sane
  <2>3. Steps \in Seq(Minute) /\ Len(Steps) = 1 /\ DOMAIN Steps = 1..1 /\ Steps[1] = Candle(current)
    BY <2>1, <2>2
  <2>4. \A i \in 1..1 : i = 1
    OBVIOUS
  <2> QED
    BY <2>2, <2>3, <2>4
<1>3. set.intrabar \in BOOLEAN
  BY PassParts
<1> QED
  BY <1>1, <1>2, <1>3

Outset(p) == [p |-> p, hit |-> FALSE, stopped |-> FALSE, reached |-> FALSE]

LEMMA OutsetParts ==
    ASSUME set \in Settings, NEW p, Sound(p)
    PROVE  Outset(p) \in Walkings(p)
<1>1. p \in Held
  BY DEF Sound
<1>2. Gain(p.floor, p.floor) = 0 /\ Gain(p.line, p.line) = 0
  BY <1>1, HeldParts, GainParts
<1>3. Walks(p, p)
  BY <1>2 DEF Walks
<1> QED
  BY <1>1, <1>3 DEF Outset, Walkings

\* The fold over the candles, candle by candle.
LEMMA WalkTrace ==
    ASSUME set \in Settings, current \in Bars, NEW p, Sound(p)
    PROVE  \E h : /\ h \in [0..Len(Steps) -> Walkings(p)]
                  /\ h[Len(Steps)] = Walked(p)
                  /\ \A i \in 1..Len(Steps) : h[i] = Walk(h[i - 1], Steps[i])
<1> DEFINE V == Walkings(p)
           R == {m \in Minute : Sane(m)}
           F == [x \in V \X R |-> Walk(x[1], x[2])]
           base == Outset(p)
           D == DOMAIN Steps
           Solves(k) == k = [s \in SUBSET D |-> IF s = {} THEN base ELSE Walk(k[s \ {Max(s)}], Steps[Max(s)])]
           k == CHOOSE k : Solves(k)
<1>0. p \in Held
  BY DEF Sound
<1>1. ASSUME NEW w \in V, NEW m \in R PROVE Walk(w, m) \in V /\ F[<<w, m>>] = Walk(w, m)
  <2>1. Walk(w, m) \in V
    BY <1>0, WalkParts
  <2> QED
    BY <2>1
<1>2. Len(Steps) \in Nat /\ D = 1..Len(Steps) /\ Steps \in Seq(Minute)
  BY StepsParts
<1>3. \A i \in D : Steps[i] \in R
  BY <1>2, StepsParts
<1>4. Foldable(V, R, F, base, Steps)
  <2>1. \A x \in V \X R : x[1] \in V /\ x[2] \in R /\ x = <<x[1], x[2]>>
    OBVIOUS
  <2>2. base \in V
    BY OutsetParts
  <2>3. Steps \in Seq(R)
    BY <1>2, <1>3
  <2> HIDE DEF V, R
  <2>4. F \in [V \X R -> V]
    BY <1>1, <2>1
  <2> QED
    BY <2>2, <2>3, <2>4 DEF Foldable
<1>5. \A s \in SUBSET D : s # {} => Max(s) \in D
  BY <1>2, LastIndex
<1> HIDE DEF V, R, F
<1>6. \E e : Solves(e)
  <2>1. PICK e : FoldUnfolding(e, V, F, base, Steps)
    BY <1>4, FoldUnfolds
  <2>2. ASSUME NEW s \in SUBSET D, s # {}
        PROVE  F[<<e[s \ {Max(s)}], Steps[Max(s)]>>] = Walk(e[s \ {Max(s)}], Steps[Max(s)])
    <3>1. e[s \ {Max(s)}] \in V /\ Steps[Max(s)] \in R
      BY <1>3, <1>5, <2>1, <2>2 DEF FoldUnfolding
    <3> QED
      BY <1>1, <3>1
  <2>3. Solves(e)
    BY <2>1, <2>2 DEF FoldUnfolding
  <2> QED
    BY <2>3
<1>7. Solves(k)
  <2> HIDE DEF Solves
  <2> QED
    BY <1>6
<1>8. Walked(p) = k[D]
  BY DEF Walked, Steps, Outset, FoldLeft, MapThenFoldSet
<1> HIDE DEF k
<1>9. k[{}] = base
  BY <1>7
<1>10. ASSUME NEW s \in SUBSET D, s # {}, k[s \ {Max(s)}] \in V
       PROVE  k[s] = F[<<k[s \ {Max(s)}], Steps[Max(s)]>>]
  <2>1. k[s] = Walk(k[s \ {Max(s)}], Steps[Max(s)])
    BY <1>7, <1>10
  <2>2. Steps[Max(s)] \in R
    BY <1>3, <1>5, <1>10
  <2> QED
    BY <1>1, <1>10, <2>1, <2>2
<1> HIDE DEF Solves
<1>11. PICK h : TraceOf(h, V, F, base, Steps) /\ h[Len(Steps)] = k[D]
  <2>1. FoldsInto(k, V, F, base, Steps)
    BY <1>9, <1>10 DEF FoldsInto
  <2> QED
    BY <1>4, <2>1, FoldTrace
<1>12. ASSUME NEW i \in 1..Len(Steps) PROVE h[i] = Walk(h[i - 1], Steps[i])
  <2>1. i - 1 \in 0..Len(Steps)
    BY <1>2
  <2>2. h[i - 1] \in V /\ Steps[i] \in R
    BY <1>2, <1>3, <1>11, <2>1 DEF TraceOf
  <2> QED
    BY <1>1, <1>11, <2>2 DEF TraceOf
<1> QED
  BY <1>8, <1>11, <1>12 DEF TraceOf, V

\* A bar that touches no level closes within them.
LEMMA WalkedParts ==
    ASSUME set \in Settings, current \in Bars, NEW p, Sound(p)
    PROVE  LET w == Walked(p)
           IN  /\ Sound(w.p) /\ Walks(w.p, p) /\ w.stopped \in BOOLEAN /\ w.reached \in BOOLEAN
               /\ w.reached => HasTarget
               /\ ~w.stopped /\ ~w.reached => Gain(Level(w.p), Candle(current).close) >= 0
<1> DEFINE n == Len(Steps)
           w == Walked(p)
<1>1. PICK h : /\ h \in [0..n -> Walkings(p)] /\ h[n] = w
               /\ \A i \in 1..n : h[i] = Walk(h[i - 1], Steps[i])
  BY WalkTrace
<1>2. n \in 1..n /\ n \in 0..n /\ n - 1 \in 0..n
  BY StepsParts
<1>3. w = Walk(h[n - 1], Steps[n]) /\ h[n - 1] \in Walkings(p) /\ w \in Walkings(p)
  BY <1>1, <1>2
<1>4. Sane(Steps[n]) /\ Steps[n].close = Candle(current).close /\ p \in Held
  BY <1>2, StepsParts DEF Sound
<1> HIDE DEF w, n
<1>5. ~w.hit => Gain(Level(w.p), Candle(current).close) >= 0
  BY <1>3, <1>4, WalkParts
<1> QED
  BY <1>3, <1>5 DEF Walkings, w
-----------------------------------------------------------------------------
(* A new position.                                                         *)

LEMMA LadderRungs ==
    ASSUME set \in Settings
    PROVE  LET n == Len(set.ladder)
           IN  /\ n \in Nat /\ DOMAIN set.ladder = 1..n /\ IsFiniteSet(1..n) /\ Cardinality(1..n) = n
               /\ \A k \in 1..n : /\ set.ladder[k].multiple \in Nat \ {0}
                                  /\ set.ladder[k].fraction \in 1..100
                                  /\ set.ladder[k].action \in Actions
<1> DEFINE n == Len(set.ladder)
<1>1. set.ladder \in Seq(Rungs)
  BY PassParts
<1>2. n \in Nat /\ DOMAIN set.ladder = 1..n /\ \A k \in 1..n : set.ladder[k] \in Rungs
  BY <1>1
<1>3. IsFiniteSet(1..n) /\ Cardinality(1..n) = n
  <2>1. 1 \in Int /\ n \in Int /\ n \in Nat
    BY <1>2
  <2> HIDE DEF n
  <2>2. IsFiniteSet(1..n) /\ Cardinality(1..n) = IF 1 > n THEN 0 ELSE n - 1 + 1
    BY ONLY <2>1, FS_Interval
  <2> QED
    BY <2>1, <2>2
<1>4. \A r \in Rungs : r.multiple \in Nat \ {0} /\ r.fraction \in 1..100 /\ r.action \in Actions
  BY DEF Rungs, Actions
<1> QED
  BY <1>2, <1>3, <1>4

\* The rungs are above the entry, and sorting loses none.
LEMMA LadderParts ==
    ASSUME set \in Settings, NEW entry \in Int, NEW stop \in Int, Gain(entry, stop) = -set.stop
    PROVE  LET L == Ladder(entry, stop)
           IN  /\ L \in Seq(Priced) /\ Len(L) = Len(set.ladder)
               /\ \A k \in DOMAIN L : Gain(entry, L[k].price) >= 0
               /\ SumFunction([k \in DOMAIN L |-> L[k].fraction]) <= 100
<1> DEFINE n == Len(set.ladder)
           D == DOMAIN set.ladder
           price(k) == TargetOf(k, entry, stop)
           Nearer(j, k) == Gain(price(j), price(k)) > 0 \/ (price(j) = price(k) /\ j < k)
           R == {x \in D \X D : Nearer(x[1], x[2])}
           q == InOrder(D, Nearer)
           L == Ladder(entry, stop)
<1>1. n \in Nat /\ D = 1..n /\ IsFiniteSet(D) /\ Cardinality(D) = n
  BY LadderRungs
<1>0. IsFiniteSet(D)
  BY <1>1
<1>20. \A k \in D : set.ladder[k].fraction \in Int
  <2>1. \A k \in 1..n : set.ladder[k].fraction \in 1..100
    BY LadderRungs
  <2>2. 1..100 \subseteq Int
    OBVIOUS
  <2> QED
    BY ONLY <1>1, <2>1, <2>2
<1>2. \A k \in D : price(k) \in Int /\ Gain(entry, price(k)) >= 0
  <2> SUFFICES ASSUME NEW k \in D PROVE price(k) \in Int /\ Gain(entry, price(k)) >= 0
    OBVIOUS
  <2>0. set.stop \in Nat /\ Gain(stop, entry) = -Gain(entry, stop)
    BY GainParts, PassParts
  <2>1. Gain(stop, entry) = set.stop /\ set.stop \in Nat
    BY <2>0
  <2>2. set.ladder[k].multiple \in Nat
    BY <1>1, LadderRungs
  <2> DEFINE d == set.ladder[k].multiple * Gain(stop, entry)
  <2>3. d \in Nat /\ d \in Int
    BY <2>1, <2>2
  <2> HIDE DEF d
  <2>4. Towards(entry, d) \in Int /\ Gain(entry, Towards(entry, d)) = d
    BY <2>3, GainParts
  <2> QED
    BY <2>3, <2>4 DEF d, TargetOf
<1>3. \A x, y \in D : <<x, y>> \in R <=> Nearer(x, y)
  OBVIOUS
<1> HIDE DEF price, R, D, n
<1>4. set.short \in BOOLEAN
  BY PassParts
<1>5. StrictOrder(R, D)
  <2>0. \A x \in D : x \in Int /\ price(x) \in Int
    BY <1>1, <1>2
  <2>1. \A x \in D : ~ Nearer(x, x)
    BY <2>0, <1>4 DEF Gain
  <2>2. \A x, y \in D : x # y => Nearer(x, y) \/ Nearer(y, x)
    BY <2>0, <1>4 DEF Gain
  <2>3. \A x, y, z \in D : Nearer(x, y) /\ Nearer(y, z) => Nearer(x, z)
    BY <2>0, <1>4 DEF Gain
  <2> HIDE DEF Nearer
  <2> QED
    BY <1>3, <2>1, <2>2, <2>3 DEF StrictOrder
<1>6. \A c \in D : Under(R, D, c) = {d \in D : Nearer(d, c)}
  BY <1>3 DEF Under
<1>7. q = [k \in 1..n |-> CHOOSE c \in D : Cardinality({d \in D : Nearer(d, c)}) = k - 1]
  BY <1>1 DEF InOrder
<1> HIDE DEF Nearer, q
<1>8. ASSUME NEW k \in 1..n PROVE \E c \in D : Cardinality({d \in D : Nearer(d, c)}) = k - 1
  <2>1. \A i \in 1..Cardinality(D) : \E c \in D : Cardinality(Under(R, D, c)) = i - 1
    BY <1>1, <1>5, Places
  <2>2. PICK c \in D : Cardinality(Under(R, D, c)) = k - 1
    BY <1>1, <2>1
  <2> QED
    BY <1>6, <2>2
<1>9. \A k \in 1..n : q[k] \in D /\ Cardinality({d \in D : Nearer(d, q[k])}) = k - 1
  BY <1>7, <1>8
<1>10. q \in [1..n -> D]
  BY <1>7, <1>9
<1>11. \A k \in 1..n : Cardinality(Under(R, D, q[k])) = k - 1
  BY <1>6, <1>9
<1>12. Sorted(q, R, D)
  BY <1>1, <1>5, <1>10, <1>11, PlacesSort
<1>13. \A i, j \in 1..n : q[i] = q[j] => i = j
  <2> SUFFICES ASSUME NEW i \in 1..n, NEW j \in 1..n, q[i] = q[j], i # j PROVE FALSE
    OBVIOUS
  <2>1. i < j \/ j < i
    BY <1>1
  <2>2. <<q[i], q[j]>> \in R \/ <<q[j], q[i]>> \in R
    BY <1>1, <1>12, <2>1 DEF Sorted
  <2> QED
    BY <1>5, <1>9, <2>2 DEF StrictOrder
<1>14. L = [i \in D |-> [price |-> price(q[i]), fraction |-> set.ladder[q[i]].fraction,
                         action |-> set.ladder[q[i]].action]]
  BY DEF Ladder, price, q, Nearer, D
<1> HIDE DEF L
<1>15. ASSUME NEW i \in D
       PROVE  /\ L[i] \in Priced /\ L[i].price = price(q[i]) /\ L[i].fraction = set.ladder[q[i]].fraction
              /\ Gain(entry, L[i].price) >= 0
  <2>1. q[i] \in D
    BY <1>1, <1>9
  <2>2. price(q[i]) \in Int /\ Gain(entry, price(q[i])) >= 0
    BY <1>2, <2>1
  <2>3. set.ladder[q[i]].fraction \in 1..100 /\ set.ladder[q[i]].action \in Actions
    BY <1>1, <2>1, LadderRungs DEF n
  <2>4. L[i] = [price |-> price(q[i]), fraction |-> set.ladder[q[i]].fraction,
                action |-> set.ladder[q[i]].action]
    BY <1>14
  <2> DEFINE v == price(q[i])
             e == set.ladder[q[i]].fraction
             a == set.ladder[q[i]].action
  <2> HIDE DEF v, e, a
  <2>5. L[i] = [price |-> v, fraction |-> e, action |-> a] /\ v \in Int /\ e \in 1..100 /\ a \in Actions
    BY <2>2, <2>3, <2>4 DEF v, e, a
  <2>6. L[i] \in Priced /\ L[i].price = v /\ L[i].fraction = e
    BY ONLY <2>5 DEF Priced
  <2> QED
    BY <2>2, <2>6 DEF v, e
<1>16. L \in [1..n -> Priced]
  BY <1>1, <1>14, <1>15
<1>17. L \in Seq(Priced) /\ Len(L) = n /\ DOMAIN L = 1..n
  BY ONLY <1>1, <1>16
<1>18. SumFunction([k \in DOMAIN L |-> L[k].fraction]) <= 100
  <2> DEFINE f == [k \in D |-> set.ladder[k].fraction]
             g == [k \in D |-> f[q[k]]]
  <2>1. \A x \in D : q[x] \in D /\ f[q[x]] \in Int
    <3> SUFFICES ASSUME NEW x \in D PROVE q[x] \in D /\ f[q[x]] \in Int
      OBVIOUS
    <3>1. q[x] \in D
      BY <1>1, <1>9
    <3> QED
      BY <1>20, <3>1
  <2>2. {q[x] : x \in D} = D
    BY <1>1, <1>10, <1>12 DEF Sorted
  <2>3. [k \in DOMAIN L |-> L[k].fraction] = g
    BY <1>1, <1>15, <1>17, <2>1
  <2>4. SumFunction(f) <= 100
    <3>1. \A s \in Settings : SumFunction([k \in DOMAIN s.ladder |-> s.ladder[k].fraction]) <= 100
      BY PassAssumption
    <3> QED
      BY <3>1 DEF D
  <2>5. SumFunction(f) = SumFunctionOnSet(f, D) /\ SumFunction(g) = SumFunctionOnSet(g, D)
    BY DEF SumFunction
  <2>6. SumFunctionOnSet(f, {q[x] : x \in D}) = SumFunctionOnSet(g, D)
    <3>1. \A x, y \in D : q[x] = q[y] => x = y
      BY <1>1, <1>13
    <3> HIDE DEF f
    <3> QED
      BY ONLY <1>0, <2>1, <3>1, SumReindex
  <2> HIDE DEF f, g
  <2> QED
    BY <2>2, <2>3, <2>4, <2>5, <2>6
<1>19. \A k \in DOMAIN L : Gain(entry, L[k].price) >= 0
  BY <1>1, <1>15, <1>17
<1> QED
  BY <1>17, <1>18, <1>19 DEF L, n

\* A new position has all of its rungs ahead of it.
LEMMA OpenedParts ==
    ASSUME set \in Settings, at \in Nat, NEW fill \in Int
    PROVE  LET p == Opened(fill)
           IN  /\ Sound(p) /\ p.since = at + 1
               /\ Exited(p) = 0 /\ Left(p) <= 100
               /\ Len(p.rungs) + Len(p.partials) = Len(set.ladder)
<1> DEFINE p == Opened(fill)
           entry == EntryFill(fill)
           stop == Towards(entry, -set.stop)
           L == Ladder(entry, stop)
<1>1. set.stop \in Nat /\ -set.stop \in Int /\ set.cost \in Nat
  BY PassParts
<1>2. entry \in Int
  BY ExitCost
<1> HIDE DEF entry
<1>3. stop \in Int /\ Gain(entry, stop) = -set.stop
  BY <1>1, <1>2, GainParts
<1> HIDE DEF stop
<1>4. /\ L \in Seq(Priced) /\ Len(L) = Len(set.ladder)
      /\ \A k \in DOMAIN L : Gain(entry, L[k].price) >= 0
      /\ SumFunction([k \in DOMAIN L |-> L[k].fraction]) <= 100
  BY <1>2, <1>3, LadderParts
<1> HIDE DEF L
<1>5. p = [entry |-> entry, since |-> at + 1, stop |-> stop, floor |-> stop, line |-> stop,
           best |-> fill, rungs |-> L, partials |-> << >>]
  BY DEF Opened, entry, stop, L
<1> HIDE DEF p
<1>6. << >> \in Seq(Partial) /\ Len(<< >>) = 0 /\ DOMAIN << >> = {}
  OBVIOUS
<1>7. at + 1 \in Nat
  OBVIOUS
<1>8. p \in Held
  BY <1>2, <1>3, <1>4, <1>5, <1>6, <1>7 DEF Held
<1>9. p.entry = entry /\ p.stop = stop /\ p.rungs = L /\ p.partials = << >> /\ p.since = at + 1
  BY <1>5
<1>10. Exited(p) = 0 /\ Taken(p) = 0
  <2>1. /\ Exited(p) = SumFunctionOnSet([k \in DOMAIN p.partials |-> p.partials[k].fraction], {})
        /\ Taken(p) = SumFunctionOnSet([k \in DOMAIN p.partials |-> p.partials[k].fraction * p.partials[k].gain], {})
    BY <1>6, <1>9 DEF Exited, Taken, SumFunction
  <2> QED
    BY <2>1, SumEmpty
<1>11. ~Secured(p)
  BY <1>6, <1>9 DEF Secured
<1>12. Left(p) <= 100
  BY <1>4, <1>9 DEF Left
<1>13. Sound(p)
  <2>1. -(set.cost * 0) = 0 /\ -set.stop >= -set.stop
    BY <1>1
  <2>2. Taken(p) >= -(set.cost * Exited(p))
    BY <1>10, <2>1
  <2>3. Gain(p.entry, p.stop) >= -set.stop
    BY <1>3, <1>9, <2>1
  <2> QED
    BY <1>4, <1>6, <1>8, <1>9, <1>11, <2>2, <2>3 DEF Sound
<1>14. Len(p.rungs) + Len(p.partials) = Len(set.ladder)
  <2>1. Len(L) \in Nat /\ Len(p.rungs) = Len(L) /\ Len(p.partials) = 0
    BY <1>4, <1>6, <1>9
  <2> DEFINE a == Len(p.rungs)
             b == Len(p.partials)
             c == Len(L)
  <2>2. a = c /\ b = 0 /\ c \in Nat
    BY <2>1
  <2> HIDE DEF a, b, c
  <2>3. a + b = c
    BY <2>2
  <2> QED
    BY <1>4, <2>3 DEF a, b, c
<1> QED
  BY <1>9, <1>10, <1>12, <1>13, <1>14 DEF p
-----------------------------------------------------------------------------
(* What an exit costs.                                                     *)

\* The rest of the position loses at most the initial risk and the cost of a fill, the
\* rungs the cost.
LEMMA BlendedBound ==
    ASSUME set \in Settings, NEW p, Sound(p), Exited(p) <= 100, NEW b \in Nat, NEW price \in Int,
           Gain(p.entry, price) >= -b
    PROVE  /\ Blended(p, ExitFill(price)) \in Int
           /\ Blended(p, ExitFill(price)) >= -100 * (set.cost + b)
<1> DEFINE c == set.cost
           e == Exited(p)
           v == Gain(p.entry, ExitFill(price))
           t == Taken(p)
           B == Blended(p, ExitFill(price))
<1>1. p \in Held /\ t >= -(c * e)
  BY DEF Sound
<1>2. c \in Nat /\ e \in Nat /\ t \in Int /\ e <= 100
  BY <1>1, PassParts, HeldSums
<1>3. p.entry \in Int
  BY <1>1, HeldParts
<1>4. v = Gain(p.entry, price) - c /\ Gain(p.entry, price) \in Int
  BY <1>3, ExitCost, GainParts
<1>5. B = t + (100 - e) * v
  BY DEF Blended
<1> HIDE DEF c, e, v, t, B
<1>6. v \in Int /\ v + c + b \in Nat
  BY <1>2, <1>4
<1>7. (100 - e) * (v + c + b) \in Nat /\ (100 - e) \in Nat /\ e * b \in Nat
  BY <1>2, <1>6
<1>8. (100 - e) * (v + c + b) = (100 - e) * v + 100 * c - e * c + 100 * b - e * b
  BY <1>2, <1>6
<1>9. B \in Int /\ B >= -100 * (c + b)
  BY <1>1, <1>2, <1>5, <1>6, <1>7, <1>8
<1> QED
  BY <1>9 DEF B, c

Reasons ==
    {"ladder", "stop_loss", "trailing_stop", "trailing_take_profit", "take_profit", "exit_signal",
     "max_holding", "time_exit", "session_end", "end_of_data"}

\* The most an exit at the protective level may lose, costs apart.
RiskOf(p) == IF Secured(p) THEN 0 ELSE set.stop

LEMMA RiskParts ==
    ASSUME set \in Settings, NEW p, Sound(p), NEW price \in Int, Gain(Level(p), price) >= 0
    PROVE  RiskOf(p) \in Nat /\ Gain(p.entry, price) >= -RiskOf(p)
<1>1. p \in Held /\ set.stop \in Nat
  BY PassParts DEF Sound
<1>2. p.entry \in Int /\ p.stop \in Int /\ Level(p) \in Int /\ Gain(p.stop, Level(p)) >= 0
  BY <1>1, HeldParts, LevelParts
<1>3. Gain(p.stop, price) >= 0
  BY <1>2, GainNoWorse
<1>4. Gain(p.entry, p.stop) + Gain(p.stop, price) = Gain(p.entry, price)
      /\ Gain(p.entry, p.stop) \in Int /\ Gain(p.stop, price) \in Int
  BY <1>2, GainChain
<1>5. Gain(p.entry, p.stop) >= -set.stop /\ (Secured(p) => Gain(p.entry, p.stop) >= 0)
  BY DEF Sound
<1>6. CASE Secured(p)
  BY <1>3, <1>4, <1>5, <1>6 DEF RiskOf
<1>7. CASE ~Secured(p)
  BY <1>1, <1>3, <1>4, <1>5, <1>7 DEF RiskOf
<1> QED
  BY <1>6, <1>7

\* The exit that comes first: it fills on this bar, not beyond the risk, or at the next
\* open if the session goes on.
LEMMA DueExit ==
    ASSUME set \in Settings, current \in Bars, at \in Nat, NEW p, Sound(p),
           NEW signal \in BOOLEAN, NEW next \in Bars, Due(Exits(Walked(p), signal, next)) # {}
    PROVE  LET w == Walked(p)
               exits == Exits(w, signal, next)
               x == exits[Min(Due(exits))]
           IN  /\ x.reason \in Reasons /\ x.price \in Int /\ x.when \in {at, at + 1}
               /\ x.when = at + 1 => Later
               /\ x.when = at => Gain(w.p.entry, x.price) >= -RiskOf(w.p)
<1> DEFINE w == Walked(p)
           exits == Exits(w, signal, next)
           k == Min(Due(exits))
           x == exits[k]
           close == Candle(current).close
<1>1. /\ Sound(w.p) /\ w.stopped \in BOOLEAN /\ w.reached \in BOOLEAN
      /\ ~w.stopped /\ ~w.reached => Gain(Level(w.p), close) >= 0
  BY WalkedParts
<1>2. close \in Int /\ next.open \in Int
  BY CandleParts DEF Sane, Minute
<1>3. w.p \in Held /\ w.p.entry \in Int /\ Level(w.p) \in Int
  BY <1>1, HeldParts, LevelParts DEF Sound
<1> HIDE DEF w, close
<1>4. exits = <<Exit(w.stopped, Kind(w.p), Level(w.p), at),
                Exit(w.reached, "take_profit", Target(w.p), at),
                AtNextOpen(signal, "exit_signal", next),
                AtNextOpen(set.maxHolding > 0 /\ at - w.p.since >= set.maxHolding, "max_holding", next),
                AtClose(PastCutoff(at), "time_exit"),
                AtClose(IsSessionLast(at), "session_end")>>
  BY DEF Exits
<1>5. DOMAIN exits = 1..6
  BY <1>4
<1> HIDE DEF exits
<1>6. k \in Due(exits) /\ \A j \in Due(exits) : k <= j
  <2>1. Due(exits) \in SUBSET Int /\ Due(exits) \in SUBSET (1..6)
    BY <1>5 DEF Due
  <2>2. IsFiniteSet(1..6)
    <3>1. 1 \in Int /\ 6 \in Int
      OBVIOUS
    <3> QED
      BY ONLY <3>1, FS_Interval
  <2>3. IsFiniteSet(Due(exits))
    BY <2>1, <2>2, FS_Subset
  <2>4. Due(exits) # {}
    BY DEF exits, w
  <2> QED
    BY ONLY <2>1, <2>3, <2>4, Extremes
<1> HIDE DEF k
<1>7. k \in 1..6 /\ exits[k].applies /\ \A j \in 1..6 : exits[j].applies => k <= j
  BY <1>5, <1>6 DEF Due
<1>8. \A price \in Int : Gain(Level(w.p), price) >= 0 => Gain(w.p.entry, price) >= -RiskOf(w.p)
  BY <1>1, RiskParts
<1>9. exits[1].applies <=> w.stopped
  BY <1>4 DEF Exit
<1>10. exits[2].applies <=> w.reached
  BY <1>4 DEF Exit
<1>11. CASE k = 1
  <2>1. x = Exit(w.stopped, Kind(w.p), Level(w.p), at)
    BY <1>4, <1>11
  <2>2. x.reason = Kind(w.p) /\ x.price = Level(w.p) /\ x.when = at
    BY <2>1 DEF Exit
  <2>3. Kind(w.p) \in Reasons
    BY DEF Kind, Reasons
  <2>4. Gain(Level(w.p), Level(w.p)) = 0
    BY <1>3, GainParts
  <2> QED
    BY <1>3, <1>8, <2>2, <2>3, <2>4 DEF w, exits, k
<1>12. CASE k = 2
  <2>1. x = Exit(w.reached, "take_profit", Target(w.p), at)
    BY <1>4, <1>12
  <2>2. x.reason = "take_profit" /\ x.price = Target(w.p) /\ x.when = at
    BY <2>1 DEF Exit
  <2>3. w.reached => HasTarget
    BY WalkedParts DEF w
  <2>4. set.target \in Int /\ set.target > 0
    BY <1>7, <1>10, <1>12, <2>3, PassParts DEF HasTarget
  <2>5. Target(w.p) \in Int /\ Gain(w.p.entry, Target(w.p)) = set.target
    BY <1>3, <2>4, GainParts DEF Target
  <2>6. RiskOf(w.p) \in Nat
    BY PassParts DEF RiskOf
  <2>7. Gain(w.p.entry, Target(w.p)) >= -RiskOf(w.p)
    BY <2>4, <2>5, <2>6
  <2> QED
    BY <2>2, <2>5, <2>7 DEF w, exits, k, Reasons
<1>13. k > 2 => Gain(w.p.entry, close) >= -RiskOf(w.p)
  <2> SUFFICES ASSUME k > 2 PROVE Gain(w.p.entry, close) >= -RiskOf(w.p)
    OBVIOUS
  <2>1. ~w.stopped /\ ~w.reached
    BY <1>7, <1>9, <1>10
  <2> QED
    BY <1>1, <1>2, <1>8, <2>1 DEF w, close
<1>14. ASSUME NEW applies, NEW reason \in Reasons, k > 2, x = AtClose(applies, reason)
       PROVE  x.reason \in Reasons /\ x.price \in Int /\ x.when = at /\ Gain(w.p.entry, x.price) >= -RiskOf(w.p)
  <2>1. x.reason = reason /\ x.price = close /\ x.when = at
    BY <1>14 DEF AtClose, Exit, close
  <2> QED
    BY <1>2, <1>13, <1>14, <2>1
<1>15. ASSUME NEW applies, NEW reason \in Reasons, k > 2, x = AtNextOpen(applies, reason, next)
       PROVE  /\ x.reason \in Reasons /\ x.price \in Int /\ x.when \in {at, at + 1}
              /\ x.when = at + 1 => Later
              /\ x.when = at => Gain(w.p.entry, x.price) >= -RiskOf(w.p)
  <2>0. at # at + 1
    OBVIOUS
  <2>1. CASE Later
    <3>1. x.reason = reason /\ x.price = next.open /\ x.when = at + 1
      BY <1>15, <2>1 DEF AtNextOpen, Exit
    <3> QED
      BY <1>2, <1>15, <2>0, <2>1, <3>1
  <2>2. CASE ~Later
    <3>1. x = AtClose(applies, reason)
      BY <1>15, <2>2 DEF AtNextOpen
    <3>2. x.reason \in Reasons /\ x.price \in Int /\ x.when = at /\ Gain(w.p.entry, x.price) >= -RiskOf(w.p)
      BY <1>14, <1>15, <3>1
    <3> QED
      BY <2>0, <3>2
  <2> QED
    BY <2>1, <2>2
<1>16. {"exit_signal", "max_holding", "time_exit", "session_end"} \subseteq Reasons
  BY DEF Reasons
<1>17. CASE k = 3
  <2>1. x = AtNextOpen(signal, "exit_signal", next) /\ k > 2
    BY <1>4, <1>17
  <2> QED
    BY <1>15, <1>16, <2>1 DEF w, exits, k
<1>18. CASE k = 4
  <2>1. x = AtNextOpen(set.maxHolding > 0 /\ at - w.p.since >= set.maxHolding, "max_holding", next) /\ k > 2
    BY <1>4, <1>18
  <2> QED
    BY <1>15, <1>16, <2>1 DEF w, exits, k
<1>19. at # at + 1
  OBVIOUS
<1>20. CASE k = 5
  <2>1. x = AtClose(PastCutoff(at), "time_exit") /\ k > 2
    BY <1>4, <1>20
  <2> QED
    BY <1>14, <1>16, <1>19, <2>1 DEF w, exits, k
<1>21. CASE k = 6
  <2>1. x = AtClose(IsSessionLast(at), "session_end") /\ k > 2
    BY <1>4, <1>21
  <2> QED
    BY <1>14, <1>16, <1>19, <2>1 DEF w, exits, k
<1> QED
  BY <1>7, <1>11, <1>12, <1>17, <1>18, <1>20, <1>21

\* A bar with no exit leaves the trade above its level and ends no session.
LEMMA NoExit ==
    ASSUME set \in Settings, current \in Bars, NEW p, Sound(p), NEW signal \in BOOLEAN, NEW next,
           Due(Exits(Walked(p), signal, next)) = {}
    PROVE  Gain(Level(Walked(p).p), Candle(current).close) >= 0 /\ ~IsSessionLast(at)
<1> DEFINE w == Walked(p)
           exits == Exits(w, signal, next)
<1>1. exits[1].applies = w.stopped /\ exits[2].applies = w.reached /\ exits[6].applies = IsSessionLast(at)
      /\ DOMAIN exits = 1..6
  BY DEF Exits, Exit, AtClose
<1> HIDE DEF exits
<1>2. 1 \in DOMAIN exits /\ 2 \in DOMAIN exits /\ 6 \in DOMAIN exits
  BY <1>1
<1>3. Due(exits) = {}
  BY DEF exits
<1>4. ~w.stopped /\ ~w.reached /\ ~IsSessionLast(at)
  BY <1>1, <1>2, <1>3 DEF Due
<1> QED
  BY <1>4, WalkedParts
-----------------------------------------------------------------------------
(* The invariant of a pass.                                                *)

Bookings ==
    [since : Nat, exit : Nat, decided : Nat, reason : Reasons, pnl : Int, secured : BOOLEAN]

Breakers ==
    [session : Nat \cup {NoSession}, gap : BOOLEAN, pnl : Int, count : Nat, losses : Nat, streak : Nat,
     lossUntil : Int, profitUntil : Int, pauseUntil : Int]

PassTyped ==
    /\ set \in Settings /\ at \in 0..LastRow + 1 /\ current \in Bars /\ lastClose \in Int
    /\ risk \in Breakers /\ trades \in Seq(Bookings)

\* The rungs of an open trade are its ladder, none lost; the trade is younger than the
\* trades that were closed, an intraday one of the session of the bar, and it closed
\* within its level the bar before.
Underway(p) ==
    /\ Sound(p) /\ Exited(p) + Left(p) <= 100 /\ Exited(p) <= 99
    /\ Len(p.rungs) + Len(p.partials) = Len(set.ladder)
    /\ p.since \in 1..LastRow /\ p.since <= at /\ at > set.warmUp
    /\ set.intraday => at <= LastRow /\ SessionOf(p.since) = SessionOf(at)
    /\ p.since < at => Gain(Level(p), lastClose) >= 0
    /\ \A k \in DOMAIN trades : trades[k].exit < p.since

Settled == \A k \in DOMAIN trades : trades[k].exit <= at /\ trades[k].decided <= at

PassInvariant ==
    /\ PassTyped /\ Settled /\ TradesDisjoint /\ LossBounded
    /\ pos # NoTrade => Underway(pos)

LEMMA RiskTyped ==
    ASSUME set \in Settings, at \in Nat, risk \in Breakers, NEW signal \in BOOLEAN, NEW pnl \in Int
    PROVE  /\ RolledOver \in Breakers /\ Counted(RolledOver, signal) \in Breakers
           /\ Booked(RolledOver, pnl) \in Breakers
<1>1. SessionLength \in Nat \ {0}
  BY PassAssumption
<1>2. SessionOf(at) \in Nat
  BY <1>1 DEF SessionOf
<1>3. RolledOver \in Breakers
  BY <1>2 DEF RolledOver, Fresh, GapBlocked, Breakers
<1>4. ASSUME NEW r \in Breakers
      PROVE  Counted(r, signal) \in Breakers /\ AfterLoss(r) \in Breakers /\ AfterGain(r) \in Breakers
  <2>1. set.coolLoss \in Int /\ set.coolGain \in Int
    BY PassParts
  <2>2. r.losses + 1 \in Nat /\ r.streak + 1 \in Nat /\ at + PauseBars \in Int
        /\ at + set.coolLoss \in Int /\ at + set.coolGain \in Int
    BY <2>1 DEF Breakers, PauseBars
  <2>3. Counted(r, signal) \in Breakers
    BY <2>2 DEF Counted, Breakers
  <2>4. AfterLoss(r) \in Breakers
    BY <2>2 DEF AfterLoss, Breakers
  <2>5. AfterGain(r) \in Breakers
    BY <2>2 DEF AfterGain, Breakers
  <2> QED
    BY <2>3, <2>4, <2>5
<1>5. ASSUME NEW r \in Breakers PROVE Booked(r, pnl) \in Breakers
  <2> DEFINE charged == IF set.intraday THEN [r EXCEPT !.pnl = @ + pnl, !.count = @ + 1] ELSE r
  <2>1. r.pnl + pnl \in Int /\ r.count + 1 \in Nat
    BY DEF Breakers
  <2>2. charged \in Breakers
    BY <2>1 DEF Breakers
  <2> HIDE DEF charged
  <2> DEFINE b == IF pnl < 0 THEN AfterLoss(charged) ELSE AfterGain(charged)
  <2>3. b \in Breakers
    BY <1>4, <2>2
  <2>4. Booked(r, pnl) = [b EXCEPT !.streak = 0]
    BY DEF Booked, charged
  <2> HIDE DEF b
  <2> QED
    BY <2>3, <2>4 DEF Breakers
<1> QED
  BY <1>3, <1>4, <1>5

\* Rungs and walk together, on an open trade.
LEMMA HeldOn ==
    ASSUME PassInvariant, pos # NoTrade
    PROVE  LET a == AfterRungs
               q == Walked(AfterRungs).p
           IN  /\ Sound(a) /\ a.since = pos.since /\ Exited(a) <= 100 /\ Exited(a) \in Nat
               /\ Sound(q) /\ q.since = pos.since
               /\ Exited(q) = Exited(a) /\ Exited(q) + Left(q) <= 100
               /\ Len(q.rungs) + Len(q.partials) = Len(set.ladder)
               /\ Gain(Level(pos), Level(q)) >= 0
<1> DEFINE a == AfterRungs
           q == Walked(AfterRungs).p
<1>1. set \in Settings /\ current \in Bars /\ Underway(pos) /\ Sound(pos)
  BY DEF PassInvariant, PassTyped, Underway
<1>2. /\ Sound(a) /\ SameTrade(a, pos)
      /\ Len(a.rungs) + Len(a.partials) = Len(pos.rungs) + Len(pos.partials)
      /\ Exited(a) + Left(a) = Exited(pos) + Left(pos)
  BY <1>1, AfterRungsParts
<1> HIDE DEF a
<1>3. Sound(q) /\ Walks(q, a)
  BY <1>1, <1>2, WalkedParts DEF a
<1> HIDE DEF q
<1>4. a \in Held /\ q \in Held /\ pos \in Held
  BY <1>1, <1>2, <1>3 DEF Sound
<1>5. Exited(q) = Exited(a) /\ Left(q) = Left(a)
  BY <1>3 DEF Walks, Exited, Left
<1>6. Exited(a) \in Nat /\ Left(a) \in Nat /\ Exited(a) + Left(a) <= 100
  <2>1. Exited(pos) + Left(pos) <= 100
    BY <1>1 DEF Underway
  <2> QED
    BY <1>2, <1>4, <2>1, HeldSums
<1>7. Len(q.rungs) + Len(q.partials) = Len(set.ladder)
  BY <1>1, <1>2, <1>3 DEF Walks, Underway
<1>8. a.since = pos.since /\ q.since = pos.since
  BY <1>2, <1>3 DEF Walks, SameTrade
<1>9. Gain(Level(pos), Level(q)) >= 0
  <2>1. /\ pos.stop \in Int /\ pos.floor \in Int /\ pos.line \in Int
        /\ q.stop \in Int /\ q.floor \in Int /\ q.line \in Int
    BY <1>4, HeldParts
  <2>2. Gain(pos.stop, q.stop) >= 0 /\ Gain(pos.floor, q.floor) >= 0 /\ Gain(pos.line, q.line) >= 0
    BY <1>2, <1>3 DEF Walks, SameTrade
  <2>3. Level(q) \in Int /\ Gain(q.stop, Level(q)) >= 0 /\ Gain(q.floor, Level(q)) >= 0
        /\ Gain(q.line, Level(q)) >= 0
    BY <1>1, <1>4, LevelParts
  <2>4. Gain(pos.stop, Level(q)) >= 0
    BY <1>1, <2>1, <2>2, <2>3, GainNoWorse
  <2>5. Gain(pos.floor, Level(q)) >= 0
    BY <1>1, <2>1, <2>2, <2>3, GainNoWorse
  <2>6. Gain(pos.line, Level(q)) >= 0
    BY <1>1, <2>1, <2>2, <2>3, GainNoWorse
  <2>7. Level(pos) \in {pos.stop, pos.floor, pos.line}
    BY <1>1, <1>4, LevelParts
  <2> QED
    BY <2>4, <2>5, <2>6, <2>7
<1>10. Exited(a) <= 100 /\ Exited(q) + Left(q) <= 100
  BY <1>5, <1>6
<1> QED
  BY <1>2, <1>3, <1>5, <1>6, <1>7, <1>8, <1>9, <1>10 DEF a, q

\* A trade is booked after the others.
LEMMA BookingParts ==
    ASSUME PassInvariant, pos # NoTrade, set' = set, at' \in Nat, at' >= at, NEW t \in Bookings,
           trades' = Append(trades, t),
           t.since = pos.since, t.since <= t.exit, t.exit <= at', t.decided <= at',
           set.intraday => SessionOf(t.since) = SessionOf(t.exit),
           t.exit <= t.decided => t.pnl >= -100 * (set.cost + IF t.secured THEN 0 ELSE set.stop)
    PROVE  trades' \in Seq(Bookings) /\ Settled' /\ TradesDisjoint' /\ LossBounded'
<1> DEFINE n == Len(trades)
           new == Append(trades, t)
<1>1. trades \in Seq(Bookings) /\ at \in Nat /\ set \in Settings /\ Underway(pos)
      /\ Settled /\ TradesDisjoint /\ LossBounded
  <2>1. LastRow \in Nat
    BY PassAssumption
  <2> QED
    BY <2>1 DEF PassInvariant, PassTyped
<1>2. new \in Seq(Bookings) /\ n \in Nat /\ DOMAIN trades = 1..n /\ DOMAIN new = 1..(n + 1)
      /\ new[n + 1] = t /\ \A i \in 1..n : new[i] = trades[i] /\ trades[i] \in Bookings
  BY <1>1, AppendParts
<1>3. trades' = new
  OBVIOUS
<1> HIDE DEF new, n
<1>4. \A k \in 1..(n + 1) : k \in 1..n \/ k = n + 1
  BY <1>2
<1>5. \A b \in Bookings : b.since \in Nat /\ b.exit \in Nat /\ b.decided \in Nat /\ b.pnl \in Int
  BY DEF Bookings
<1>6. Settled'
  <2>1. ASSUME NEW k \in 1..(n + 1) PROVE new[k].exit <= at' /\ new[k].decided <= at'
    <3>1. CASE k \in 1..n
      <4>1. trades[k].exit <= at /\ trades[k].decided <= at /\ trades[k] \in Bookings /\ new[k] = trades[k]
        BY <1>1, <1>2, <3>1 DEF Settled
      <4>2. trades[k].exit \in Nat /\ trades[k].decided \in Nat
        BY <1>5, <4>1
      <4> QED
        BY <1>1, <4>1, <4>2
    <3>2. CASE k = n + 1
      BY <1>2, <3>2
    <3> QED
      BY <1>4, <3>1, <3>2
  <2> QED
    BY <1>2, <1>3, <2>1 DEF Settled
<1>7. TradesDisjoint'
  <2>1. ASSUME NEW k \in 1..(n + 1)
        PROVE  /\ new[k].since <= new[k].exit
               /\ k > 1 => new[k - 1].exit < new[k].since
               /\ set.intraday => SessionOf(new[k].since) = SessionOf(new[k].exit)
    <3>1. CASE k \in 1..n
      <4>1. /\ trades[k].since <= trades[k].exit
            /\ k > 1 => trades[k - 1].exit < trades[k].since
            /\ set.intraday => SessionOf(trades[k].since) = SessionOf(trades[k].exit)
        BY <1>1, <1>2, <3>1 DEF TradesDisjoint
      <4>2. k > 1 => k - 1 \in 1..n
        BY <1>2, <3>1
      <4> QED
        BY <1>2, <3>1, <4>1, <4>2
    <3>2. CASE k = n + 1
      <4>1. k > 1 => k - 1 \in 1..n
        BY <1>2, <3>2
      <4>2. \A i \in 1..n : trades[i].exit < pos.since
        BY <1>1, <1>2 DEF Underway
      <4> QED
        BY <1>2, <3>2, <4>1, <4>2
    <3> QED
      BY <1>4, <3>1, <3>2
  <2> QED
    BY <1>2, <1>3, <2>1 DEF TradesDisjoint, SessionOf
<1>8. LossBounded'
  <2>1. ASSUME NEW k \in 1..(n + 1), new[k].exit <= new[k].decided
        PROVE  new[k].pnl >= -100 * (set.cost + IF new[k].secured THEN 0 ELSE set.stop)
    <3>1. CASE k \in 1..n
      BY <1>1, <1>2, <2>1, <3>1 DEF LossBounded
    <3>2. CASE k = n + 1
      BY <1>2, <2>1, <3>2
    <3> QED
      BY <1>4, <3>1, <3>2
  <2> QED
    BY <1>2, <1>3, <2>1 DEF LossBounded
<1> QED
  BY <1>2, <1>3, <1>6, <1>7, <1>8

\* What an open trade must be after a step is a matter of the strategy, the bar and the
\* trades of the next state.
LEMMA UnderwayNext ==
    ASSUME NEW q, pos' = q, set' = set, Sound(q), Exited(q) + Left(q) <= 100, Exited(q) <= 99,
           Len(q.rungs) + Len(q.partials) = Len(set.ladder),
           q.since \in 1..LastRow, q.since <= at', at' > set.warmUp,
           set.intraday => at' <= LastRow /\ SessionOf(q.since) = SessionOf(at'),
           q.since < at' => Gain(Level(q), lastClose') >= 0,
           \A k \in DOMAIN trades' : trades'[k].exit < q.since
    PROVE  Underway(pos)'
<1>1. Exited(pos)' = Exited(q) /\ Left(pos)' = Left(q) /\ Taken(pos)' = Taken(q)
  BY DEF Exited, Left, Taken
<1>2. \A x, y : Gain(x, y)' = Gain(x, y)
  BY DEF Gain
<1>3. Sound(pos)'
  <2>1. Secured(pos)' <=> Secured(q)
    BY DEF Secured
  <2>2. Gain(pos.entry, pos.stop)' = Gain(q.entry, q.stop)
    BY DEF Gain
  <2>3. (\A k \in DOMAIN pos.rungs : Gain(pos.entry, pos.rungs[k].price) >= 0)'
    BY DEF Sound, Gain
  <2>4. (\A k \in DOMAIN pos.partials : Gain(pos.entry, pos.partials[k].price) >= 0)'
    BY DEF Sound, Gain
  <2> QED
    BY <1>1, <2>1, <2>2, <2>3, <2>4 DEF Sound
<1>4. Gain(Level(pos), lastClose)' = Gain(Level(q), lastClose')
  BY DEF Gain, Level, Tighter, Reaches
<1> QED
  BY <1>1, <1>3, <1>4 DEF Underway, SessionOf

LEMMA PassInvariantHolds == PassInit => PassInvariant
<1> SUFFICES ASSUME PassInit PROVE PassInvariant
  OBVIOUS
<1>1. trades = << >> /\ DOMAIN trades = {} /\ trades \in Seq(Bookings) /\ pos = NoTrade
  BY DEF PassInit
<1>2. Fresh(NoSession, FALSE) \in Breakers
  BY DEF Fresh, Breakers
<1>3. current.open \in Int /\ LastRow \in Nat
  BY CandleParts, PassAssumption DEF PassInit
<1>5. /\ set \in Settings /\ at = 0 /\ current \in Bars /\ lastClose = current.open
      /\ risk = Fresh(NoSession, FALSE)
  BY DEF PassInit
<1>6. 0 \in 0..LastRow + 1
  BY <1>3
<1>4. PassTyped
  BY <1>1, <1>2, <1>3, <1>5, <1>6 DEF PassTyped
<1> QED
  BY <1>1, <1>4 DEF PassInvariant, Settled, TradesDisjoint, LossBounded

\* The next bar.
LEMMA AdvanceParts ==
    ASSUME PassTyped, at <= LastRow, Advance
    PROVE  /\ set' = set /\ at' = at + 1 /\ at' \in 0..LastRow + 1 /\ at \in Nat /\ at' \in Nat /\ LastRow \in Nat
           /\ current' \in Bars /\ lastClose' = Candle(current).close /\ lastClose' \in Int
<1>1. LastRow \in Nat /\ at \in 0..LastRow + 1
  BY PassAssumption DEF PassTyped
<1>2. Candle(current).close \in Int
  BY CandleParts DEF PassTyped, Sane, Minute
<1> QED
  BY <1>1, <1>2 DEF Advance, PassTyped

LEMMA SettledOn ==
    ASSUME Settled, trades \in Seq(Bookings), trades' = trades, at \in Nat, at' \in Nat, at' >= at
    PROVE  Settled'
<1>1. \A k \in DOMAIN trades : trades[k] \in Bookings
  OBVIOUS
<1>2. \A b \in Bookings : b.exit \in Nat /\ b.decided \in Nat
  BY DEF Bookings
<1>3. \A k \in DOMAIN trades : trades[k].exit <= at /\ trades[k].decided <= at
  BY DEF Settled
<1>4. \A k \in DOMAIN trades : trades[k].exit <= at' /\ trades[k].decided <= at'
  BY <1>1, <1>2, <1>3
<1> QED
  BY <1>4 DEF Settled

\* A step that books no trade leaves what is said of the trades.
LEMMA TradesKept ==
    ASSUME PassInvariant, set' = set, trades' = trades, at' \in Nat, at' >= at
    PROVE  Settled' /\ TradesDisjoint' /\ LossBounded'
<1>1. Settled /\ TradesDisjoint /\ LossBounded /\ trades \in Seq(Bookings)
  BY DEF PassInvariant, PassTyped
<1>2. at \in Nat
  BY PassAssumption DEF PassInvariant, PassTyped
<1>3. Settled'
  BY <1>1, <1>2, SettledOn
<1>4. TradesDisjoint'
  BY <1>1 DEF TradesDisjoint, SessionOf
<1>5. LossBounded'
  BY <1>1 DEF LossBounded
<1> QED
  BY <1>3, <1>4, <1>5

LEMMA WatchStep == ASSUME PassInvariant, Watch PROVE PassInvariant'
<1>1. PassTyped /\ Advance /\ at < LastRow /\ at >= set.warmUp /\ trades' = trades
  BY DEF PassInvariant, Watch
<1>2. LastRow \in Nat /\ at \in 0..LastRow + 1 /\ set \in Settings /\ trades \in Seq(Bookings)
  BY <1>1, PassAssumption DEF PassTyped
<1>3. /\ set' = set /\ at' = at + 1 /\ at' \in 0..LastRow + 1 /\ at \in Nat /\ at' \in Nat
      /\ current' \in Bars /\ lastClose' \in Int
  BY <1>1, <1>2, AdvanceParts
<1>4. PICK signal \in BOOLEAN : \E gate \in BOOLEAN :
        LET r == Counted(RolledOver, signal)
        IN  /\ risk' = r
            /\ pos' = IF signal /\ r.streak >= set.confirm /\ gate /\ GatesClear(r) /\ Fillable
                      THEN Opened(current'.open) ELSE NoTrade
  BY DEF Watch
<1>5. risk' \in Breakers
  <2>1. risk' = Counted(RolledOver, signal) /\ risk \in Breakers
    BY <1>1, <1>4 DEF PassTyped
  <2>2. Counted(RolledOver, signal) \in Breakers
    <3>1. 0 \in Int
      OBVIOUS
    <3> QED
      BY <1>2, <1>3, <2>1, <3>1, RiskTyped
  <2> QED
    BY <2>1, <2>2
<1>6. PassTyped'
  BY <1>1, <1>2, <1>3, <1>5 DEF PassTyped
<1>7. Settled' /\ TradesDisjoint' /\ LossBounded'
  <2>1. at' >= at
    BY <1>3
  <2> QED
    BY <1>1, <1>3, <2>1, TradesKept
<1>8. pos' # NoTrade => Underway(pos)'
  <2> SUFFICES ASSUME pos' # NoTrade PROVE Underway(pos)'
    OBVIOUS
  <2> DEFINE q == Opened(current'.open)
  <2>1. pos' = q /\ Fillable
    BY <1>4
  <2>2. current'.open \in Int
    BY <1>3, CandleParts
  <2>3. /\ Sound(q) /\ q.since = at + 1 /\ Exited(q) = 0 /\ Left(q) <= 100
        /\ Len(q.rungs) + Len(q.partials) = Len(set.ladder)
    BY <1>2, <1>3, <2>2, OpenedParts
  <2> HIDE DEF q
  <2>4. Left(q) \in Nat
    BY <2>3, HeldSums DEF Sound
  <2>5. Exited(q) + Left(q) <= 100 /\ Exited(q) <= 99
    BY <2>3, <2>4
  <2>6. q.since = at' /\ at' \in 1..LastRow /\ at' > set.warmUp
    <3>1. set.warmUp \in Int
      BY <1>2, PassParts
    <3> QED
      BY <1>1, <1>2, <1>3, <2>3, <3>1
  <2>7. \A k \in DOMAIN trades' : trades'[k].exit < q.since
    <3>1. \A k \in DOMAIN trades : trades[k] \in Bookings /\ trades[k].exit <= at
      BY <1>2 DEF PassInvariant, Settled
    <3>2. \A b \in Bookings : b.exit \in Nat
      BY DEF Bookings
    <3>3. \A k \in DOMAIN trades : trades[k].exit < at + 1
      BY <1>3, <3>1, <3>2
    <3> QED
      BY <1>1, <2>3, <3>3
  <2>8. at' <= LastRow /\ q.since \in 1..LastRow /\ q.since <= at' /\ ~(q.since < at')
    BY <1>2, <2>6
  <2>9. SessionOf(q.since) = SessionOf(at')
    BY <2>6
  <2> QED
    BY <1>3, <2>1, <2>3, <2>5, <2>6, <2>7, <2>8, <2>9, UnderwayNext
<1> QED
  BY <1>6, <1>7, <1>8 DEF PassInvariant

LEMMA IdleStep == ASSUME PassInvariant, WarmUp \/ Break PROVE PassInvariant'
<1>1. PassTyped /\ Advance /\ at <= LastRow /\ trades' = trades /\ pos' = pos
  <2>1. LastRow \in Nat /\ PassTyped
    BY PassAssumption DEF PassInvariant
  <2> QED
    BY <2>1 DEF WarmUp, Break
<1>2. LastRow \in Nat /\ at \in 0..LastRow + 1 /\ set \in Settings /\ trades \in Seq(Bookings) /\ risk \in Breakers
  BY <1>1, PassAssumption DEF PassTyped
<1>3. /\ set' = set /\ at' = at + 1 /\ at' \in 0..LastRow + 1 /\ at \in Nat /\ at' \in Nat
      /\ current' \in Bars /\ lastClose' \in Int
  BY <1>1, <1>2, AdvanceParts
<1>4. pos = NoTrade
  <2>1. CASE Break
    BY <2>1 DEF Break
  <2>2. CASE WarmUp
    <3>1. set.warmUp \in Int /\ at < set.warmUp
      BY <1>2, <2>2, PassParts DEF WarmUp
    <3>2. pos # NoTrade => at > set.warmUp
      BY DEF PassInvariant, Underway
    <3> QED
      BY <1>3, <3>1, <3>2
  <2> QED
    BY <2>1, <2>2
<1>5. risk' \in Breakers
  <2>1. RolledOver \in Breakers
    <3>1. 0 \in Int /\ TRUE \in BOOLEAN
      OBVIOUS
    <3> QED
      BY <1>2, <1>3, <3>1, RiskTyped
  <2> QED
    BY <1>2, <2>1 DEF WarmUp, Break
<1>6. PassTyped'
  BY <1>1, <1>2, <1>3, <1>5 DEF PassTyped
<1>7. Settled' /\ TradesDisjoint' /\ LossBounded'
  <2>1. at' >= at
    BY <1>3
  <2> QED
    BY <1>1, <1>3, <2>1, TradesKept
<1> QED
  BY <1>1, <1>4, <1>6, <1>7 DEF PassInvariant

\* What is booked of a trade: typed, and within the risk it was taken with.
LEMMA TradeParts ==
    ASSUME set \in Settings, at \in Nat, NEW p, p \in Held, NEW reason \in Reasons, NEW exit \in Nat, NEW pnl \in Int
    PROVE  LET t == Trade(p, reason, exit, pnl)
           IN  /\ t \in Bookings /\ t.since = p.since /\ t.exit = exit /\ t.decided = at /\ t.pnl = pnl
               /\ (t.secured <=> Secured(p))
               /\ (IF t.secured THEN 0 ELSE set.stop) = RiskOf(p)
<1>1. p.since \in Nat
  BY HeldParts
<1> QED
  BY <1>1 DEF Trade, Bookings, Secured, RiskOf

LEMMA LadderDoneStep == ASSUME PassInvariant, LadderDone PROVE PassInvariant'
<1> DEFINE a == AfterRungs
           t == Trade(a, "ladder", at, Taken(a))
<1>1. PassTyped /\ Advance /\ at <= LastRow /\ pos # NoTrade /\ pos' = NoTrade /\ Exited(a) >= 100
      /\ trades' = Append(trades, t) /\ risk' = Booked(RolledOver, Taken(a))
  BY DEF LadderDone, PassInvariant, BookedByLadder
<1>2. LastRow \in Nat /\ at \in 0..LastRow + 1 /\ set \in Settings /\ risk \in Breakers
  BY <1>1, PassAssumption DEF PassTyped
<1>3. /\ set' = set /\ at' = at + 1 /\ at' \in 0..LastRow + 1 /\ at \in Nat /\ at' \in Nat
      /\ current' \in Bars /\ lastClose' \in Int
  BY <1>1, <1>2, AdvanceParts
<1>4. Sound(a) /\ a.since = pos.since /\ Exited(a) <= 100 /\ Exited(a) \in Nat
  BY <1>1, HeldOn
<1> HIDE DEF a
<1>5. a \in Held /\ Taken(a) \in Int /\ Taken(a) >= -(set.cost * Exited(a))
  BY <1>4, HeldSums DEF Sound
<1>6. "ladder" \in Reasons
  BY DEF Reasons
<1>7. /\ t \in Bookings /\ t.since = a.since /\ t.exit = at /\ t.decided = at /\ t.pnl = Taken(a)
      /\ (IF t.secured THEN 0 ELSE set.stop) = RiskOf(a)
  BY <1>2, <1>3, <1>5, <1>6, TradeParts
<1> HIDE DEF t
<1>8. Taken(a) >= -100 * (set.cost + RiskOf(a))
  <2> DEFINE c == set.cost
             r == RiskOf(a)
             e == Exited(a)
             v == Taken(a)
  <2>1. c \in Nat /\ r \in Nat
    BY <1>2, PassParts DEF RiskOf
  <2>2. e = 100 /\ v \in Int /\ v >= -(c * e)
    BY <1>1, <1>4, <1>5
  <2> HIDE DEF c, r, e, v
  <2>3. v >= -100 * (c + r)
    BY <2>1, <2>2
  <2> QED
    BY <2>3 DEF c, r, v
<1>9. Underway(pos)
  BY <1>1 DEF PassInvariant
<1>10. pos.since \in Nat /\ pos.since <= at /\ (set.intraday => SessionOf(pos.since) = SessionOf(at))
  BY <1>2, <1>9 DEF Underway
<1>11. trades' \in Seq(Bookings) /\ Settled' /\ TradesDisjoint' /\ LossBounded'
  <2>1. at' >= at /\ t.exit <= at' /\ t.decided <= at'
    BY <1>3, <1>7
  <2>2. t.since = pos.since /\ t.since <= t.exit /\ (set.intraday => SessionOf(t.since) = SessionOf(t.exit))
    BY <1>4, <1>7, <1>10
  <2>3. t.pnl >= -100 * (set.cost + IF t.secured THEN 0 ELSE set.stop)
    BY <1>7, <1>8
  <2> QED
    BY <1>1, <1>3, <1>7, <2>1, <2>2, <2>3, BookingParts
<1>12. risk' \in Breakers
  <2>1. TRUE \in BOOLEAN
    OBVIOUS
  <2> QED
    BY <1>1, <1>2, <1>3, <1>5, <2>1, RiskTyped
<1>13. PassTyped'
  BY <1>2, <1>3, <1>11, <1>12 DEF PassTyped
<1> QED
  BY <1>1, <1>11, <1>13 DEF PassInvariant

LEMMA EndStep == ASSUME PassInvariant, EndOfData PROVE PassInvariant'
<1> DEFINE pnl == Blended(pos, ExitFill(lastClose))
           t == Trade(pos, "end_of_data", LastRow, pnl)
<1>1. PassTyped /\ at = LastRow + 1 /\ pos # NoTrade /\ pos' = NoTrade /\ trades' = Append(trades, t)
      /\ set' = set /\ at' = at /\ current' = current /\ lastClose' = lastClose /\ risk' = risk
  BY DEF EndOfData, PassInvariant
<1>2. LastRow \in Nat /\ at \in Nat /\ set \in Settings /\ risk \in Breakers /\ lastClose \in Int /\ Underway(pos)
  BY <1>1, PassAssumption DEF PassTyped, PassInvariant
<1>3. Sound(pos) /\ pos \in Held /\ Exited(pos) <= 99 /\ pos.since \in 1..LastRow
      /\ (pos.since < at => Gain(Level(pos), lastClose) >= 0)
      /\ (set.intraday => at <= LastRow)
  BY <1>2 DEF Underway, Sound
<1>4. ~set.intraday
  BY <1>1, <1>2, <1>3
<1>5. Gain(Level(pos), lastClose) >= 0
  BY <1>1, <1>2, <1>3
<1>6. RiskOf(pos) \in Nat /\ Gain(pos.entry, lastClose) >= -RiskOf(pos)
  BY <1>2, <1>3, <1>5, RiskParts
<1>7. pnl \in Int /\ pnl >= -100 * (set.cost + RiskOf(pos))
  <2>1. Exited(pos) <= 100
    BY <1>3, HeldSums
  <2> QED
    BY <1>2, <1>3, <1>6, <2>1, BlendedBound
<1> HIDE DEF pnl
<1>8. "end_of_data" \in Reasons
  BY DEF Reasons
<1>9. /\ t \in Bookings /\ t.since = pos.since /\ t.exit = LastRow /\ t.decided = at /\ t.pnl = pnl
      /\ (IF t.secured THEN 0 ELSE set.stop) = RiskOf(pos)
  BY <1>2, <1>3, <1>7, <1>8, TradeParts
<1> HIDE DEF t
<1>10. trades' \in Seq(Bookings) /\ Settled' /\ TradesDisjoint' /\ LossBounded'
  <2>1. at' >= at /\ at' \in Nat /\ t.exit <= at' /\ t.decided <= at' /\ t.since <= t.exit
    BY <1>1, <1>2, <1>3, <1>9
  <2>2. t.pnl >= -100 * (set.cost + IF t.secured THEN 0 ELSE set.stop)
    BY <1>7, <1>9
  <2> QED
    BY <1>1, <1>4, <1>9, <2>1, <2>2, BookingParts
<1>11. PassTyped'
  BY <1>1, <1>10 DEF PassTyped
<1> QED
  BY <1>1, <1>10, <1>11 DEF PassInvariant

LEMMA HoldStep == ASSUME PassInvariant, Hold PROVE PassInvariant'
<1>1. PassTyped /\ Advance /\ at <= LastRow /\ at >= set.warmUp /\ pos # NoTrade /\ Exited(AfterRungs) < 100
  BY DEF Hold, PassInvariant
<1>2. LastRow \in Nat /\ at \in 0..LastRow + 1 /\ set \in Settings /\ risk \in Breakers /\ current \in Bars
      /\ trades \in Seq(Bookings) /\ Underway(pos)
  BY <1>1, PassAssumption DEF PassTyped, PassInvariant
<1>3. /\ set' = set /\ at' = at + 1 /\ at' \in 0..LastRow + 1 /\ at \in Nat /\ at' \in Nat
      /\ current' \in Bars /\ lastClose' = Candle(current).close /\ lastClose' \in Int
  BY <1>1, <1>2, AdvanceParts
<1> DEFINE w == Walked(AfterRungs)
           q == Walked(AfterRungs).p
<1>4. PICK signal \in BOOLEAN :
        LET exits == Exits(Walked(AfterRungs), signal, current')
        IN  \/ Due(exits) # {} /\ Close(Walked(AfterRungs).p, exits[Min(Due(exits))])
            \/ Due(exits) = {} /\ pos' = Walked(AfterRungs).p /\ risk' = RolledOver /\ UNCHANGED trades
  BY DEF Hold
<1> DEFINE exits == Exits(Walked(AfterRungs), signal, current')
           x == exits[Min(Due(exits))]
<1>5. /\ Sound(AfterRungs) /\ Exited(AfterRungs) \in Nat
      /\ Sound(q) /\ q.since = pos.since /\ Exited(q) = Exited(AfterRungs) /\ Exited(q) + Left(q) <= 100
      /\ Len(q.rungs) + Len(q.partials) = Len(set.ladder)
  BY <1>1, HeldOn
<1>6. q \in Held /\ Exited(q) <= 99 /\ Exited(q) \in Nat
  BY <1>1, <1>5 DEF Sound
<1>7. q.since \in 1..LastRow /\ q.since <= at /\ (set.intraday => SessionOf(q.since) = SessionOf(at))
      /\ at > set.warmUp /\ \A k \in DOMAIN trades : trades[k].exit < q.since
  BY <1>2, <1>5 DEF Underway
<1>8. IsSessionLast(at) <=> set.intraday /\ (at = LastRow \/ SessionOf(at) # SessionOf(at + 1))
  BY DEF IsSessionLast
<1>9. at' >= at
  BY <1>3
<1>10. CASE Due(exits) # {} /\ Close(q, x)
  <2> DEFINE pnl == Blended(q, ExitFill(x.price))
             t == Trade(q, x.reason, x.when, pnl)
  <2>1. trades' = Append(trades, t) /\ risk' = Booked(RolledOver, pnl) /\ pos' = NoTrade
    BY <1>10 DEF Close
  <2>2. /\ x.reason \in Reasons /\ x.price \in Int /\ x.when \in {at, at + 1}
        /\ x.when = at + 1 => Later
        /\ x.when = at => Gain(q.entry, x.price) >= -RiskOf(q)
    BY <1>2, <1>3, <1>5, <1>10, DueExit
  <2> HIDE DEF x, exits, q
  <2>3. q.entry \in Int /\ RiskOf(q) \in Nat /\ Exited(q) <= 100
    <3>1. q.entry \in Int
      BY <1>6, HeldParts
    <3>2. RiskOf(q) \in Nat
      BY <1>2, PassParts DEF RiskOf
    <3> QED
      BY <1>6, <3>1, <3>2
  <2>4. pnl \in Int
    <3>1. Gain(q.entry, x.price) \in Int
      BY <1>2, <2>2, <2>3, GainParts
    <3>2. PICK b \in Nat : Gain(q.entry, x.price) >= -b
      <4>1. CASE Gain(q.entry, x.price) >= 0
        <5>1. Gain(q.entry, x.price) >= -0
          BY <3>1, <4>1
        <5> QED
          BY <5>1
      <4>2. CASE ~(Gain(q.entry, x.price) >= 0)
        <5>1. -Gain(q.entry, x.price) \in Nat /\ Gain(q.entry, x.price) >= -(-Gain(q.entry, x.price))
          BY <3>1, <4>2
        <5> QED
          BY <5>1
      <4> QED
        BY <4>1, <4>2
    <3> QED
      BY <1>2, <1>5, <2>2, <2>3, <3>2, BlendedBound
  <2>5. x.when = at => pnl >= -100 * (set.cost + RiskOf(q))
    BY <1>2, <1>5, <2>2, <2>3, BlendedBound
  <2> HIDE DEF pnl
  <2>6. x.when \in Nat /\ x.when >= at /\ x.when <= at'
    BY <1>3, <2>2
  <2>7. /\ t \in Bookings /\ t.since = q.since /\ t.exit = x.when /\ t.decided = at /\ t.pnl = pnl
        /\ (IF t.secured THEN 0 ELSE set.stop) = RiskOf(q)
    BY <1>2, <1>3, <1>6, <2>2, <2>4, <2>6, TradeParts
  <2> HIDE DEF t
  <2>8. set.intraday => SessionOf(q.since) = SessionOf(x.when)
    <3>1. CASE x.when = at
      BY <1>7, <3>1
    <3>2. CASE x.when = at + 1
      <4>1. ~IsSessionLast(at)
        BY <2>2, <3>2 DEF Later
      <4> QED
        BY <1>7, <1>8, <3>2, <4>1
    <3> QED
      BY <2>2, <3>1, <3>2
  <2>9. trades' \in Seq(Bookings) /\ Settled' /\ TradesDisjoint' /\ LossBounded'
    <3>1. t.since = pos.since /\ t.since <= t.exit /\ t.exit <= at' /\ t.decided <= at'
      BY <1>3, <1>5, <1>7, <2>6, <2>7 DEF q
    <3>2. t.exit <= t.decided => t.pnl >= -100 * (set.cost + IF t.secured THEN 0 ELSE set.stop)
      BY <1>3, <2>2, <2>5, <2>6, <2>7
    <3>3. set.intraday => SessionOf(t.since) = SessionOf(t.exit)
      BY <2>7, <2>8
    <3> QED
      BY <1>1, <1>3, <1>9, <2>1, <2>7, <3>1, <3>2, <3>3, BookingParts
  <2>10. risk' \in Breakers
    <3>1. TRUE \in BOOLEAN
      OBVIOUS
    <3> QED
      BY <1>2, <1>3, <2>1, <2>4, <3>1, RiskTyped
  <2>11. PassTyped'
    BY <1>2, <1>3, <2>9, <2>10 DEF PassTyped
  <2> QED
    BY <2>1, <2>9, <2>11 DEF PassInvariant
<1>11. CASE Due(exits) = {} /\ pos' = q /\ risk' = RolledOver /\ UNCHANGED trades
  <2>1. Gain(Level(q), lastClose') >= 0 /\ ~IsSessionLast(at)
    BY <1>2, <1>3, <1>5, <1>11, NoExit
  <2> HIDE DEF q, exits
  <2>2. set.intraday => at' <= LastRow /\ SessionOf(q.since) = SessionOf(at')
    BY <1>1, <1>2, <1>3, <1>7, <1>8, <2>1
  <2>3. q.since <= at' /\ at' > set.warmUp
    <3>1. set.warmUp \in Int
      BY <1>2, PassParts
    <3> QED
      BY <1>2, <1>3, <1>7, <3>1
  <2>4. \A k \in DOMAIN trades' : trades'[k].exit < q.since
    BY <1>7, <1>11
  <2>5. Underway(pos)'
    BY <1>3, <1>5, <1>6, <1>7, <1>11, <2>1, <2>2, <2>3, <2>4, UnderwayNext DEF q
  <2>6. Settled' /\ TradesDisjoint' /\ LossBounded'
    BY <1>3, <1>9, <1>11, TradesKept
  <2>7. risk' \in Breakers
    <3>1. TRUE \in BOOLEAN /\ 0 \in Int
      OBVIOUS
    <3> QED
      BY <1>2, <1>3, <1>11, <3>1, RiskTyped
  <2>8. PassTyped'
    BY <1>2, <1>3, <1>11, <2>7 DEF PassTyped
  <2> QED
    BY <2>5, <2>6, <2>8 DEF PassInvariant
<1> QED
  BY <1>4, <1>10, <1>11

LEMMA PassInvariantKept == PassInvariant /\ [PassNext]_passVars => PassInvariant'
<1> SUFFICES ASSUME PassInvariant, [PassNext]_passVars PROVE PassInvariant'
  OBVIOUS
<1>1. CASE WarmUp \/ Break
  BY <1>1, IdleStep
<1>2. CASE Watch
  BY <1>2, WatchStep
<1>3. CASE LadderDone
  BY <1>3, LadderDoneStep
<1>4. CASE Hold
  BY <1>4, HoldStep
<1>5. CASE EndOfData
  BY <1>5, EndStep
<1>6. CASE UNCHANGED passVars
  <2>1. /\ set' = set /\ at' = at /\ current' = current /\ lastClose' = lastClose
        /\ pos' = pos /\ risk' = risk /\ trades' = trades
    BY <1>6 DEF passVars
  <2>2. PassTyped' /\ Settled' /\ TradesDisjoint' /\ LossBounded'
    <3>1. PassTyped /\ Settled /\ TradesDisjoint /\ LossBounded
      BY DEF PassInvariant
    <3>2. PassTyped' /\ Settled'
      BY <2>1, <3>1 DEF PassTyped, Settled
    <3>3. TradesDisjoint' /\ LossBounded'
      BY <2>1, <3>1 DEF TradesDisjoint, LossBounded, SessionOf
    <3> QED
      BY <3>2, <3>3
  <2>3. pos # NoTrade => Underway(pos)'
    <3> SUFFICES ASSUME pos # NoTrade PROVE Underway(pos)'
      OBVIOUS
    <3>1. Underway(pos)
      BY DEF PassInvariant
    <3>2. Sound(pos) /\ Exited(pos) + Left(pos) <= 100 /\ Exited(pos) <= 99
          /\ Len(pos.rungs) + Len(pos.partials) = Len(set.ladder)
          /\ pos.since \in 1..LastRow /\ pos.since <= at' /\ at' > set.warmUp
          /\ (set.intraday => at' <= LastRow /\ SessionOf(pos.since) = SessionOf(at'))
          /\ (pos.since < at' => Gain(Level(pos), lastClose') >= 0)
          /\ \A k \in DOMAIN trades' : trades'[k].exit < pos.since
      BY <2>1, <3>1 DEF Underway
    <3> QED
      BY <2>1, <3>2, UnderwayNext
  <2> QED
    BY <2>1, <2>2, <2>3 DEF PassInvariant
<1> QED
  BY <1>1, <1>2, <1>3, <1>4, <1>5, <1>6 DEF PassNext

LEMMA LevelKept ==
    ASSUME PassInvariant, [PassNext]_passVars, pos # NoTrade, pos' # NoTrade
    PROVE  Reaches(Level(pos'), Level(pos))
<1>1. Underway(pos) /\ set \in Settings
  BY DEF PassInvariant, PassTyped
<1>2. pos \in Held
  BY <1>1 DEF Underway, Sound
<1>3. CASE pos' = pos
  <2>1. Gain(Level(pos), Level(pos)) = 0
    BY <1>1, <1>2, LevelParts, GainParts
  <2> QED
    BY <1>3, <2>1 DEF Reaches
<1>4. CASE Hold
  <2>1. pos' = Walked(AfterRungs).p
    BY <1>4 DEF Hold, Close
  <2>2. Gain(Level(pos), Level(Walked(AfterRungs).p)) >= 0
    BY HeldOn
  <2> QED
    BY <2>1, <2>2 DEF Reaches
<1>5. CASE WarmUp \/ Watch \/ Break \/ LadderDone \/ EndOfData
  <2>1. pos' = pos
    BY <1>5 DEF WarmUp, Watch, Break, LadderDone, EndOfData
  <2> QED
    BY <1>3, <2>1
<1> QED
  BY <1>3, <1>4, <1>5 DEF PassNext, passVars

\* Every state of a pass satisfies the invariant.
THEOREM PassAlwaysSound == PassSpec => []PassInvariant
BY PassInvariantHolds, PassInvariantKept, PTL DEF PassSpec

\* The state of a pass is typed: an open trade was entered on a bar of the data, its
\* rungs have left some of it, and none of its ladder is lost.
THEOREM PassTypeCorrect == PassSpec => []PassTypeOK
<1>1. PassInvariant => PassTypeOK
  <2> SUFFICES ASSUME PassInvariant PROVE PassTypeOK
    OBVIOUS
  <2>1. PassTyped
    BY DEF PassInvariant
  <2>2. pos # NoTrade => Exited(pos) \in 0..99
    <3> SUFFICES ASSUME pos # NoTrade PROVE Exited(pos) \in 0..99
      OBVIOUS
    <3>1. pos \in Held /\ Exited(pos) <= 99
      BY DEF PassInvariant, Underway, Sound
    <3> QED
      BY <3>1, HeldSums
  <2>3. pos # NoTrade => pos.since \in 1..LastRow /\ Len(pos.rungs) + Len(pos.partials) = Len(set.ladder)
    BY DEF PassInvariant, Underway
  <2> QED
    BY <2>1, <2>2, <2>3 DEF PassTypeOK, PassTyped
<1> QED
  BY <1>1, PassAlwaysSound, PTL

\* The trades of a pass do not overlap, and an intraday one ends in its session.
THEOREM TradesAlwaysDisjoint == PassSpec => []TradesDisjoint
<1>1. PassInvariant => TradesDisjoint
  BY DEF PassInvariant
<1> QED
  BY <1>1, PassAlwaysSound, PTL

\* An exit on the bar it is decided on loses the initial risk and the costs at most, and
\* the costs at most once a rung has secured the trade.
THEOREM LossAlwaysBounded == PassSpec => []LossBounded
<1>1. PassInvariant => LossBounded
  BY DEF PassInvariant
<1> QED
  BY <1>1, PassAlwaysSound, PTL

\* The level that protects an open trade never moves back.
THEOREM LevelAlwaysTightens == PassSpec => LevelOnlyTightens
<1>1. PassInvariant /\ [PassNext]_passVars
      => [pos # NoTrade /\ pos' # NoTrade => Reaches(Level(pos'), Level(pos))]_passVars
  BY LevelKept
<1> QED
  BY <1>1, PassAlwaysSound, PTL DEF PassSpec, LevelOnlyTightens
-----------------------------------------------------------------------------
(* Sessions and entries.                                                   *)

LEMMA SessionBounds ==
    ASSUME NEW b \in Nat
    PROVE  /\ SessionOf(b) \in Nat
           /\ SessionLength * SessionOf(b) <= b /\ b < SessionLength * SessionOf(b) + SessionLength
<1>1. SessionLength \in Nat \ {0}
  BY PassAssumption
<1> DEFINE L == SessionLength
           q == b \div L
           m == b % L
<1>2. L \in Nat \ {0}
  BY <1>1
<1> HIDE DEF L
<1>3. q \in Nat /\ m \in 0..L - 1 /\ b = L * q + m
  BY <1>2
<1>4. L * q \in Nat
  BY <1>2, <1>3
<1> HIDE DEF q, m
<1>5. L * q <= b /\ b < L * q + L
  BY <1>2, <1>3, <1>4
<1> QED
  BY <1>3, <1>5 DEF q, L, SessionOf

\* Between two bars of a session there is no bar of another.
LEMMA SessionConvex ==
    ASSUME NEW a \in Nat, NEW b \in Nat, NEW c \in Nat, a <= b, b <= c, SessionOf(a) = SessionOf(c)
    PROVE  SessionOf(b) = SessionOf(c)
<1> DEFINE L == SessionLength
           x == SessionOf(a)
           y == SessionOf(b)
<1>1. L \in Nat \ {0}
  BY PassAssumption
<1>2. x \in Nat /\ L * x <= a /\ c < L * x + L
  BY SessionBounds
<1>3. y \in Nat /\ L * y <= b /\ b < L * y + L
  BY SessionBounds
<1> HIDE DEF L, x, y
<1>4. L * x \in Nat /\ L * y \in Nat
  BY <1>1, <1>2, <1>3
<1>5. L * x < L * y + L /\ L * y < L * x + L
  BY <1>1, <1>2, <1>3, <1>4
<1>6. ~(x < y)
  <2> SUFFICES ASSUME x < y PROVE FALSE
    OBVIOUS
  <2>1. PICK d \in Nat : y = x + 1 + d
    <3>1. y - x - 1 \in Nat /\ y = x + 1 + (y - x - 1)
      BY <1>2, <1>3
    <3> QED
      BY <3>1
  <2>2. L * y = L * x + L + L * d /\ L * d \in Nat
    BY <1>1, <1>2, <2>1
  <2> QED
    BY <1>1, <1>4, <1>5, <2>2
<1>7. ~(y < x)
  <2> SUFFICES ASSUME y < x PROVE FALSE
    OBVIOUS
  <2>1. PICK d \in Nat : x = y + 1 + d
    <3>1. x - y - 1 \in Nat /\ x = y + 1 + (x - y - 1)
      BY <1>2, <1>3
    <3> QED
      BY <3>1
  <2>2. L * x = L * y + L + L * d /\ L * d \in Nat
    BY <1>1, <1>3, <2>1
  <2> QED
    BY <1>1, <1>4, <1>5, <2>2
<1>8. x = y
  BY <1>2, <1>3, <1>6, <1>7
<1> QED
  BY <1>8 DEF x, y

EntriesOf(ts, p) == [k \in DOMAIN ts |-> ts[k].since] \o IF p = NoTrade THEN << >> ELSE <<p.since>>

LEMMA EntriesOfParts ==
    ASSUME NEW ts \in Seq(Bookings), NEW p, p # NoTrade => p.since \in Nat
    PROVE  LET es == EntriesOf(ts, p)
               n == Len(ts)
           IN  /\ n \in Nat /\ es \in Seq(Nat) /\ DOMAIN es = 1..Len(es)
               /\ Len(es) = IF p = NoTrade THEN n ELSE n + 1
               /\ \A k \in 1..n : es[k] = ts[k].since
               /\ p # NoTrade => es[n + 1] = p.since
<1> DEFINE n == Len(ts)
           f == [k \in DOMAIN ts |-> ts[k].since]
           es == EntriesOf(ts, p)
<1>1. n \in Nat /\ DOMAIN ts = 1..n /\ \A k \in 1..n : ts[k] \in Bookings
  OBVIOUS
<1>2. \A b \in Bookings : b.since \in Nat
  BY DEF Bookings
<1>3. f \in [1..n -> Nat]
  BY <1>1, <1>2
<1>4. f \in Seq(Nat) /\ Len(f) = n /\ \A k \in 1..n : f[k] = ts[k].since
  BY <1>1, <1>3
<1> HIDE DEF f, n
<1>5. CASE p = NoTrade
  <2>1. es = f \o << >>
    BY <1>5 DEF EntriesOf, f
  <2>2. es = f
    BY <1>4, <2>1
  <2> QED
    BY <1>1, <1>4, <1>5, <2>2 DEF n
<1>6. CASE p # NoTrade
  <2>1. es = f \o <<p.since>>
    BY <1>6 DEF EntriesOf, f
  <2> DEFINE e == p.since
  <2>2. e \in Nat
    BY <1>6
  <2> HIDE DEF e
  <2>3. es = Append(f, e)
    BY <1>4, <2>1, <2>2 DEF e
  <2> HIDE DEF es
  <2>4. /\ es \in Seq(Nat) /\ Len(es) = n + 1 /\ DOMAIN es = 1..(n + 1) /\ es[n + 1] = e
        /\ \A k \in 1..n : es[k] = f[k]
    BY <1>4, <2>2, <2>3, AppendParts
  <2> QED
    BY <1>1, <1>4, <1>6, <2>4 DEF n, e, es
<1> QED
  BY <1>5, <1>6
-----------------------------------------------------------------------------
(* What the breakers remember of the trades.                               *)

Counts(s, t, b) == s.intraday => SessionOf(t.decided) = SessionOf(b)

\* Those of the first k trades that count for bar b.
Today(s, ts, k, b) == {j \in 1..k : Counts(s, ts[j], b)}

SumOfDay(ts, today) == SumFunction([j \in today |-> ts[j].pnl])

WithinDay(s, ts, es, k) ==
    s.intraday =>
        /\ s.cap > 0 => SumOfDay(ts, Today(s, ts, k - 1, es[k])) > -s.cap
        /\ s.maxTrades > 0 => Cardinality(Today(s, ts, k - 1, es[k])) < s.maxTrades

Cooled(s, ts, es, k) ==
    k > 1 /\ Counts(s, ts[k - 1], es[k]) =>
        es[k] - 1 >= ts[k - 1].decided + (IF ts[k - 1].pnl < 0 THEN s.coolLoss ELSE s.coolGain)

Paused(s, ts, es, k) ==
    (/\ s.maxLosses > 0 /\ k > s.maxLosses
     /\ \A j \in k - s.maxLosses..k - 1 : ts[j].pnl < 0 /\ Counts(s, ts[j], es[k]))
    => \E j \in k - s.maxLosses..k - 1 : es[j + 1] - 1 >= ts[j].decided + PauseBars

Respected(s, ts, es, k) == WithinDay(s, ts, es, k) /\ Cooled(s, ts, es, k) /\ Paused(s, ts, es, k)

LEMMA RespectUnfolds ==
    /\ EntriesRespectBreakers <=> \A k \in DOMAIN Entries : Respected(set, trades, Entries, k)
    /\ EntriesRespectBreakers' <=> \A k \in DOMAIN Entries' : Respected(set', trades', Entries', k)
<1>1. \A k : DayLimits(k) <=> WithinDay(set, trades, Entries, k)
  BY DEF DayLimits, WithinDay, CountsFor, Counts, Today, SumOfDay
<1>2. \A k : (k > 1 => CooledDown(k)) <=> Cooled(set, trades, Entries, k)
  BY DEF CooledDown, Cooled, CountsFor, Counts
<1>3. \A k : LossPause(k) <=> Paused(set, trades, Entries, k)
  BY DEF LossPause, Paused, CountsFor, Counts
<1>4. \A k : DayLimits(k)' <=> WithinDay(set', trades', Entries', k)
  BY DEF DayLimits, WithinDay, CountsFor, Counts, Today, SumOfDay, SessionOf
<1>5. \A k : (k > 1 => CooledDown(k)') <=> Cooled(set', trades', Entries', k)
  BY DEF CooledDown, Cooled, CountsFor, Counts, SessionOf
<1>6. \A k : LossPause(k)' <=> Paused(set', trades', Entries', k)
  BY DEF LossPause, Paused, CountsFor, Counts, SessionOf
<1>7. EntriesRespectBreakers <=> \A k \in DOMAIN Entries : Respected(set, trades, Entries, k)
  BY <1>1, <1>2, <1>3 DEF EntriesRespectBreakers, Respected
<1>8. EntriesRespectBreakers' <=> \A k \in DOMAIN Entries' : Respected(set', trades', Entries', k)
  BY <1>4, <1>5, <1>6 DEF EntriesRespectBreakers, Respected
<1> QED
  BY <1>7, <1>8

\* What an entry respected stays so: it depends on what came before it only.
LEMMA RespectedKept ==
    ASSUME NEW s \in Settings, NEW ts, NEW us, NEW es, NEW fs, NEW k \in Nat \ {0},
           \A j \in 1..k - 1 : us[j] = ts[j], \A j \in 1..k : fs[j] = es[j], Respected(s, ts, es, k)
    PROVE  Respected(s, us, fs, k)
<1>1. s.maxLosses \in Int
  BY PassAssumption DEF Passes
<1>2. fs[k] = es[k]
  OBVIOUS
<1>3. Today(s, us, k - 1, fs[k]) = Today(s, ts, k - 1, es[k])
  BY <1>2 DEF Today, Counts
<1>4. SumOfDay(us, Today(s, us, k - 1, fs[k])) = SumOfDay(ts, Today(s, ts, k - 1, es[k]))
  <2> DEFINE T == Today(s, ts, k - 1, es[k])
  <2>1. \A j \in T : us[j] = ts[j]
    BY DEF Today
  <2> HIDE DEF T
  <2>2. SumOfDay(us, T) = SumOfDay(ts, T)
    BY <2>1 DEF SumOfDay
  <2> QED
    BY <1>3, <2>2 DEF T
<1>5. WithinDay(s, us, fs, k)
  BY <1>3, <1>4 DEF WithinDay, Respected
<1>6. Cooled(s, us, fs, k)
  <2>1. k > 1 => us[k - 1] = ts[k - 1]
    OBVIOUS
  <2> QED
    BY <1>2, <2>1 DEF Cooled, Respected, Counts
<1>7. Paused(s, us, fs, k)
  <2> SUFFICES ASSUME s.maxLosses > 0, k > s.maxLosses,
                      \A j \in k - s.maxLosses..k - 1 : us[j].pnl < 0 /\ Counts(s, us[j], fs[k])
               PROVE  \E j \in k - s.maxLosses..k - 1 : fs[j + 1] - 1 >= us[j].decided + PauseBars
    BY DEF Paused
  <2>1. \A j \in k - s.maxLosses..k - 1 : j \in 1..k - 1 /\ j + 1 \in 1..k
    BY <1>1
  <2>2. \A j \in k - s.maxLosses..k - 1 : us[j] = ts[j] /\ fs[j + 1] = es[j + 1]
    BY <2>1
  <2>3. \A j \in k - s.maxLosses..k - 1 : ts[j].pnl < 0 /\ Counts(s, ts[j], es[k])
    BY <1>2, <2>2
  <2>4. PICK j \in k - s.maxLosses..k - 1 : es[j + 1] - 1 >= ts[j].decided + PauseBars
    BY <2>3 DEF Respected, Paused
  <2> QED
    BY <2>2, <2>4
<1> QED
  BY <1>5, <1>6, <1>7 DEF Respected

\* The loss counter starts after a trade that is no loss, that is of another session, or
\* that was followed by the pause.
Served(r, ts, es, j) ==
    /\ j = Len(ts) => r.pauseUntil >= ts[j].decided + PauseBars
    /\ j < Len(es) => es[j + 1] - 1 >= ts[j].decided + PauseBars

Tallied(s, r, b, ts) ==
    s.intraday => /\ r.pnl = SumOfDay(ts, Today(s, ts, Len(ts), b))
                  /\ r.count = Cardinality(Today(s, ts, Len(ts), b))

Cooling(s, r, b, ts) ==
    Len(ts) > 0 /\ Counts(s, ts[Len(ts)], b) =>
        IF ts[Len(ts)].pnl < 0
        THEN s.coolLoss > 0 => r.lossUntil >= ts[Len(ts)].decided + s.coolLoss
        ELSE s.coolGain > 0 => r.profitUntil >= ts[Len(ts)].decided + s.coolGain

Streak(s, r, b, ts, es) ==
    s.maxLosses > 0 =>
        /\ r.losses < s.maxLosses
        /\ \E j \in 0..Len(ts) :
              /\ r.losses = Len(ts) - j
              /\ j > 0 /\ ts[j].pnl < 0 /\ Counts(s, ts[j], b) => Served(r, ts, es, j)

\* The record r tells the truth about the trades for bar b.
Charged(s, r, b, ts, es) == Tallied(s, r, b, ts) /\ Cooling(s, r, b, ts) /\ Streak(s, r, b, ts, es)

\* Fields and bars that the record does not look at.
LEMMA ChargedSame ==
    ASSUME NEW s, NEW r, NEW q, NEW b, NEW c, NEW ts, NEW es, NEW fs,
           q.pnl = r.pnl, q.count = r.count, q.losses = r.losses, q.lossUntil = r.lossUntil,
           q.profitUntil = r.profitUntil, q.pauseUntil = r.pauseUntil,
           s.intraday => SessionOf(b) = SessionOf(c),
           \A j \in 0..Len(ts) : j < Len(fs) => j < Len(es) /\ fs[j + 1] = es[j + 1],
           Charged(s, r, b, ts, es)
    PROVE  Charged(s, q, c, ts, fs)
<1>1. \A t : Counts(s, t, c) <=> Counts(s, t, b)
  BY DEF Counts
<1>2. Today(s, ts, Len(ts), c) = Today(s, ts, Len(ts), b)
  BY <1>1 DEF Today
<1>3. Tallied(s, q, c, ts)
  BY <1>2 DEF Charged, Tallied
<1>4. Cooling(s, q, c, ts)
  BY <1>1 DEF Charged, Cooling
<1>5. \A j \in 0..Len(ts) : Served(r, ts, es, j) => Served(q, ts, fs, j)
  BY DEF Served
<1>6. Streak(s, q, c, ts, fs)
  BY <1>1, <1>5 DEF Charged, Streak
<1> QED
  BY <1>3, <1>4, <1>6 DEF Charged

\* A record that was reset, for a bar that no trade counts for.
LEMMA ChargedFresh ==
    ASSUME NEW s, NEW q, NEW c, NEW ts, Len(ts) \in Nat, NEW es,
           q.pnl = 0, q.count = 0, q.losses = 0, \A j \in 1..Len(ts) : ~Counts(s, ts[j], c)
    PROVE  Charged(s, q, c, ts, es)
<1> DEFINE n == Len(ts)
<1>1. Today(s, ts, n, c) = {}
  BY DEF Today
<1>2. SumOfDay(ts, {}) = 0 /\ Cardinality({}) = 0
  <2>1. SumOfDay(ts, {}) = SumFunctionOnSet([j \in {} |-> ts[j].pnl], {})
    BY DEF SumOfDay, SumFunction
  <2> QED
    BY <2>1, SumEmpty, FS_EmptySet
<1>3. Tallied(s, q, c, ts)
  BY <1>1, <1>2 DEF Tallied
<1>4. n > 0 => n \in 1..n
  OBVIOUS
<1>5. Cooling(s, q, c, ts)
  BY <1>4 DEF Cooling
<1>6. Streak(s, q, c, ts, es)
  <2> SUFFICES ASSUME s.maxLosses > 0 PROVE Streak(s, q, c, ts, es)
    BY DEF Streak
  <2>1. n \in 0..n /\ 0 = n - n /\ (n > 0 => ~Counts(s, ts[n], c))
    BY <1>4
  <2>2. q.losses < s.maxLosses
    OBVIOUS
  <2> QED
    BY <2>1, <2>2 DEF Streak
<1> QED
  BY <1>3, <1>5, <1>6 DEF Charged

LEMMA BookedParts ==
    ASSUME NEW r \in Breakers, NEW pnl \in Int
    PROVE  LET b == Booked(r, pnl)
               tripped == set.maxLosses > 0 /\ r.losses + 1 >= set.maxLosses
           IN  /\ set.intraday => b.pnl = r.pnl + pnl /\ b.count = r.count + 1
               /\ b.session = r.session
               /\ pnl < 0 => /\ b.losses = IF tripped THEN 0 ELSE r.losses + 1
                             /\ b.pauseUntil = IF tripped THEN at + PauseBars ELSE r.pauseUntil
                             /\ set.coolLoss > 0 => b.lossUntil = at + set.coolLoss
               /\ ~(pnl < 0) => /\ b.losses = 0 /\ b.pauseUntil = r.pauseUntil
                                /\ set.coolGain > 0 => b.profitUntil = at + set.coolGain
<1> DEFINE c == IF set.intraday THEN [r EXCEPT !.pnl = @ + pnl, !.count = @ + 1] ELSE r
<1>1. /\ c.session = r.session /\ c.losses = r.losses /\ c.pauseUntil = r.pauseUntil
      /\ set.intraday => c.pnl = r.pnl + pnl /\ c.count = r.count + 1
      /\ c \in Breakers
  <2>1. r.pnl + pnl \in Int /\ r.count + 1 \in Nat
    BY DEF Breakers
  <2>2. c \in Breakers
    BY <2>1 DEF Breakers
  <2>3. CASE set.intraday
    <3>1. c = [r EXCEPT !.pnl = r.pnl + pnl, !.count = r.count + 1]
      BY <2>3
    <3> HIDE DEF c
    <3>2. /\ c.session = r.session /\ c.losses = r.losses /\ c.pauseUntil = r.pauseUntil
          /\ c.pnl = r.pnl + pnl /\ c.count = r.count + 1
      BY <3>1 DEF Breakers
    <3> QED
      BY <2>2, <3>2
  <2>4. CASE ~set.intraday
    BY <2>2, <2>4
  <2> QED
    BY <2>3, <2>4
<1>2. Booked(r, pnl) = [(IF pnl < 0 THEN AfterLoss(c) ELSE AfterGain(c)) EXCEPT !.streak = 0]
  BY DEF Booked
<1> HIDE DEF c
<1>3. CASE pnl < 0
  <2> DEFINE tripped == set.maxLosses > 0 /\ c.losses + 1 >= set.maxLosses
             x == IF tripped THEN 0 ELSE c.losses + 1
             y == IF tripped THEN at + PauseBars ELSE c.pauseUntil
             z == IF set.coolLoss > 0 THEN at + set.coolLoss ELSE c.lossUntil
  <2>1. Booked(r, pnl) = [[c EXCEPT !.losses = x, !.pauseUntil = y, !.lossUntil = z] EXCEPT !.streak = 0]
    BY <1>2, <1>3 DEF AfterLoss
  <2> DEFINE b == Booked(r, pnl)
  <2> HIDE DEF x, y, z, tripped, b
  <2>2. b.losses = x /\ b.pauseUntil = y /\ b.lossUntil = z /\ b.pnl = c.pnl /\ b.count = c.count /\ b.session = c.session
    BY <1>1, <2>1 DEF b, Breakers
  <2>3. /\ x = (IF set.maxLosses > 0 /\ r.losses + 1 >= set.maxLosses THEN 0 ELSE r.losses + 1)
        /\ y = (IF set.maxLosses > 0 /\ r.losses + 1 >= set.maxLosses THEN at + PauseBars ELSE r.pauseUntil)
        /\ (set.coolLoss > 0 => z = at + set.coolLoss)
    BY <1>1 DEF x, y, z, tripped
  <2> QED
    BY <1>1, <1>3, <2>2, <2>3 DEF b
<1>4. CASE ~(pnl < 0)
  <2> DEFINE z == IF set.coolGain > 0 THEN at + set.coolGain ELSE c.profitUntil
  <2>1. Booked(r, pnl) = [[c EXCEPT !.losses = 0, !.profitUntil = z] EXCEPT !.streak = 0]
    BY <1>2, <1>4 DEF AfterGain
  <2> DEFINE b == Booked(r, pnl)
  <2> HIDE DEF z, b
  <2>2. b.losses = 0 /\ b.pauseUntil = c.pauseUntil /\ b.profitUntil = z /\ b.pnl = c.pnl /\ b.count = c.count
        /\ b.session = c.session
    BY <1>1, <2>1 DEF b, Breakers
  <2>3. set.coolGain > 0 => z = at + set.coolGain
    BY DEF z
  <2> QED
    BY <1>1, <1>4, <2>2, <2>3 DEF b
<1> QED
  BY <1>3, <1>4

\* A trade that ends is charged to its session, to the cooldowns and to the losses in a row.
LEMMA ChargedBooked ==
    ASSUME set \in Settings, at \in Nat, trades \in Seq(Bookings), NEW r \in Breakers, NEW t \in Bookings,
           t.decided = at, NEW es, Len(es) = Len(trades) + 1, Charged(set, r, at, trades, es)
    PROVE  Charged(set, Booked(r, t.pnl), at, Append(trades, t), es)
<1> DEFINE n == Len(trades)
           us == Append(trades, t)
           b == Booked(r, t.pnl)
           tripped == set.maxLosses > 0 /\ r.losses + 1 >= set.maxLosses
           T == Today(set, trades, n, at)
<1>1. /\ n \in Nat /\ Len(us) = n + 1 /\ us[n + 1] = t
      /\ \A i \in 1..n : us[i] = trades[i] /\ trades[i] \in Bookings
  BY AppendParts
<1>2. t.pnl \in Int /\ \A i \in 1..n : trades[i].pnl \in Int
  <2>1. \A x \in Bookings : x.pnl \in Int
    BY DEF Bookings
  <2> QED
    BY <1>1, <2>1
<1>3. /\ set.intraday => b.pnl = r.pnl + t.pnl /\ b.count = r.count + 1
      /\ t.pnl < 0 => /\ b.losses = IF tripped THEN 0 ELSE r.losses + 1
                      /\ b.pauseUntil = IF tripped THEN at + PauseBars ELSE r.pauseUntil
                      /\ set.coolLoss > 0 => b.lossUntil = at + set.coolLoss
      /\ ~(t.pnl < 0) => /\ b.losses = 0 /\ b.pauseUntil = r.pauseUntil
                         /\ set.coolGain > 0 => b.profitUntil = at + set.coolGain
  BY <1>2, BookedParts
<1>4. set.coolLoss \in Int /\ set.coolGain \in Int /\ set.maxLosses \in Int /\ r.losses \in Nat
  BY PassParts DEF Breakers
<1> HIDE DEF us, b, n
<1>5. Counts(set, t, at)
  BY DEF Counts
<1>6. \A j \in 1..(n + 1) : j \in 1..n \/ j = n + 1
  BY <1>1
<1>7. Today(set, us, n + 1, at) = T \cup {n + 1}
  <2>1. \A j : j \in Today(set, us, n + 1, at) <=> j \in 1..(n + 1) /\ Counts(set, us[j], at)
    BY DEF Today
  <2>2. \A j : j \in T <=> j \in 1..n /\ Counts(set, trades[j], at)
    BY DEF Today
  <2>3. n + 1 \in 1..(n + 1) /\ \A j \in 1..n : j \in 1..(n + 1)
    BY <1>1
  <2> HIDE DEF T
  <2> QED
    BY <1>1, <1>5, <1>6, <2>1, <2>2, <2>3
<1>8. Tallied(set, b, at, us)
  <2> SUFFICES ASSUME set.intraday PROVE Tallied(set, b, at, us)
    BY DEF Tallied
  <2>1. r.pnl = SumOfDay(trades, T) /\ r.count = Cardinality(T)
    BY DEF Charged, Tallied, n
  <2>2. IsFiniteSet(T) /\ n + 1 \notin T /\ T \in SUBSET (1..n)
    <3>1. 1 \in Int /\ n \in Int
      BY <1>1
    <3>2. IsFiniteSet(1..n)
      BY ONLY <3>1, FS_Interval
    <3>3. T \in SUBSET (1..n)
      BY DEF Today
    <3>4. n + 1 \notin 1..n
      BY <1>1
    <3> HIDE DEF T
    <3> QED
      BY <3>2, <3>3, <3>4, FS_Subset
  <2> HIDE DEF T
  <2> DEFINE f == [j \in T |-> trades[j].pnl]
             g == [j \in T \cup {n + 1} |-> us[j].pnl]
  <2>3. \A j \in T : f[j] = g[j] /\ f[j] \in Int
    BY <1>1, <1>2, <2>2
  <2>4. \A j \in T \cup {n + 1} : g[j] \in Int
    BY <1>1, <1>2, <2>2
  <2>5. SumOfDay(us, T \cup {n + 1}) = SumFunctionOnSet(g, T \cup {n + 1}) /\ g[n + 1] = t.pnl
    BY <1>1 DEF SumOfDay, SumFunction
  <2>6. SumOfDay(trades, T) = SumFunctionOnSet(f, T)
    BY DEF SumOfDay, SumFunction
  <2> HIDE DEF f, g
  <2>7. SumFunctionOnSet(g, T \cup {n + 1}) = g[n + 1] + SumFunctionOnSet(g, T)
    BY <2>2, <2>4, SumAdd
  <2>8. SumFunctionOnSet(f, T) = SumFunctionOnSet(g, T) /\ SumFunctionOnSet(f, T) \in Int
    BY <2>2, <2>3, SumSame, SumType
  <2>9. SumOfDay(us, T \cup {n + 1}) = SumOfDay(trades, T) + t.pnl
    BY <1>2, <2>5, <2>6, <2>7, <2>8
  <2>10. Cardinality(T \cup {n + 1}) = Cardinality(T) + 1
    BY <2>2, FS_AddElement
  <2> QED
    BY <1>1, <1>3, <1>7, <2>1, <2>9, <2>10 DEF Tallied
<1>9. Cooling(set, b, at, us)
  <2>1. at + set.coolLoss >= at + set.coolLoss /\ at + set.coolGain >= at + set.coolGain
    BY <1>4
  <2>2. us[Len(us)] = t
    BY <1>1
  <2> QED
    BY <1>3, <2>1, <2>2 DEF Cooling
<1>10. Streak(set, b, at, us, es)
  <2> SUFFICES ASSUME set.maxLosses > 0 PROVE Streak(set, b, at, us, es)
    BY DEF Streak
  <2>1. PICK j \in 0..n : /\ r.losses = n - j
                          /\ j > 0 /\ trades[j].pnl < 0 /\ Counts(set, trades[j], at) => Served(r, trades, es, j)
    BY DEF Charged, Streak, n
  <2>2. n + 1 \in 0..(n + 1) /\ (n + 1) - (n + 1) = 0 /\ j \in 0..(n + 1)
    BY <1>1
  <2>3. CASE t.pnl < 0 /\ ~tripped
    <3>1. b.losses = r.losses + 1 /\ b.pauseUntil = r.pauseUntil
      BY <1>3, <2>3
    <3>2. r.losses + 1 < set.maxLosses /\ r.losses + 1 = (n + 1) - j
      <4>1. r.losses + 1 < set.maxLosses
        BY <1>4, <2>3
      <4>2. r.losses = n - j /\ n \in Nat /\ j \in Int
        BY <1>1, <2>1
      <4> QED
        BY <4>1, <4>2
    <3>3. ASSUME j > 0, us[j].pnl < 0, Counts(set, us[j], at) PROVE Served(b, us, es, j)
      <4>1. j \in 1..n /\ j # n + 1
        BY <1>1, <2>1, <3>3
      <4>2. us[j] = trades[j]
        BY <1>1, <4>1
      <4>3. Served(r, trades, es, j)
        BY <2>1, <3>3, <4>2
      <4> QED
        BY <1>1, <4>1, <4>2, <4>3 DEF Served
    <3> QED
      BY <1>1, <2>2, <3>1, <3>2, <3>3 DEF Streak
  <2>4. CASE t.pnl < 0 /\ tripped
    <3>1. b.losses = 0 /\ b.pauseUntil = at + PauseBars
      BY <1>3, <2>4
    <3>2. Served(b, us, es, n + 1)
      <4>1. ~(n + 1 < Len(es)) /\ at + PauseBars >= at + PauseBars
        BY <1>1 DEF n, PauseBars
      <4> QED
        BY <1>1, <3>1, <4>1 DEF Served
    <3>3. b.losses < set.maxLosses
      BY <1>4, <3>1
    <3> QED
      BY <1>1, <2>2, <3>1, <3>2, <3>3 DEF Streak
  <2>5. CASE ~(t.pnl < 0)
    <3>1. b.losses = 0 /\ b.losses < set.maxLosses
      BY <1>3, <1>4, <2>5
    <3>2. ~(us[n + 1].pnl < 0)
      BY <1>1, <2>5
    <3> QED
      BY <1>1, <2>2, <3>1, <3>2 DEF Streak
  <2> QED
    BY <2>3, <2>4, <2>5
<1> QED
  BY <1>8, <1>9, <1>10 DEF Charged, us, b

\* An entry that the gates let through respects the limits, and the pause before it is
\* remembered from then on.
LEMMA ChargedEntered ==
    ASSUME set \in Settings, at \in Nat, trades \in Seq(Bookings), Settled, NEW r \in Breakers, GatesClear(r),
           NEW es, Len(es) = Len(trades), NEW fs, Len(fs) = Len(trades) + 1,
           \A k \in 1..Len(trades) : fs[k] = es[k], fs[Len(trades) + 1] = at + 1,
           set.intraday => SessionOf(at) = SessionOf(at + 1),
           Charged(set, r, at, trades, es)
    PROVE  Charged(set, r, at, trades, fs) /\ Respected(set, trades, fs, Len(trades) + 1)
<1> DEFINE n == Len(trades)
<1>1. /\ n \in Nat /\ DOMAIN trades = 1..n
      /\ \A j \in 1..n : trades[j] \in Bookings /\ trades[j].decided <= at
  BY DEF Settled
<1>2. \A j \in 1..n : trades[j].decided \in Nat /\ trades[j].pnl \in Int
  <2>1. \A x \in Bookings : x.decided \in Nat /\ x.pnl \in Int
    BY DEF Bookings
  <2> QED
    BY <1>1, <2>1
<1>3. /\ set.intraday \in BOOLEAN /\ set.cap \in Int /\ set.maxTrades \in Int /\ set.maxLosses \in Int
      /\ set.coolLoss \in Int /\ set.coolGain \in Int
  BY PassParts
<1>4. /\ r.pnl \in Int /\ r.count \in Nat /\ r.losses \in Nat /\ r.pauseUntil \in Int
      /\ r.lossUntil \in Int /\ r.profitUntil \in Int
  BY DEF Breakers
<1>5. /\ ~(set.intraday /\ set.cap > 0 /\ r.pnl <= -set.cap)
      /\ ~(set.intraday /\ set.maxTrades > 0 /\ r.count >= set.maxTrades)
      /\ at >= r.pauseUntil /\ at >= r.lossUntil /\ at >= r.profitUntil
  BY DEF GatesClear
<1>6. \A t : Counts(set, t, at + 1) <=> Counts(set, t, at)
  BY DEF Counts
<1> HIDE DEF n
<1>7. (n + 1) - 1 = n /\ fs[n + 1] = at + 1 /\ (at + 1) - 1 = at
  BY <1>1 DEF n
<1>8. ASSUME NEW j \in 0..n, j > 0, Served(r, trades, es, j)
      PROVE  Served(r, trades, fs, j) /\ fs[j + 1] - 1 >= trades[j].decided + PauseBars
  <2>1. j \in 1..n /\ trades[j].decided + PauseBars \in Int
    BY <1>1, <1>2, <1>8 DEF PauseBars
  <2>2. CASE j = n
    <3>1. r.pauseUntil >= trades[j].decided + PauseBars
      BY <1>8, <2>2 DEF Served, n
    <3>2. at >= trades[j].decided + PauseBars
      BY <1>4, <1>5, <2>1, <3>1
    <3> QED
      BY <1>7, <2>2, <3>1, <3>2 DEF Served, n
  <2>3. CASE j # n
    <3>1. j < n /\ j + 1 \in 1..n
      BY <1>1, <2>1, <2>3
    <3>2. es[j + 1] - 1 >= trades[j].decided + PauseBars /\ fs[j + 1] = es[j + 1]
      BY <1>8, <3>1 DEF Served, n
    <3> QED
      BY <2>3, <3>2 DEF Served, n
  <2> QED
    BY <2>2, <2>3
<1>9. Streak(set, r, at, trades, fs)
  BY <1>8 DEF Charged, Streak, n
<1>10. Charged(set, r, at, trades, fs)
  BY <1>9 DEF Charged
<1>11. WithinDay(set, trades, fs, n + 1)
  <2> SUFFICES ASSUME set.intraday PROVE WithinDay(set, trades, fs, n + 1)
    BY DEF WithinDay
  <2> DEFINE T == Today(set, trades, n, at)
  <2>1. Today(set, trades, (n + 1) - 1, fs[n + 1]) = T
    BY <1>6, <1>7 DEF Today
  <2>2. r.pnl = SumOfDay(trades, T) /\ r.count = Cardinality(T)
    BY DEF Charged, Tallied, n
  <2> HIDE DEF T
  <2>3. (set.cap > 0 => r.pnl > -set.cap) /\ (set.maxTrades > 0 => r.count < set.maxTrades)
    <3> DEFINE c == set.cap
               m == set.maxTrades
               v == r.pnl
               k == r.count
    <3>1. (c > 0 => ~(v <= -c)) /\ (m > 0 => ~(k >= m))
      BY <1>5
    <3>2. c \in Int /\ m \in Int /\ v \in Int /\ k \in Int
      BY <1>3, <1>4
    <3> HIDE DEF c, m, v, k
    <3>3. (c > 0 => v > -c) /\ (m > 0 => k < m)
      BY ONLY <3>1, <3>2
    <3> QED
      BY <3>3 DEF c, m, v, k
  <2> QED
    BY <2>1, <2>2, <2>3 DEF WithinDay
<1>12. Cooled(set, trades, fs, n + 1)
  <2> SUFFICES ASSUME n > 0, Counts(set, trades[n], at)
               PROVE  at >= trades[n].decided + (IF trades[n].pnl < 0 THEN set.coolLoss ELSE set.coolGain)
    BY <1>1, <1>6, <1>7 DEF Cooled
  <2>1. n \in 1..n
    BY <1>1
  <2>2. trades[n].decided \in Nat /\ trades[n].decided <= at
    BY <1>1, <1>2, <2>1
  <2>3. IF trades[n].pnl < 0
        THEN set.coolLoss > 0 => r.lossUntil >= trades[n].decided + set.coolLoss
        ELSE set.coolGain > 0 => r.profitUntil >= trades[n].decided + set.coolGain
    BY DEF Charged, Cooling, n
  <2>4. ASSUME NEW d \in Nat, d <= at, NEW cool \in Int, NEW until \in Int, at >= until,
               cool > 0 => until >= d + cool
        PROVE  at >= d + cool
    <3>1. CASE cool > 0
      <4>1. at \in Int /\ d + cool \in Int /\ until >= d + cool
        BY <2>4, <3>1
      <4> QED
        BY ONLY <4>1, <2>4
    <3>2. CASE ~(cool > 0)
      BY ONLY <2>4, <3>2, at \in Nat
    <3> QED
      BY <3>1, <3>2
  <2>5. CASE trades[n].pnl < 0
    <3>1. set.coolLoss > 0 => r.lossUntil >= trades[n].decided + set.coolLoss
      BY <2>3, <2>5
    <3>2. at >= trades[n].decided + set.coolLoss
      BY <1>3, <1>4, <1>5, <2>2, <2>4, <3>1
    <3> QED
      BY <2>5, <3>2
  <2>6. CASE ~(trades[n].pnl < 0)
    <3>1. set.coolGain > 0 => r.profitUntil >= trades[n].decided + set.coolGain
      BY <2>3, <2>6
    <3>2. at >= trades[n].decided + set.coolGain
      BY <1>3, <1>4, <1>5, <2>2, <2>4, <3>1
    <3> QED
      BY <2>6, <3>2
  <2> QED
    BY <2>5, <2>6
<1>13. Paused(set, trades, fs, n + 1)
  <2> DEFINE m == set.maxLosses
  <2> SUFFICES ASSUME m > 0, n + 1 > m,
                      \A j \in (n + 1) - m..(n + 1) - 1 : trades[j].pnl < 0 /\ Counts(set, trades[j], fs[n + 1])
               PROVE  \E j \in (n + 1) - m..(n + 1) - 1 : fs[j + 1] - 1 >= trades[j].decided + PauseBars
    BY DEF Paused
  <2>1. PICK j \in 0..n : /\ r.losses = n - j /\ r.losses < m
                          /\ j > 0 /\ trades[j].pnl < 0 /\ Counts(set, trades[j], at) => Served(r, trades, es, j)
    BY DEF Charged, Streak, n
  <2>2. j \in (n + 1) - m..(n + 1) - 1 /\ j > 0
    BY <1>1, <1>3, <2>1
  <2>3. trades[j].pnl < 0 /\ Counts(set, trades[j], at)
    BY <1>6, <1>7, <2>2
  <2>4. fs[j + 1] - 1 >= trades[j].decided + PauseBars
    BY <1>8, <2>1, <2>2, <2>3
  <2> QED
    BY <2>2, <2>4
<1> QED
  BY <1>10, <1>11, <1>12, <1>13 DEF Respected, n

\* The record of the next bar: that of a new session has nothing to tell.
LEMMA ChargedOn ==
    ASSUME set' = set, at \in Nat, at' = at + 1, trades' \in Seq(Bookings),
           set.intraday => risk'.session = SessionOf(at),
           \A j \in DOMAIN trades' : trades'[j].decided <= at,
           Charged(set, risk', at, trades', Entries')
    PROVE  Charged(set', RolledOver', at', trades', Entries')
<1> DEFINE n == Len(trades')
<1>1. n \in Nat /\ DOMAIN trades' = 1..n /\ \A j \in 1..n : trades'[j] \in Bookings
  OBVIOUS
<1>2. \A x \in Bookings : x.decided \in Nat
  BY DEF Bookings
<1>3. CASE set.intraday /\ SessionOf(at) # SessionOf(at + 1)
  <2>1. RolledOver'.pnl = 0 /\ RolledOver'.count = 0 /\ RolledOver'.losses = 0
    BY <1>3 DEF RolledOver, Fresh, SessionOf
  <2>2. ASSUME NEW j \in 1..n PROVE ~Counts(set, trades'[j], at + 1)
    <3>1. trades'[j].decided \in Nat /\ trades'[j].decided <= at /\ at <= at + 1 /\ at + 1 \in Nat
      BY <1>1, <1>2
    <3>2. SessionOf(trades'[j].decided) # SessionOf(at + 1)
      BY <1>3, <3>1, SessionConvex
    <3> QED
      BY <1>3, <3>2 DEF Counts
  <2>3. Charged(set, RolledOver', at + 1, trades', Entries')
    BY <1>1, <2>1, <2>2, ChargedFresh
  <2> QED
    BY <2>3
<1>4. CASE ~(set.intraday /\ SessionOf(at) # SessionOf(at + 1))
  <2>1. RolledOver' = risk'
    BY <1>4 DEF RolledOver, SessionOf
  <2>2. Charged(set, risk', at + 1, trades', Entries')
    BY <1>4, ChargedSame
  <2> QED
    BY <2>1, <2>2
<1> QED
  BY <1>3, <1>4
-----------------------------------------------------------------------------
(* The breakers over a pass.                                               *)

BreakersInvariant ==
    /\ PassInvariant /\ EntriesRespectBreakers
    /\ at <= set.warmUp => trades = << >> /\ pos = NoTrade /\ risk = Fresh(NoSession, FALSE)
    /\ at <= LastRow => Charged(set, RolledOver, at, trades, Entries)

\* The entries of a state are those of its trades and of its position.
LEMMA EntriesParts ==
    ASSUME PassInvariant
    PROVE  LET n == Len(trades)
           IN  /\ n \in Nat /\ DOMAIN trades = 1..n /\ Entries \in Seq(Nat) /\ DOMAIN Entries = 1..Len(Entries)
               /\ Len(Entries) = IF pos = NoTrade THEN n ELSE n + 1
               /\ \A k \in 1..n : Entries[k] = trades[k].since
               /\ pos # NoTrade => Entries[n + 1] = pos.since
<1>1. trades \in Seq(Bookings) /\ (pos # NoTrade => pos.since \in Nat)
  <2>1. pos # NoTrade => pos \in Held
    BY DEF PassInvariant, Underway, Sound
  <2> QED
    BY <2>1, HeldParts DEF PassInvariant, PassTyped
<1>2. Entries = EntriesOf(trades, pos)
  BY DEF Entries, EntriesOf
<1>3. DOMAIN trades = 1..Len(trades)
  BY <1>1
<1> QED
  BY <1>1, <1>2, <1>3, EntriesOfParts

LEMMA EntriesPartsNext ==
    ASSUME PassInvariant'
    PROVE  LET n == Len(trades')
           IN  /\ n \in Nat /\ DOMAIN trades' = 1..n /\ Entries' \in Seq(Nat) /\ DOMAIN Entries' = 1..Len(Entries')
               /\ Len(Entries') = IF pos' = NoTrade THEN n ELSE n + 1
               /\ \A k \in 1..n : Entries'[k] = trades'[k].since
               /\ pos' # NoTrade => Entries'[n + 1] = pos'.since
<1>1. trades' \in Seq(Bookings) /\ (pos' # NoTrade => pos'.since \in Nat)
  <2>1. pos' # NoTrade => pos' \in Held
    BY DEF PassInvariant, Underway, Sound
  <2> QED
    BY <2>1, HeldParts DEF PassInvariant, PassTyped
<1>2. Entries' = EntriesOf(trades', pos')
  BY DEF Entries, EntriesOf
<1>3. DOMAIN trades' = 1..Len(trades')
  BY <1>1
<1> QED
  BY <1>1, <1>2, <1>3, EntriesOfParts

\* A step that enters no trade keeps the entries and what came before each.
LEMMA EntriesKept ==
    ASSUME PassInvariant, PassInvariant', EntriesRespectBreakers, set' = set, Len(Entries') <= Len(Entries),
           \A k \in 1..Len(Entries') : Entries'[k] = Entries[k],
           \A j \in 1..Len(Entries') - 1 : trades'[j] = trades[j]
    PROVE  EntriesRespectBreakers'
<1> DEFINE n == Len(Entries)
           m == Len(Entries')
<1>1. n \in Nat /\ m \in Nat /\ DOMAIN Entries = 1..n /\ DOMAIN Entries' = 1..m /\ set \in Settings
  BY EntriesParts, EntriesPartsNext DEF PassInvariant, PassTyped
<1>2. \A k \in 1..n : Respected(set, trades, Entries, k)
  BY <1>1, RespectUnfolds
<1>3. ASSUME NEW k \in 1..m PROVE Respected(set', trades', Entries', k)
  <2>1. /\ k \in Nat \ {0} /\ k \in 1..n /\ \A j \in 1..k : j \in 1..m
        /\ \A j \in 1..k - 1 : j \in 1..m - 1
    BY <1>1
  <2>2. \A j \in 1..k - 1 : trades'[j] = trades[j]
    BY <2>1
  <2>3. \A j \in 1..k : Entries'[j] = Entries[j]
    BY <2>1
  <2>4. Respected(set, trades', Entries', k)
    BY <1>1, <1>2, <2>1, <2>2, <2>3, RespectedKept
  <2> QED
    BY <2>4
<1> QED
  BY <1>1, <1>3, RespectUnfolds

LEMMA Rolled == set.intraday => RolledOver.session = SessionOf(at)
BY DEF RolledOver, Fresh

\* To the next bar.
LEMMA BreakersNext ==
    ASSUME PassInvariant, PassInvariant', EntriesRespectBreakers', Advance, at <= LastRow, at >= set.warmUp,
           set.intraday => risk'.session = SessionOf(at),
           \A j \in DOMAIN trades' : trades'[j].decided <= at,
           Charged(set, risk', at, trades', Entries')
    PROVE  BreakersInvariant'
<1>1. set' = set /\ at' = at + 1 /\ at \in Nat
  BY AdvanceParts DEF PassInvariant
<1>2. trades' \in Seq(Bookings)
  BY DEF PassInvariant, PassTyped
<1>3. Charged(set', RolledOver', at', trades', Entries')
  BY <1>1, <1>2, ChargedOn
<1>4. ~(at' <= set'.warmUp)
  <2>1. set.warmUp \in Int
    BY PassParts DEF PassInvariant, PassTyped
  <2> QED
    BY <1>1, <2>1
<1>5. Charged(set, RolledOver, at, trades, Entries)'
  BY <1>3 DEF Charged, Tallied, Cooling, Streak, Served, Counts, Today, SumOfDay, SessionOf
<1> QED
  BY <1>4, <1>5 DEF BreakersInvariant

LEMMA BreakersStart == PassInit => BreakersInvariant
<1> SUFFICES ASSUME PassInit PROVE BreakersInvariant
  OBVIOUS
<1>1. PassInvariant
  BY PassInvariantHolds
<1>2. trades = << >> /\ pos = NoTrade /\ risk = Fresh(NoSession, FALSE) /\ Len(trades) = 0
  BY DEF PassInit
<1>3. Len(Entries) = 0 /\ DOMAIN Entries = 1..0
  BY <1>1, <1>2, EntriesParts
<1>4. EntriesRespectBreakers
  BY <1>3, RespectUnfolds
<1>5. RolledOver.pnl = 0 /\ RolledOver.count = 0 /\ RolledOver.losses = 0
  BY <1>2 DEF RolledOver, Fresh
<1>6. Len(trades) \in Nat /\ \A j \in 1..Len(trades) : ~Counts(set, trades[j], at)
  BY <1>2
<1>7. Charged(set, RolledOver, at, trades, Entries)
  BY <1>5, <1>6, ChargedFresh
<1> QED
  BY <1>1, <1>2, <1>4, <1>7 DEF BreakersInvariant

LEMMA BreakersWarmUp == ASSUME BreakersInvariant, WarmUp PROVE BreakersInvariant'
<1>1. PassInvariant /\ PassInvariant' /\ PassTyped
  BY IdleStep DEF BreakersInvariant, PassInvariant
<1>2. at <= LastRow /\ at < set.warmUp /\ Advance /\ pos' = pos /\ risk' = risk /\ trades' = trades
  BY DEF WarmUp
<1>3. set' = set /\ at' = at + 1 /\ at \in Nat /\ set.warmUp \in Int
  BY <1>1, <1>2, AdvanceParts, PassParts DEF PassTyped
<1>4. trades' = << >> /\ pos' = NoTrade /\ risk' = Fresh(NoSession, FALSE)
  <2>1. at <= set.warmUp
    BY <1>2, <1>3
  <2>2. trades = << >> /\ pos = NoTrade /\ risk = Fresh(NoSession, FALSE)
    BY <2>1 DEF BreakersInvariant
  <2> QED
    BY <1>2, <2>2
<1>5. Len(trades') = 0
  BY <1>4
<1>6. Len(Entries') = 0 /\ DOMAIN Entries' = 1..0
  BY <1>1, <1>4, <1>5, EntriesPartsNext
<1>7. EntriesRespectBreakers'
  BY <1>6, RespectUnfolds
<1>8. RolledOver'.pnl = 0 /\ RolledOver'.count = 0 /\ RolledOver'.losses = 0
  BY <1>4 DEF RolledOver, Fresh
<1>9. Len(trades') \in Nat /\ \A j \in 1..Len(trades') : ~Counts(set', trades'[j], at')
  BY <1>5
<1>10. Charged(set', RolledOver', at', trades', Entries')
  BY <1>8, <1>9, ChargedFresh
<1>11. Charged(set, RolledOver, at, trades, Entries)'
  BY <1>10 DEF Charged, Tallied, Cooling, Streak, Served, Counts, Today, SumOfDay, SessionOf
<1> QED
  BY <1>1, <1>4, <1>7, <1>11 DEF BreakersInvariant

\* A bar out of a trade: only the confirmation counter moves, and an entry is checked
\* against the record of the bar.
LEMMA BreakersFlat == ASSUME BreakersInvariant, Watch \/ Break PROVE BreakersInvariant'
<1>1. PassInvariant /\ PassInvariant' /\ PassTyped /\ EntriesRespectBreakers
  BY WatchStep, IdleStep DEF BreakersInvariant, PassInvariant
<1>2. LastRow \in Nat /\ set \in Settings /\ risk \in Breakers /\ trades \in Seq(Bookings) /\ Settled
      /\ at \in 0..LastRow + 1
  BY <1>1, PassAssumption DEF PassTyped, PassInvariant
<1>3. at <= LastRow /\ at >= set.warmUp /\ Advance /\ pos = NoTrade /\ trades' = trades
  BY <1>2 DEF Watch, Break
<1>4. set' = set /\ at' = at + 1 /\ at \in Nat /\ current' \in Bars
  BY <1>1, <1>3, AdvanceParts
<1> DEFINE n == Len(trades)
<1>5. Charged(set, RolledOver, at, trades, Entries)
  BY <1>3 DEF BreakersInvariant
<1>6. RolledOver \in Breakers
  <2>1. TRUE \in BOOLEAN /\ 0 \in Int
    OBVIOUS
  <2> QED
    BY <1>2, <1>4, <2>1, RiskTyped
<1>7. PICK x \in Nat : risk' = [RolledOver EXCEPT !.streak = x]
  <2>1. CASE Break
    <3>1. risk' = RolledOver
      BY <2>1 DEF Break
    <3>2. RolledOver.streak \in Nat /\ RolledOver = [RolledOver EXCEPT !.streak = RolledOver.streak]
      BY <1>6 DEF Breakers
    <3> QED
      BY <3>1, <3>2
  <2>2. CASE Watch
    <3>1. PICK signal \in BOOLEAN : risk' = Counted(RolledOver, signal)
      BY <2>2 DEF Watch
    <3>2. RolledOver.streak \in Nat
      BY <1>6 DEF Breakers
    <3> DEFINE x == IF signal THEN RolledOver.streak + 1 ELSE 0
    <3>3. x \in Nat
      BY <3>2
    <3>4. risk' = [RolledOver EXCEPT !.streak = x]
      BY <3>1 DEF Counted
    <3> QED
      BY <3>3, <3>4
  <2> QED
    BY <2>1, <2>2
<1>8. /\ risk'.pnl = RolledOver.pnl /\ risk'.count = RolledOver.count /\ risk'.losses = RolledOver.losses
      /\ risk'.lossUntil = RolledOver.lossUntil /\ risk'.profitUntil = RolledOver.profitUntil
      /\ risk'.pauseUntil = RolledOver.pauseUntil /\ risk'.session = RolledOver.session /\ risk' \in Breakers
  BY <1>6, <1>7 DEF Breakers
<1>9. Charged(set, risk', at, trades, Entries)
  BY <1>5, <1>8, ChargedSame
<1>10. /\ n \in Nat /\ DOMAIN trades = 1..n /\ Len(Entries) = n /\ DOMAIN Entries = 1..n
       /\ \A k \in 1..n : Entries[k] = trades[k].since
  BY <1>1, <1>3, EntriesParts
<1>11. /\ DOMAIN Entries' = 1..Len(Entries') /\ Len(Entries') = IF pos' = NoTrade THEN n ELSE n + 1
       /\ \A k \in 1..n : Entries'[k] = trades[k].since
       /\ pos' # NoTrade => Entries'[n + 1] = pos'.since
  BY <1>1, <1>3, EntriesPartsNext
<1>12. \A k \in 1..n : Entries'[k] = Entries[k]
  BY <1>10, <1>11
<1>13. Charged(set, risk', at, trades', Entries') /\ EntriesRespectBreakers'
  <2>1. CASE pos' = NoTrade
    <3>1. Len(Entries') = n
      BY <2>1, <1>11
    <3>2. EntriesRespectBreakers'
      BY <1>1, <1>3, <1>4, <1>10, <1>12, <3>1, EntriesKept
    <3>3. \A j \in 0..n : j < Len(Entries') => j < Len(Entries) /\ Entries'[j + 1] = Entries[j + 1]
      <4>1. \A j \in 0..n : j < n => j + 1 \in 1..n
        BY <1>10
      <4> QED
        BY <1>10, <1>12, <3>1, <4>1
    <3>4. Charged(set, risk', at, trades, Entries')
      BY <1>9, <3>3, ChargedSame
    <3> QED
      BY <1>3, <3>2, <3>4
  <2>2. CASE pos' # NoTrade
    <3>1. PICK signal, gate \in BOOLEAN :
            LET r == Counted(RolledOver, signal)
            IN  /\ risk' = r
                /\ pos' = IF signal /\ r.streak >= set.confirm /\ gate /\ GatesClear(r) /\ Fillable
                          THEN Opened(current'.open) ELSE NoTrade
      BY <1>3, <2>2 DEF Watch, Break
    <3>2. GatesClear(risk') /\ Fillable /\ pos' = Opened(current'.open)
      BY <2>2, <3>1
    <3>3. pos'.since = at + 1
      BY <1>2, <1>4, <3>2, CandleParts, OpenedParts
    <3>4. set.intraday => SessionOf(at) = SessionOf(at + 1)
      BY <3>2 DEF Fillable, IsSessionLast
    <3>5. Len(Entries') = n + 1 /\ Entries'[n + 1] = at + 1
      BY <1>11, <2>2, <3>3
    <3>6. Charged(set, risk', at, trades, Entries') /\ Respected(set, trades, Entries', n + 1)
      BY <1>2, <1>4, <1>8, <1>9, <1>10, <1>12, <3>2, <3>4, <3>5, ChargedEntered
    <3>7. ASSUME NEW k \in 1..(n + 1) PROVE Respected(set', trades', Entries', k)
      <4>1. CASE k = n + 1
        BY <1>3, <1>4, <3>6, <4>1
      <4>2. CASE k # n + 1
        <5>1. k \in 1..n /\ k \in Nat \ {0}
          BY <1>10, <4>2
        <5>2. Respected(set, trades, Entries, k)
          BY <1>1, <1>10, <5>1, RespectUnfolds
        <5>3. \A j \in 1..k : Entries'[j] = Entries[j]
          BY <1>10, <1>12, <5>1
        <5>4. Respected(set, trades, Entries', k)
          BY <1>2, <5>1, <5>2, <5>3, RespectedKept
        <5> QED
          BY <1>3, <1>4, <5>4
      <4> QED
        BY <4>1, <4>2
    <3>8. EntriesRespectBreakers'
      BY <1>11, <3>5, <3>7, RespectUnfolds
    <3> QED
      BY <1>3, <3>6, <3>8
  <2> QED
    BY <2>1, <2>2
<1>14. set.intraday => risk'.session = SessionOf(at)
  BY <1>8, Rolled
<1>15. \A j \in DOMAIN trades' : trades'[j].decided <= at
  BY <1>2, <1>3 DEF Settled
<1> QED
  BY <1>1, <1>3, <1>13, <1>14, <1>15, BreakersNext

\* A bar that ends a trade: its ladder did, or an exit.
LEMMA BreakersBooked ==
    ASSUME BreakersInvariant, PassInvariant', Advance, at <= LastRow, at >= set.warmUp, pos # NoTrade, pos' = NoTrade,
           NEW t \in Bookings, t.decided = at, t.since = pos.since, trades' = Append(trades, t),
           risk' = Booked(RolledOver, t.pnl)
    PROVE  BreakersInvariant'
<1> DEFINE n == Len(trades)
<1>1. PassInvariant /\ PassTyped /\ EntriesRespectBreakers /\ Charged(set, RolledOver, at, trades, Entries)
  BY DEF BreakersInvariant, PassInvariant
<1>2. set \in Settings /\ risk \in Breakers /\ trades \in Seq(Bookings) /\ Settled
  BY <1>1 DEF PassTyped, PassInvariant
<1>3. set' = set /\ at' = at + 1 /\ at \in Nat
  BY <1>1, AdvanceParts
<1>4. t.pnl \in Int
  BY DEF Bookings
<1>5. RolledOver \in Breakers
  <2>1. TRUE \in BOOLEAN
    OBVIOUS
  <2> QED
    BY <1>2, <1>3, <1>4, <2>1, RiskTyped
<1>6. /\ n \in Nat /\ Len(Entries) = n + 1 /\ Entries[n + 1] = pos.since
      /\ \A k \in 1..n : Entries[k] = trades[k].since
  BY <1>1, EntriesParts
<1>7. /\ Len(trades') = n + 1 /\ trades'[n + 1] = t /\ \A i \in 1..n : trades'[i] = trades[i]
      /\ DOMAIN trades' = 1..(n + 1)
  BY <1>2, AppendParts
<1>8. Len(Entries') = n + 1 /\ \A k \in 1..(n + 1) : Entries'[k] = trades'[k].since
  BY <1>1, <1>7, EntriesPartsNext
<1> HIDE DEF n
<1>9. \A k \in 1..(n + 1) : Entries'[k] = Entries[k]
  <2>1. \A k \in 1..(n + 1) : k \in 1..n \/ k = n + 1
    BY <1>6
  <2> QED
    BY <1>6, <1>7, <1>8, <2>1
<1>10. EntriesRespectBreakers'
  <2>1. Len(Entries') <= Len(Entries) /\ \A j \in 1..Len(Entries') - 1 : trades'[j] = trades[j]
    BY <1>6, <1>7, <1>8
  <2> QED
    BY <1>1, <1>3, <1>8, <1>9, <2>1, EntriesKept
<1>11. Charged(set, risk', at, trades', Entries')
  <2>1. Charged(set, risk', at, trades', Entries)
    BY <1>1, <1>2, <1>3, <1>5, <1>6, ChargedBooked DEF n
  <2>2. \A j \in 0..Len(trades') : j < Len(Entries') => j < Len(Entries) /\ Entries'[j + 1] = Entries[j + 1]
    <3>1. \A j \in 0..(n + 1) : j < n + 1 => j + 1 \in 1..(n + 1)
      BY <1>6
    <3> QED
      BY <1>6, <1>7, <1>8, <1>9, <3>1
  <2>3. /\ risk'.pnl = risk'.pnl /\ risk'.count = risk'.count /\ risk'.losses = risk'.losses
        /\ risk'.lossUntil = risk'.lossUntil /\ risk'.profitUntil = risk'.profitUntil
        /\ risk'.pauseUntil = risk'.pauseUntil /\ (set.intraday => SessionOf(at) = SessionOf(at))
    OBVIOUS
  <2> QED
    BY ONLY <2>1, <2>2, <2>3, ChargedSame
<1>12. set.intraday => risk'.session = SessionOf(at)
  BY <1>4, <1>5, BookedParts, Rolled
<1>13. \A j \in DOMAIN trades' : trades'[j].decided <= at
  <2>1. \A j \in 1..n : trades[j].decided <= at
    BY <1>2 DEF Settled, n
  <2>2. \A j \in 1..(n + 1) : j \in 1..n \/ j = n + 1
    BY <1>6
  <2> QED
    BY <1>3, <1>7, <2>1, <2>2
<1> QED
  BY <1>1, <1>10, <1>11, <1>12, <1>13, BreakersNext

LEMMA BreakersHold == ASSUME BreakersInvariant, Hold PROVE BreakersInvariant'
<1>1. PassInvariant /\ PassInvariant' /\ PassTyped /\ EntriesRespectBreakers
  BY HoldStep DEF BreakersInvariant, PassInvariant
<1>2. at <= LastRow /\ at >= set.warmUp /\ Advance /\ pos # NoTrade
  BY DEF Hold
<1>3. set' = set /\ at' = at + 1 /\ at \in Nat /\ current' \in Bars
  BY <1>1, <1>2, AdvanceParts
<1>4. set \in Settings /\ current \in Bars /\ risk \in Breakers /\ trades \in Seq(Bookings) /\ Settled
  BY <1>1 DEF PassTyped, PassInvariant
<1> DEFINE q == Walked(AfterRungs).p
<1>5. PICK signal \in BOOLEAN :
        LET exits == Exits(Walked(AfterRungs), signal, current')
        IN  \/ Due(exits) # {} /\ Close(Walked(AfterRungs).p, exits[Min(Due(exits))])
            \/ Due(exits) = {} /\ pos' = Walked(AfterRungs).p /\ risk' = RolledOver /\ UNCHANGED trades
  BY DEF Hold
<1> DEFINE exits == Exits(Walked(AfterRungs), signal, current')
           x == exits[Min(Due(exits))]
<1>6. CASE Due(exits) # {} /\ Close(q, x)
  <2> DEFINE pnl == Blended(q, ExitFill(x.price))
             t == Trade(q, x.reason, x.when, pnl)
  <2>1. trades' = Append(trades, t) /\ risk' = Booked(RolledOver, pnl) /\ pos' = NoTrade
    BY <1>6 DEF Close
  <2>2. q.since = pos.since
    BY <1>1, <1>2, HeldOn
  <2>3. t.decided = at /\ t.pnl = pnl /\ t.since = pos.since
    BY <2>2 DEF Trade
  <2>4. t \in Bookings
    <3>1. trades' \in Seq(Bookings)
      BY <1>1 DEF PassInvariant, PassTyped
    <3> HIDE DEF t
    <3>2. Len(trades') = Len(trades) + 1 /\ Len(trades) \in Nat /\ trades'[Len(trades) + 1] = t
      BY <1>4, <2>1
    <3>3. Len(trades) + 1 \in DOMAIN trades'
      BY <3>1, <3>2
    <3> QED
      BY <3>1, <3>2, <3>3
  <2> HIDE DEF t, pnl, q, x, exits
  <2> QED
    BY <1>1, <1>2, <2>1, <2>3, <2>4, BreakersBooked
<1>7. CASE Due(exits) = {} /\ pos' = q /\ risk' = RolledOver /\ UNCHANGED trades
  <2> DEFINE n == Len(trades)
  <2>1. pos' # NoTrade => pos'.since = pos.since
    BY <1>1, <1>2, <1>7, HeldOn
  <2>2. trades' = trades /\ risk' = RolledOver
    BY <1>7
  <2> HIDE DEF q, exits, x
  <2>3. /\ n \in Nat /\ Len(Entries) = n + 1 /\ Entries[n + 1] = pos.since
        /\ \A k \in 1..n : Entries[k] = trades[k].since
    BY <1>1, <1>2, EntriesParts
  <2>4. /\ Len(Entries') = IF pos' = NoTrade THEN n ELSE n + 1
        /\ \A k \in 1..n : Entries'[k] = trades[k].since
        /\ pos' # NoTrade => Entries'[n + 1] = pos.since
    BY <1>1, <2>1, <2>2, EntriesPartsNext
  <2>5. Len(Entries') \in Nat /\ Len(Entries') <= Len(Entries)
    BY <2>3, <2>4
  <2>6. \A k \in 1..Len(Entries') : Entries'[k] = Entries[k]
    <3> SUFFICES ASSUME NEW k \in 1..Len(Entries') PROVE Entries'[k] = Entries[k]
      OBVIOUS
    <3>1. k \in 1..n \/ (k = n + 1 /\ pos' # NoTrade)
      BY <2>3, <2>4
    <3> QED
      BY <2>3, <2>4, <3>1
  <2>7. EntriesRespectBreakers'
    BY <1>1, <1>3, <2>2, <2>5, <2>6, EntriesKept
  <2>8. Charged(set, risk', at, trades', Entries')
    <3>1. \A j \in 0..n : j < Len(Entries') => j < Len(Entries) /\ Entries'[j + 1] = Entries[j + 1]
      <4>1. \A j \in 0..n : j < Len(Entries') => j + 1 \in 1..Len(Entries') /\ j < Len(Entries)
        BY <2>3, <2>5
      <4> QED
        BY <2>6, <4>1
    <3>2. Charged(set, RolledOver, at, trades, Entries)
      BY <1>2 DEF BreakersInvariant
    <3> QED
      BY <2>2, <3>1, <3>2, ChargedSame
  <2>9. set.intraday => risk'.session = SessionOf(at)
    BY <2>2, Rolled
  <2>10. \A j \in DOMAIN trades' : trades'[j].decided <= at
    BY <1>4, <2>2 DEF Settled
  <2> QED
    BY <1>1, <1>2, <2>7, <2>8, <2>9, <2>10, BreakersNext
<1> QED
  BY <1>5, <1>6, <1>7

LEMMA BreakersLadder == ASSUME BreakersInvariant, LadderDone PROVE BreakersInvariant'
<1> DEFINE t == Trade(AfterRungs, "ladder", at, Taken(AfterRungs))
<1>1. PassInvariant /\ PassInvariant'
  BY LadderDoneStep DEF BreakersInvariant
<1>2. /\ Advance /\ at <= LastRow /\ at >= set.warmUp /\ pos # NoTrade /\ pos' = NoTrade
      /\ trades' = Append(trades, t) /\ risk' = Booked(RolledOver, Taken(AfterRungs))
  BY DEF LadderDone, BookedByLadder
<1>3. AfterRungs.since = pos.since
  BY <1>1, <1>2, HeldOn
<1>4. t.decided = at /\ t.pnl = Taken(AfterRungs) /\ t.since = pos.since
  BY <1>3 DEF Trade
<1> HIDE DEF t
<1>5. t \in Bookings
  <2>1. trades' \in Seq(Bookings) /\ trades \in Seq(Bookings)
    BY <1>1 DEF PassInvariant, PassTyped
  <2>2. Len(trades') = Len(trades) + 1 /\ Len(trades) \in Nat /\ trades'[Len(trades) + 1] = t
    BY <1>2, <2>1
  <2>3. Len(trades) + 1 \in DOMAIN trades'
    BY <2>1, <2>2
  <2> QED
    BY <2>1, <2>2, <2>3
<1> QED
  BY <1>1, <1>2, <1>4, <1>5, BreakersBooked

\* After the last bar no trade is entered any more.
LEMMA BreakersEnd == ASSUME BreakersInvariant, EndOfData PROVE BreakersInvariant'
<1> DEFINE n == Len(trades)
           t == Trade(pos, "end_of_data", LastRow, Blended(pos, ExitFill(lastClose)))
<1>1. PassInvariant /\ PassInvariant' /\ PassTyped /\ EntriesRespectBreakers
  BY EndStep DEF BreakersInvariant, PassInvariant
<1>2. /\ at = LastRow + 1 /\ pos # NoTrade /\ pos' = NoTrade /\ set' = set /\ at' = at
      /\ trades' = Append(trades, t)
  BY DEF EndOfData
<1>3. t.since = pos.since
  BY DEF Trade
<1> HIDE DEF t
<1>4. /\ n \in Nat /\ Len(Entries) = n + 1 /\ Entries[n + 1] = pos.since
      /\ \A k \in 1..n : Entries[k] = trades[k].since
  BY <1>1, <1>2, EntriesParts
<1>5. Len(trades') = n + 1 /\ trades'[n + 1] = t /\ \A i \in 1..n : trades'[i] = trades[i]
  BY <1>1, <1>2 DEF PassTyped
<1>6. Len(Entries') = n + 1 /\ \A k \in 1..(n + 1) : Entries'[k] = trades'[k].since
  BY <1>1, <1>2, <1>5, EntriesPartsNext
<1> HIDE DEF n
<1>7. \A k \in 1..(n + 1) : Entries'[k] = Entries[k]
  <2>1. \A k \in 1..(n + 1) : k \in 1..n \/ k = n + 1
    BY <1>4
  <2> QED
    BY <1>3, <1>4, <1>5, <1>6, <2>1
<1>8. EntriesRespectBreakers'
  <2>1. Len(Entries') <= Len(Entries) /\ \A j \in 1..Len(Entries') - 1 : trades'[j] = trades[j]
    BY <1>4, <1>5, <1>6
  <2> QED
    BY <1>1, <1>2, <1>6, <1>7, <2>1, EntriesKept
<1>9. ~(at' <= LastRow) /\ ~(at' <= set'.warmUp)
  <2>1. LastRow \in Nat /\ at > set.warmUp /\ set.warmUp \in Int
    BY <1>1, <1>2, PassAssumption, PassParts DEF PassInvariant, Underway, PassTyped
  <2> QED
    BY <1>2, <2>1
<1> QED
  BY <1>1, <1>8, <1>9 DEF BreakersInvariant

LEMMA BreakersKept == BreakersInvariant /\ [PassNext]_passVars => BreakersInvariant'
<1> SUFFICES ASSUME BreakersInvariant, [PassNext]_passVars PROVE BreakersInvariant'
  OBVIOUS
<1>1. CASE WarmUp
  BY <1>1, BreakersWarmUp
<1>2. CASE Watch \/ Break
  BY <1>2, BreakersFlat
<1>3. CASE LadderDone
  BY <1>3, BreakersLadder
<1>4. CASE Hold
  BY <1>4, BreakersHold
<1>5. CASE EndOfData
  BY <1>5, BreakersEnd
<1>6. CASE UNCHANGED passVars
  <2>1. /\ set' = set /\ at' = at /\ current' = current /\ lastClose' = lastClose
        /\ pos' = pos /\ risk' = risk /\ trades' = trades
    BY <1>6 DEF passVars
  <2>2. PassInvariant'
    BY PassInvariantKept DEF BreakersInvariant
  <2>3. Entries' = Entries
    BY <2>1 DEF Entries
  <2>4. EntriesRespectBreakers'
    <3>1. \A k \in DOMAIN Entries : Respected(set, trades, Entries, k)
      BY RespectUnfolds DEF BreakersInvariant
    <3>2. \A k \in DOMAIN Entries' : Respected(set', trades', Entries', k)
      BY <2>1, <2>3, <3>1
    <3> QED
      BY <3>2, RespectUnfolds
  <2>5. RolledOver' = RolledOver
    BY <2>1 DEF RolledOver, Fresh, GapBlocked, SessionOf
  <2>6. at' <= LastRow => Charged(set', RolledOver', at', trades', Entries')
    BY <2>1, <2>3, <2>5 DEF BreakersInvariant
  <2>7. at' <= LastRow => Charged(set, RolledOver, at, trades, Entries)'
    BY <2>6 DEF Charged, Tallied, Cooling, Streak, Served, Counts, Today, SumOfDay, SessionOf
  <2>8. at' <= set'.warmUp => trades' = << >> /\ pos' = NoTrade /\ risk' = Fresh(NoSession, FALSE)
    BY <2>1 DEF BreakersInvariant
  <2>9. Fresh(NoSession, FALSE)' = Fresh(NoSession, FALSE)
    BY DEF Fresh
  <2> QED
    BY <2>2, <2>4, <2>7, <2>8, <2>9 DEF BreakersInvariant
<1> QED
  BY <1>1, <1>2, <1>3, <1>4, <1>5, <1>6 DEF PassNext

\* What the breakers remember is true of the trades in every state of a pass.
THEOREM BreakersAlwaysTold == PassSpec => []BreakersInvariant
BY BreakersStart, BreakersKept, PTL DEF PassSpec

\* Whoever closes the trades, no entry comes after the daily loss or the daily number of
\* trades is used up, none within a cooldown, and a streak of losses is followed by the pause.
THEOREM EntriesAlwaysRespectBreakers == PassSpec => []EntriesRespectBreakers
<1>1. BreakersInvariant => EntriesRespectBreakers
  BY DEF BreakersInvariant
<1> QED
  BY <1>1, BreakersAlwaysTold, PTL
=============================================================================
