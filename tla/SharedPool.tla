----------------------------- MODULE SharedPool ------------------------------
(***************************************************************************)
(* The arithmetic of LivePortfolioManager                                  *)
(* (app/services/execution/portfolio_manager.py): one pool of capital      *)
(* shared by every member of a dynamic deployment.  A pool is a record     *)
(* with                                                                    *)
(*   positions - the dict _positions: a function whose domain is the set   *)
(*               of open symbols, giving each its capital and sector       *)
(*   cash      - the float _cash                                           *)
(* Amounts are whole rupees; a quotient of two amounts is rounded down.    *)
(* The operators return values and change nothing, so that the class alone *)
(* (LivePortfolio) and the evaluation tick that drives it                  *)
(* (UniverseEvaluate) share them.                                          *)
(***************************************************************************)
EXTENDS Integers, FiniteSets, Sequences, FiniteSetsExt

CONSTANTS
    TotalCapital,   \* capital of the deployment
    MaxPositions,   \* position cap
    SizingMode,     \* "equal_weight" or "risk_based"
    RiskPct,        \* risk_per_trade_pct, in percent
    SectorCapPct,   \* sector_cap_pct in percent, or NoCap for None
    NoCap,          \* sector_cap_pct is None
    NoSector,       \* a position without a sector
    NoStop          \* stop_distance_frac is None

\* __post_init__ refuses any other pool.
ASSUME PoolAssumption ==
    /\ TotalCapital \in Nat \ {0}
    /\ MaxPositions \in Nat \ {0}
    /\ SizingMode \in {"equal_weight", "risk_based"}
    /\ RiskPct \in Nat
    /\ SectorCapPct \in Nat \cup {NoCap}

NewPool == [positions |-> << >>, cash |-> TotalCapital]

Held(pool) == DOMAIN pool.positions

CapitalOf(pool, S) == SumFunction([s \in S |-> pool.positions[s].capital])

\* equity: free cash and the capital of the open positions, at cost.
Equity(pool) == pool.cash + CapitalOf(pool, Held(pool))

SectorAllocated(pool, sector) ==
    CapitalOf(pool, {s \in Held(pool) : pool.positions[s].sector = sector})

\* _target_allocation.  A stop distance is in percent of the entry price.
TargetAllocation(pool, stop) ==
    IF SizingMode = "risk_based" /\ stop # NoStop
    THEN (RiskPct * Equity(pool)) \div stop
    ELSE Equity(pool) \div MaxPositions

Smaller(a, b) == IF a < b THEN a ELSE b

\* Mutant: the target is not capped by the free cash.
AllocationUncapped(pool, stop) == TargetAllocation(pool, stop)

Allocation(pool, stop) == Smaller(TargetAllocation(pool, stop), pool.cash)

WithinSectorCap(pool, amount, sector) ==
    \/ SectorCapPct = NoCap
    \/ sector = NoSector
    \/ 100 * (SectorAllocated(pool, sector) + amount) <= SectorCapPct * Equity(pool)

\* Mutant: the cap is tested with > instead of >=.
VerdictOneMore(pool, symbol, stop, sector) ==
    IF symbol \in Held(pool) THEN "already_open"
    ELSE IF Cardinality(Held(pool)) > MaxPositions THEN "position_cap"
    ELSE IF Allocation(pool, stop) <= 0 THEN "insufficient_capital"
    ELSE IF ~WithinSectorCap(pool, Allocation(pool, stop), sector) THEN "sector_cap"
    ELSE "admit"

\* evaluate_entry: the skip reason, or "admit".  The order of the tests is the
\* order of the early returns.
Verdict(pool, symbol, stop, sector) ==
    IF symbol \in Held(pool) THEN "already_open"
    ELSE IF Cardinality(Held(pool)) >= MaxPositions THEN "position_cap"
    ELSE IF Allocation(pool, stop) <= 0 THEN "insufficient_capital"
    ELSE IF ~WithinSectorCap(pool, Allocation(pool, stop), sector) THEN "sector_cap"
    ELSE "admit"

\* admit, which does nothing for a symbol that is already open.
Admit(pool, symbol, amount, sector) ==
    IF symbol \in Held(pool)
    THEN pool
    ELSE [positions |-> [s \in Held(pool) \cup {symbol} |->
                            IF s = symbol
                            THEN [capital |-> amount, sector |-> sector]
                            ELSE pool.positions[s]],
          cash      |-> pool.cash - amount]

\* Mutant: the result of the trade does not reach the pool.
ReleaseAtCost(pool, symbol, pnl) ==
    IF symbol \notin Held(pool)
    THEN pool
    ELSE [positions |-> [s \in Held(pool) \ {symbol} |-> pool.positions[s]],
          cash      |-> pool.cash + pool.positions[symbol].capital]

\* release, which does nothing for a symbol that is not open.
Release(pool, symbol, pnl) ==
    IF symbol \notin Held(pool)
    THEN pool
    ELSE [positions |-> [s \in Held(pool) \ {symbol} |-> pool.positions[s]],
          cash      |-> pool.cash + pool.positions[symbol].capital + pnl]

\* rebuild from a list of positions.  The dict keeps the last position of a
\* symbol; the cash pays for every position of the list.
LastOf(list, symbol) ==
    CHOOSE i \in DOMAIN list :
        /\ list[i].symbol = symbol
        /\ \A j \in DOMAIN list : list[j].symbol = symbol => j <= i

Rebuild(list) ==
    [positions |-> [s \in {list[i].symbol : i \in DOMAIN list} |->
                       [capital |-> list[LastOf(list, s)].capital,
                        sector  |-> list[LastOf(list, s)].sector]],
     cash      |-> TotalCapital - SumFunction([i \in DOMAIN list |-> list[i].capital])]
=============================================================================
