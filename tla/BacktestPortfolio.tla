-------------------------- MODULE BacktestPortfolio --------------------------
(***************************************************************************)
(* PortfolioManager.run (quant_engine/engine/portfolio.py): the replay of  *)
(* the members' simulated trades on one clock under one pool of capital.   *)
(*                                                                         *)
(* Candidates are taken in order of entry, then symbol.  Before each one,  *)
(* and once at the end, the positions that have exited are released one by *)
(* one, oldest exit first; an equity event is recorded for every release   *)
(* and every admission, and the curve keeps the last event of each time.   *)
(* Amounts are whole rupees, a quotient is rounded down.                   *)
(***************************************************************************)
EXTENDS Integers, FiniteSets, Sequences, SequencesExt, Ordering

CONSTANTS
    Symbols,
    StartingCapital,
    MaxSlots,        \* the most slots a manager is constructed with
    RiskPct,
    SectorCapPct,    \* sector_cap_pct, or NoCap
    NoCap,
    NoSector,
    Sectors,
    SectorOf,        \* sector_map, where a run has one
    SymbolRank,      \* the order of the symbols, for the tie-break
    TradeLists       \* simulated trades of one symbol: [entry, exit, pct, stop]

\* The trades of a symbol come in the order of their entries, and none ends before it
\* begins.  A pass of the simulator holds one position at a time, but a strategy with a
\* short leg has two passes (runner.py:448-476).  A loss is at most the capital put in.
ASSUME ReplayAssumption ==
    /\ StartingCapital \in Nat \ {0}
    /\ MaxSlots \in Nat \ {0}
    /\ RiskPct \in Nat
    /\ IsFiniteSet(Symbols)
    /\ SymbolRank \in [Symbols -> Int] /\ \A s, x \in Symbols : SymbolRank[s] = SymbolRank[x] => s = x
    /\ SectorOf \in [Symbols -> Sectors \cup {NoSector}] /\ NoSector \notin Sectors
    /\ \A list \in TradeLists :
          /\ list \in Seq([entry : Nat, exit : Nat, pct : Int, stop : Nat])
          /\ \A i \in DOMAIN list : list[i].entry <= list[i].exit /\ list[i].pct >= -100
          /\ \A i, j \in DOMAIN list : i < j => list[i].entry <= list[j].entry

VARIABLES
    manager,  \* its slots, its sizing mode, and whether it has a sector map
    todo,     \* candidates not yet examined, in order
    phase,    \* "idle", "release", "decide" or "done"
    now,      \* argument of _release_until
    leaving,  \* positions of the release loop still to be closed, in order
    open,     \* open_positions with their allocation, as a set
    cash,
    sectors,  \* sector_allocated
    fills,    \* closed positions with their result
    events    \* equity events

replayVars == <<manager, todo, phase, now, leaving, open, cash, sectors, fills, events>>

TotalOf(S) == SumFunction([p \in S |-> p.alloc])
ResultOf(S) == SumFunction([f \in S |-> f.result])

Event(ts, equity) == [ts |-> ts, equity |-> equity]

\* _equity
Equity == cash + TotalOf(open)

\* Mutant: a position that exits at the time of the entry still counts as open.
ExitedBefore(t) == {p \in open : p.exit < t}

ExitedBy(t) == {p \in open : p.exit <= t}

\* The oldest exit first; the order among equal exits is the order of admission.
LeavesFirst(p, q) == p.exit < q.exit \/ (p.exit = q.exit /\ p.seq < q.seq)

InExitOrder(S) == InOrder(S, LeavesFirst)

Earlier(c, d) ==
    \/ c.entry < d.entry
    \/ c.entry = d.entry /\ SymbolRank[c.symbol] < SymbolRank[d.symbol]
    \/ c.entry = d.entry /\ c.symbol = d.symbol /\ c.nth < d.nth

Candidate(s, nth, trade) ==
    [symbol |-> s, nth |-> nth, entry |-> trade.entry, exit |-> trade.exit,
     pct |-> trade.pct, stop |-> trade.stop]

\* The trades f of some symbols.
Candidates(f) == UNION {{Candidate(s, i, f[s][i]) : i \in DOMAIN f[s]} : s \in DOMAIN f}

Managers == [slots : 1..MaxSlots, sizing : {"equal_weight", "risk_based"}, sectorMap : BOOLEAN]

SectorIn(symbol) == IF manager.sectorMap THEN SectorOf[symbol] ELSE NoSector

ReplayInit ==
    /\ manager = [slots |-> 0, sizing |-> "equal_weight", sectorMap |-> FALSE]
    /\ todo = << >>
    /\ phase = "idle"
    /\ now = 0
    /\ leaving = << >>
    /\ open = {}
    /\ cash = StartingCapital
    /\ sectors = [x \in Sectors |-> 0]
    /\ fills = {}
    /\ events = << >>

\* A manager m is given the candidates C and starts its clock at the first entry; without a
\* candidate the curve is one event at the epoch.
Run(C, m) ==
    LET ordered == InOrder(C, Earlier)
    IN  /\ phase = "idle"
        /\ m \in Managers
        /\ manager' = m
        /\ todo' = ordered
        /\ phase' = "release"
        /\ now' = IF ordered = << >> THEN 0 ELSE ordered[1].entry
        /\ events' = <<Event(now', StartingCapital)>>
        /\ UNCHANGED <<leaving, open, cash, sectors, fills>>
-----------------------------------------------------------------------------
(* _release_until.                                                         *)

SectorsAfter(p) ==
    IF SectorIn(p.symbol) = NoSector THEN sectors
    ELSE [sectors EXCEPT ![SectorIn(p.symbol)] = IF @ > p.alloc THEN @ - p.alloc ELSE 0]

Realised(p) == (p.alloc * p.pct) \div 100

Proceeds(p) == p.alloc + Realised(p)

\* The equity recorded with a release: cash and the positions that exit after
\* now.  The positions that have exited but are still to be released in this
\* loop are in neither.
EquityAtRelease(p) == cash + Proceeds(p) + TotalOf(open \ ExitedBy(now))

Release ==
    /\ phase = "release"
    /\ leaving = << >>
    /\ ExitedBy(now) # {}
    /\ leaving' = InExitOrder(ExitedBy(now))
    /\ UNCHANGED <<manager, todo, phase, now, open, cash, sectors, fills, events>>

ReleaseOne ==
    /\ leaving # << >>
    /\ LET p == Head(leaving)
       IN  /\ cash' = cash + Proceeds(p)
           /\ sectors' = SectorsAfter(p)
           /\ fills' = fills \cup {[seq |-> p.seq, exit |-> p.exit, result |-> Realised(p)]}
           /\ events' = Append(events, Event(p.exit, EquityAtRelease(p)))
           /\ open' = open \ {p}
    /\ leaving' = Tail(leaving)
    /\ UNCHANGED <<manager, todo, phase, now>>

\* Nothing is left to release: the next candidate is examined, or the run ends.
Released ==
    /\ phase = "release"
    /\ leaving = << >>
    /\ ExitedBy(now) = {}
    /\ phase' = IF todo = << >> THEN "done" ELSE "decide"
    /\ UNCHANGED <<manager, todo, now, leaving, open, cash, sectors, fills, events>>
-----------------------------------------------------------------------------
(* The admission of one candidate.                                         *)

Target(c) ==
    IF manager.sizing = "risk_based" /\ c.stop > 0
    THEN (RiskPct * Equity) \div c.stop
    ELSE Equity \div manager.slots

\* Mutant: the allocation may use capital that is locked in other positions.
AllocationOfEquity(c) == Target(c)

Allocation(c) == IF Target(c) < cash THEN Target(c) ELSE cash

SlotFree == Cardinality(open) < manager.slots

WithinSectorCap(c) ==
    SectorCapPct # NoCap /\ SectorIn(c.symbol) # NoSector =>
        100 * (sectors[SectorIn(c.symbol)] + Allocation(c)) <= SectorCapPct * Equity

Admissible(c) == SlotFree /\ Allocation(c) > 0 /\ WithinSectorCap(c)

\* After the last candidate the loop releases up to the last exit.
\* Mutant: the positions still open at the end are not flushed.
NoFlush(still, rest, t) == IF rest = << >> THEN t ELSE rest[1].entry

NextNow(still, rest, t) ==
    IF rest # << >> THEN rest[1].entry
    ELSE IF still = {} THEN t
    ELSE (CHOOSE p \in still : \A q \in still : q.exit <= p.exit).exit

Admit ==
    /\ phase = "decide"
    /\ LET c == Head(todo)
           p == [seq |-> Len(events), symbol |-> c.symbol, exit |-> c.exit,
                 alloc |-> Allocation(c), pct |-> c.pct]
           held == open \cup {p}
       IN  /\ Admissible(c)
           /\ cash' = cash - Allocation(c)
           /\ open' = held
           /\ sectors' = IF SectorIn(c.symbol) = NoSector THEN sectors
                         ELSE [sectors EXCEPT ![SectorIn(c.symbol)] = @ + Allocation(c)]
           /\ events' = Append(events, Event(c.entry, cash - p.alloc + TotalOf(held)))
           /\ now' = NextNow(held, Tail(todo), now)
    /\ todo' = Tail(todo)
    /\ phase' = "release"
    /\ UNCHANGED <<manager, leaving, fills>>

\* SkippedEntry, with the reason in skip_counts.
Skip ==
    /\ phase = "decide"
    /\ ~Admissible(Head(todo))
    /\ now' = NextNow(open, Tail(todo), now)
    /\ todo' = Tail(todo)
    /\ phase' = "release"
    /\ UNCHANGED <<manager, leaving, open, cash, sectors, fills, events>>

Replay == Release \/ ReleaseOne \/ Released \/ Admit \/ Skip

ReplaySpec ==
    /\ ReplayInit
    /\ [][Replay \/ \E f \in [Symbols -> TradeLists], m \in Managers : Run(Candidates(f), m)]_replayVars
-----------------------------------------------------------------------------
(* _build_result: events sorted by time, the last one of a time wins.      *)

Times == {events[i].ts : i \in DOMAIN events}

CurveAt(t) ==
    events[CHOOSE i \in DOMAIN events :
              events[i].ts = t /\ \A j \in DOMAIN events : events[j].ts = t => j <= i].equity

LastTime == CHOOSE t \in Times : \A u \in Times : u <= t

EndingCapital == CurveAt(LastTime)
-----------------------------------------------------------------------------
ReplayTypeOK ==
    /\ phase # "idle" => manager \in Managers
    /\ phase \in {"idle", "release", "decide", "done"}
    /\ cash \in Nat
    /\ Cardinality(open) <= manager.slots
    /\ sectors \in [Sectors -> Nat]

\* Cash and the capital of the open positions are the starting capital and the
\* realised results at every step of the replay; at its end every candidate that
\* was taken is closed, and the reported ending capital is the cash that is there.
CapitalConserved ==
    /\ Equity = StartingCapital + ResultOf(fills)
    /\ phase = "done" => open = {} /\ EndingCapital = cash

\* The running ledger of a sector, kept by additions and clamped subtractions, is
\* the capital its open positions really hold.
SectorLedgerExact ==
    \A x \in Sectors : sectors[x] = TotalOf({p \in open : SectorIn(p.symbol) = x})

\* Cash, positions and sectors are three ledgers of the same capital, each kept
\* by its own additions and subtractions: they agree at every step of the replay.
LedgersExact == CapitalConserved /\ SectorLedgerExact

\* A candidate competes with the positions that are really open when it enters:
\* every exit up to that time has given its slot and capital back, none after it, and
\* no more are ever open than the manager has slots.
DecidedOnTime ==
    /\ Cardinality(open) <= manager.slots
    /\ phase = "decide" =>
        /\ \A p \in open : p.exit > Head(todo).entry
        /\ \A f \in fills : f.exit <= Head(todo).entry

\* "The equity curve is the realised shared-pool equity through time (open
\* positions marked at cost ...)" (portfolio.py:21-22): at each of its times the
\* curve is the starting capital and the results realised by then.
CurveMarkedAtCost ==
    phase = "done" =>
        \A t \in Times :
            CurveAt(t) = StartingCapital + ResultOf({f \in fills : f.exit <= t})

\* The replay keeps the promise of SharedCapital, as LivePortfolio does ("Same admission
\* logic as the backtest manager (parity)", docs/dynamic-universe-phase-d.md:13): one
\* position per symbol, only into a free slot, only with free cash.  The manager itself
\* does not ask whether the symbol has a position: the trades of one pass do not overlap.
Stake ==
    [s \in {p.symbol : p \in open} |-> (CHOOSE p \in open : p.symbol = s).alloc]

Capital == INSTANCE SharedCapital
    WITH Slots <- MaxSlots, free <- cash, stake <- Stake

RefinesSharedCapital == Capital!Init /\ [][Capital!Next]_<<cash, Stake>>
=============================================================================
