--------------------------- MODULE UniverseResolver ---------------------------
(***************************************************************************)
(* resolve_universe (app/services/universe/resolver.py): from the rule of  *)
(* a dynamic universe to its members at one instant.                       *)
(*                                                                         *)
(* The pool comes from a source; the bars of every candidate are fetched   *)
(* by tasks that share a semaphore, each of which may fail on its own; the *)
(* rest (screen, floor, rank, take, breadth gate) has no await and is one  *)
(* step.  What the bars of a symbol say up to the instant is a reading,    *)
(* fixed for the run; NaN stands for a metric that cannot be computed.     *)
(* A rank by relative strength has a reference series only if the caller   *)
(* names one, which no caller in the program does: there is no fetch of it *)
(* and the rank of such a rule is NaN.                                     *)
(***************************************************************************)
EXTENDS Integers, FiniteSets, Sequences, SequencesExt, Ordering

CONSTANTS
    Tickers,           \* symbols of the market
    Sources,           \* lists that a source or pool provider may answer with
    MaxPool,           \* dynamic_universe_max_pool
    Rules,             \* [take, positions, minAdv, gate], all but take may be Unset
    MaxAssets,         \* dynamic_universe_max_assets
    Descending,        \* rank.order
    Readings,          \* [bars, screen, adv, rank, change, extremes]
    NaN,
    Unset,
    FetchConcurrency

\* UniverseBreadthGate.
Gates ==
    [metric : {"advance_decline", "new_high_new_low", "sector_strength", "market_trend"},
     ratio  : Nat \cup {Unset}]

ASSUME ResolverAssumption ==
    /\ MaxPool \in Nat /\ MaxAssets \in Nat \ {0} /\ FetchConcurrency \in Nat \ {0}
    /\ Descending \in BOOLEAN
    /\ \A r \in Rules : r.take \in Nat \ {0} /\ r.positions \in (Nat \ {0}) \cup {Unset}
                        /\ r.minAdv \in Nat \cup {Unset} /\ r.gate \in Gates \cup {Unset}
    /\ \A r \in Readings : /\ r.bars \in Nat /\ r.screen \in BOOLEAN
                           /\ r.adv \in Nat \cup {NaN} /\ r.rank \in Int \cup {NaN}
                           /\ r.change \in {-1, 0, 1} /\ r.extremes \subseteq {"high", "low"}
                           /\ r.extremes # {} => r.bars >= 252

VARIABLES
    stage,    \* how far the run has come
    rule,     \* the universe block of the strategy
    pool,
    market,   \* the reading of each symbol
    fetch,    \* "none", "waiting", "inflight", "failed", "answered" per symbol
    members,  \* in rank order
    dropped   \* <<symbol, reason>>

resolverVars == <<stage, rule, pool, market, fetch, members, dropped>>

ResolverInit ==
    /\ stage = "begin"
    /\ rule \in Rules
    /\ pool = << >>
    /\ market \in [Tickers -> Readings]
    /\ fetch = [s \in Tickers |-> "none"]
    /\ members = << >>
    /\ dropped = {}
-----------------------------------------------------------------------------
(* resolve_pool and the scale guard.                                       *)

Firsts(list) == {i \in DOMAIN list : \A j \in DOMAIN list : j < i => list[j] # list[i]}

\* _clean_symbols: the first of each symbol, in order.
Cleaned(list) ==
    LET kept == InOrder(Firsts(list), LAMBDA i, j : i < j)
    IN  [k \in 1..Cardinality(Firsts(list)) |-> list[kept[k]]]

Usable(p) == p # << >> /\ Len(p) <= MaxPool

ASSUME SourceAssumption == \A list \in Sources : Usable(Cleaned(list)) => list \in Seq(Tickers)

Begin ==
    /\ stage = "begin"
    /\ \E list \in Sources :
          /\ Usable(Cleaned(list))
          /\ pool' = Cleaned(list)
    /\ stage' = "fetch"
    /\ fetch' = [s \in Tickers |-> IF Contains(pool', s) THEN "waiting" ELSE "none"]
    /\ UNCHANGED <<rule, market, members, dropped>>

\* UniverseSourceError, ScaleGuardExceeded.
Refuse ==
    /\ stage = "begin"
    /\ \E list \in Sources : ~Usable(Cleaned(list))
    /\ stage' = "failed"
    /\ UNCHANGED <<rule, pool, market, fetch, members, dropped>>
-----------------------------------------------------------------------------
(* The tasks of asyncio.gather: they take the permits in the order in      *)
(* which they were created and are answered in any.                        *)

InFlight(f) == {s \in Tickers : f[s] = "inflight"}

Fetch(s) ==
    /\ stage = "fetch"
    /\ fetch[s] = "waiting"
    /\ \A i, j \in DOMAIN pool : pool[j] = s /\ i < j => fetch[pool[i]] # "waiting"
    /\ Cardinality(InFlight(fetch)) < FetchConcurrency
    /\ fetch' = [fetch EXCEPT ![s] = "inflight"]
    /\ UNCHANGED <<stage, rule, pool, market, members, dropped>>

FetchEnds(s) ==
    /\ fetch[s] = "inflight"
    /\ \E outcome \in {"answered", "failed"} : fetch' = [fetch EXCEPT ![s] = outcome]
    /\ UNCHANGED <<stage, rule, pool, market, members, dropped>>
-----------------------------------------------------------------------------
(* Screen, floor, rank, take and gate: each a part of the one before it.    *)

\* screen_frames.
Framed == {s \in ToSet(pool) : fetch[s] = "answered" /\ market[s].bars >= 2}

Screened == {s \in Framed : market[s].screen}

\* Mutant: a traded value that is not a number is not below the floor.
EligibleUnlessBelow ==
    {s \in Screened : rule.minAdv = Unset \/ market[s].adv = NaN \/ market[s].adv >= rule.minAdv}

Eligible ==
    {s \in Screened : rule.minAdv = Unset \/ (market[s].adv # NaN /\ market[s].adv >= rule.minAdv)}

Rankable == {s \in Eligible : market[s].rank # NaN}

Place(s) == CHOOSE i \in DOMAIN pool : pool[i] = s

\* The sort is stable in either direction: ties stay in the order of the pool.
RanksBefore(x, y) ==
    LET value(s) == IF Descending THEN -market[s].rank ELSE market[s].rank
    IN  value(x) < value(y) \/ (value(x) = value(y) /\ Place(x) < Place(y))

Ranked == InOrder(Rankable, RanksBefore)

Smaller(a, b) == IF a < b THEN a ELSE b

EffectiveTake == Smaller(rule.take, MaxAssets)

Taken == SubSeq(Ranked, 1, Smaller(EffectiveTake, Len(Ranked)))

\* evaluate_breadth, over every symbol with bars, screened out or not: advancers and
\* decliners, or those at the high and those at the low of their year.
Strong(s) == IF rule.gate.metric = "advance_decline" THEN market[s].change > 0 ELSE "high" \in market[s].extremes

Weak(s) == IF rule.gate.metric = "advance_decline" THEN market[s].change < 0 ELSE "low" \in market[s].extremes

MinRatio == IF rule.gate.ratio = Unset THEN 1 ELSE rule.gate.ratio

\* Without a feed for the measure, or a symbol to measure, the gate is closed.
GateOpens ==
    LET strong == Cardinality({s \in Framed : Strong(s)})
        weak   == Cardinality({s \in Framed : Weak(s)})
    IN  /\ rule.gate.metric \in {"advance_decline", "new_high_new_low"}
        /\ strong + weak > 0
        /\ strong >= MinRatio * (IF weak > 1 THEN weak ELSE 1)

BreadthOk == rule.gate # Unset => GateOpens

\* The first that holds.
Reason(s) ==
    IF fetch[s] = "failed" THEN "fetch_error"
    ELSE IF market[s].bars = 0 THEN "data_gap"
    ELSE IF market[s].bars = 1 THEN "insufficient_data"
    ELSE IF s \notin Screened THEN "screen_failed"
    ELSE IF s \notin Eligible THEN "ineligible_adv"
    ELSE IF s \notin Rankable THEN "rank_unavailable"
    ELSE "breadth_blocked"

\* What was ranked behind the last one taken is neither a member nor dropped.
Excluded == ToSet(pool) \ (IF BreadthOk THEN Rankable ELSE Rankable \ ToSet(Taken))

Resolve ==
    /\ stage = "fetch"
    /\ \A s \in ToSet(pool) : fetch[s] \in {"answered", "failed"}
    /\ members' = IF BreadthOk THEN Taken ELSE << >>
    /\ dropped' = {<<s, Reason(s)>> : s \in Excluded}
    /\ stage' = "resolved"
    /\ UNCHANGED <<rule, pool, market, fetch>>

ResolverNext == Begin \/ Refuse \/ Resolve \/ \E s \in Tickers : Fetch(s) \/ FetchEnds(s)

ResolverSpec == ResolverInit /\ [][ResolverNext]_resolverVars
-----------------------------------------------------------------------------
ResolverTypeOK ==
    /\ stage \in STRING
    /\ rule \in Rules
    /\ pool \in Seq(Tickers) /\ members \in Seq(Tickers)
    /\ fetch \in [Tickers -> {"none", "waiting", "inflight", "failed", "answered"}]

\* Those whose bars arrived, who pass screen and floor and who can be ranked.
Qualified ==
    {s \in ToSet(pool) :
        /\ fetch[s] = "answered" /\ market[s].bars >= 2 /\ market[s].screen
        /\ market[s].rank # NaN
        /\ rule.minAdv # Unset => market[s].adv # NaN /\ market[s].adv >= rule.minAdv}

StandsBefore(x, y) ==
    \/ IF Descending THEN market[x].rank > market[y].rank ELSE market[x].rank < market[y].rank
    \/ market[x].rank = market[y].rank /\ Place(x) < Place(y)

Best == {s \in Qualified : Cardinality({x \in Qualified : StandsBefore(x, s)}) < Smaller(rule.take, MaxAssets)}

\* A symbol is a member exactly when it qualifies and fewer of those who do than the
\* effective take stand before it; a failed fetch, a metric that is not a number and a
\* closed gate admit nobody; members come in rank order, and only those who qualified are
\* left without a reason (resolver.py:9-20: fail-closed, and the cap "applied AFTER
\* ranking").
ResolutionRight ==
    stage = "resolved" =>
        /\ ToSet(members) = (IF BreadthOk THEN Best ELSE {})
        /\ \A i, j \in DOMAIN members : i < j => StandsBefore(members[i], members[j])
        /\ {d[1] : d \in dropped} = (ToSet(pool) \ Qualified) \cup (IF BreadthOk THEN {} ELSE Best)
=============================================================================
