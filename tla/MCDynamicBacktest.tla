-------------------------- MODULE MCDynamicBacktest --------------------------
EXTENDS DynamicBacktest

CONSTANTS sa, sb, sc, sd, bank

mcSymbols == {sa, sb, sc}
mcSectors == {bank}
mcSectorOf == (sa :> bank) @@ (sb :> bank) @@ (sc :> NoSector)
mcSymbolRank == (sa :> 1) @@ (sb :> 2) @@ (sc :> 3)

\* A pool with a repeated symbol, a small one, an empty one, one beyond the guard.
mcSources == {<<sb, sa, sb, sc>>, <<sc, sa>>, << >>, <<sa, sb, sc, sd>>}

Gate(metric, ratio) == [metric |-> metric, ratio |-> ratio]

\* More wanted than the platform allows; a floor, a gate and fewer than there are; the
\* other gates.
mcRules ==
    {[take |-> 5, positions |-> Unset, minAdv |-> Unset, gate |-> Unset],
     [take |-> 2, positions |-> 1, minAdv |-> 2, gate |-> Gate("advance_decline", Unset)],
     [take |-> 1, positions |-> 1, minAdv |-> 2, gate |-> Gate("new_high_new_low", 2)],
     [take |-> 1, positions |-> 1, minAdv |-> 2, gate |-> Gate("market_trend", 0)]}

Reading(bars, screen, adv, rank, change, extremes) ==
    [bars |-> bars, screen |-> screen, adv |-> adv, rank |-> rank, change |-> change, extremes |-> extremes]

\* Good and better, flat for a year and below the floor, metrics that cannot be computed, a screen that is not
\* passed, too few bars, none.
mcReadings ==
    {Reading(252, TRUE, 2, 1, 1, {"high"}), Reading(252, TRUE, 4, 2, -1, {}),
     Reading(252, TRUE, 1, 3, 0, {"high", "low"}), Reading(2, TRUE, NaN, 3, -1, {}),
     Reading(2, TRUE, 3, NaN, 1, {}), Reading(253, FALSE, 3, 3, -1, {"low"}),
     Reading(1, TRUE, 3, 3, 1, {}), Reading(0, TRUE, NaN, NaN, 0, {})}

Trade(entry, exit, pct, stop) == [entry |-> entry, exit |-> exit, pct |-> pct, stop |-> stop]

\* One side.  No trade; a trade without a stop; a total loss; a trade left and re-entered at
\* the same time; one entered in the warm-up, then one entered and left at the same
\* time; a narrow stop, whose target is more than the pool has.
mcTradeLists ==
    {<< >>,
     <<Trade(1, 3, 50, 0)>>,
     <<Trade(1, 2, -100, 20), Trade(4, 5, 0, 20)>>,
     <<Trade(1, 3, -50, 20), Trade(3, 4, 50, 40)>>,
     <<Trade(0, 1, 30, 20), Trade(2, 2, 50, 40), Trade(3, 5, 0, 10)>>,
     <<Trade(2, 4, 100, 5)>>}

\* Two sides, whose trades overlap: see the README, Divergences.
mcBothSides == {<< >>, <<Trade(1, 4, 50, 20), Trade(2, 3, 0, 20)>>}
=============================================================================
