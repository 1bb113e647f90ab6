--------------------------- MODULE MCLivePortfolio ---------------------------
EXTENDS LivePortfolio, TLC

CONSTANTS a, b, c, bank, it

mcSymbols == {a, b, c}

\* Two members of one sector, and one that has no sector.
mcSectorOf == (a :> bank) @@ (b :> bank) @@ (c :> NoSector)

Lot(s, amount) == [symbol |-> s, capital |-> amount, sector |-> NoSector]

\* Positions are rebuilt without a sector, as the evaluator does.
mcHoldings == {<<Lot(a, 5)>>, <<Lot(b, 7), Lot(c, 5)>>}

\* The broker reports one symbol in two lots: see the README, Divergences.
mcLots == {<<Lot(a, 3), Lot(a, 4)>>}

mcResults == {-3, 0, 2}
=============================================================================
