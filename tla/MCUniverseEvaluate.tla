-------------------------- MODULE MCUniverseEvaluate -------------------------
EXTENDS UniverseEvaluate, TLC

CONSTANTS a, b, c, c1, c2

mcSymbols == {a, b, c}
mcTwoSymbols == {a, b}
mcOneCall == {c1}
mcTwoCalls == {c1, c2}

\* The resolver may drop two of three members, or all of them when its feed is down; in
\* the overlapping calls one of two.
mcMemberLists == {<<a, b, c>>, <<b, a>>, <<c>>, << >>}
mcShortLists == {<<a, b>>, <<b>>}

mcCallSymmetry == Permutations(mcTwoCalls)
=============================================================================
