-------------------------- MODULE MCUniverseRefresh --------------------------
EXTENDS UniverseRefresh, TLC

CONSTANTS a, b, r1, r2

\* An empty resolution is the one whose breadth gate admitted nobody.
mcSmall == {{}, {a}, {b}}
=============================================================================
