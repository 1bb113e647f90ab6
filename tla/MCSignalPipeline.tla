--------------------------- MODULE MCSignalPipeline ---------------------------
(* Instances of SignalPipeline for TLC: strategies that use every kind of   *)
(* value a condition can read, and the shapes of a minute.                  *)
EXTENDS SignalPipeline

Two == Number(2)

One == Number(1)

Close == Name("CLOSE")

\* Conditions are written as the table of their nodes, operands by their places.
Formula(condition, frame) ==
    [condition |-> condition, frame |-> frame, htf |-> {}, reference |-> FALSE]

mcFormulas ==
    {Formula(<<Close, Two, Call("SMA", <<2>>), Compare(1, ">", 3)>>, 2),
     Formula(<<Close, Two, Call("OPENING_RANGE_HIGH", <<2>>), Compare(1, ">=", 3)>>, 1),
     Formula(<<Close, One, Call("OPENING_RANGE_LOW", <<2>>), Compare(1, "<", 3),
               Call("PREV", <<1, 2>>), Compare(5, "<=", 1), Not(6), Boolean(4, "OR", 7)>>, 2),
     Formula(<<Name("HIGH"), Two, Call("SMA", <<1, 2>>), Call("SMA", <<2>>), One,
               Call("PREV", <<4, 5>>), Compare(3, ">", 6)>>, 1),
     Formula(<<Name("HIGH"), Two, Call("MAX", <<1, 2>>), Name("LOW"), Call("MIN", <<4, 2>>),
               Binary("-", 3, 5), Number(0), Negative(7), Compare(6, "!=", 8)>>, 2)}

Is(p) == <<Two, Name(p), Binary("*", 1, 2), Compare(3, "==", 1)>>

mcPatterns ==
    {Formula(Is("IS_HIGHER_HIGH"), 1),
     Formula(Is("IS_LOWER_LOW"), 1),
     Formula(<<Name("IS_BULLISH_FVG"), Name("IS_BEARISH_FVG"), Boolean(1, "OR", 2)>>, 1),
     Formula(<<Two, Name("IS_BOS_BULLISH"), Name("IS_BOS_BEARISH"), Binary("*", 1, 2), Compare(4, "==", 1),
               Binary("*", 1, 3), Compare(6, "==", 1), Boolean(5, "OR", 7)>>, 1)}

mcGated ==
    {[condition |-> <<Close, Two, Compare(1, ">=", 2)>>, frame |-> 1, reference |-> FALSE,
      htf |-> {[frame |-> 2, condition |-> <<Close, One, Call("PREV", <<1, 2>>), Compare(1, ">", 3)>>]}],
     [condition |-> <<Close, Name("REF_CLOSE"), Compare(1, "<", 2), One, Call("RS", <<4>>),
                      Number(100), Compare(5, ">", 6), Boolean(3, "OR", 7)>>,
      frame |-> 2, htf |-> {}, reference |-> TRUE]}

mcStrategies == mcFormulas \cup mcPatterns \cup mcGated

Low == [high |-> 1, low |-> 1, close |-> 1]

Middle == [high |-> 3, low |-> 1, close |-> 2]

High == [high |-> 3, low |-> 3, close |-> 3]

mcShapes == {Low, Middle, High}

Alone == [main : mcShapes \cup {NoTrade}, reference : {NoTrade}]

\* Either trades without the other, or both do, in step or against each other.
Together ==
    {[main |-> Low, reference |-> High], [main |-> Middle, reference |-> Middle],
     [main |-> High, reference |-> NoTrade], [main |-> NoTrade, reference |-> Low],
     [main |-> NoTrade, reference |-> NoTrade]}

mcPrints == [declared \in BOOLEAN |-> IF declared THEN Together ELSE Alone]

\* What the proofs assume of the strategies is true of these.
ASSUME StrategiesFit == LooksBack /\ LookbackSuffices
=============================================================================
