------------------------- MODULE MCStrategyEvaluator --------------------------
(* A strategy with a ladder of four rungs, one with the first two of them, *)
(* which leave half of the position, and one with a single target and an   *)
(* exit signal.                                                            *)
EXTENDS StrategyEvaluator

mcStrategies == {[rungs |-> 1..4, exitSignal |-> FALSE], [rungs |-> 1..2, exitSignal |-> FALSE],
                 [rungs |-> {}, exitSignal |-> TRUE]}
mcReward == <<1, 2, 3, 4>>
mcPercent == <<25, 25, 25, 25>>
mcAction == <<"move_sl_to_breakeven", "move_sl_to_previous_tp", "move_sl_to_breakeven", "none">>

\* The ladders of this instance are such as the theorems of the evaluator are about; of
\* the four shares that are bought, one sells all and the other half.
ASSUME LadderAssumption ==
    LadderFits /\ {LadderQuantity(s, 4) : s \in Strategies} = {0, 2, 4}
=============================================================================
