------------------------------ MODULE MCSimulator ------------------------------
(* Instances of Simulator: a handful of bars and of strategies. *)
EXTENDS Simulator

Minute(h, l, c) == [high |-> h, low |-> l, close |-> c]

mcBars ==
    {[open |-> 10, minutes |-> <<Minute(10, 10, 10)>>],                      \* flat
     [open |-> 10, minutes |-> <<Minute(13, 10, 12), Minute(13, 12, 13)>>],  \* up
     [open |-> 10, minutes |-> <<Minute(10, 8, 8), Minute(8, 6, 6)>>],       \* down
     [open |-> 10, minutes |-> <<Minute(14, 10, 12), Minute(12, 6, 8)>>],    \* up, then down
     [open |-> 14, minutes |-> <<Minute(15, 14, 14)>>]}                      \* gap up

Off == [distance |-> 0, after |-> 0]

Plain ==
    [short |-> FALSE, intraday |-> FALSE, intrabar |-> FALSE, cost |-> 0, stop |-> 3, target |-> 4,
     trail |-> Off, trailProfit |-> Off, ladder |-> << >>, maxHolding |-> 0, cutoff |-> SessionLength,
     cap |-> 0, maxTrades |-> 0, maxLosses |-> 0, coolLoss |-> 0, coolGain |-> 0, confirm |-> 1,
     warmUp |-> 0, gap |-> 1, skipGapUp |-> FALSE, skipGapDown |-> FALSE]

Rung(multiple, fraction, action) == [multiple |-> multiple, fraction |-> fraction, action |-> action]

mcSettings ==
    {\* intraday, limits of the day, minutes
     [Plain EXCEPT !.intraday = TRUE, !.intrabar = TRUE, !.cap = 400, !.maxTrades = 2, !.skipGapUp = TRUE],
     \* a short, positional, streak of losses and cooldowns
     [Plain EXCEPT !.short = TRUE, !.maxLosses = 2, !.coolGain = 2, !.confirm = 2],
     [Plain EXCEPT !.stop = 1, !.maxLosses = 2, !.coolLoss = 1],
     \* two rungs that leave nothing, given in the wrong order
     [Plain EXCEPT !.intraday = TRUE, !.cost = 1, !.stop = 1, !.target = 0, !.maxTrades = 1,
                   !.ladder = <<Rung(2, 50, "none"), Rung(1, 50, "move_sl_to_breakeven")>>],
     \* rungs that leave a rest, minutes, holding limit
     [Plain EXCEPT !.short = TRUE, !.intrabar = TRUE, !.target = 0, !.maxHolding = 2,
                   !.ladder = <<Rung(1, 30, "move_sl_to_breakeven"), Rung(2, 40, "move_sl_to_previous_tp")>>],
     \* both trailing lines, cutoff and warm-up
     [Plain EXCEPT !.intraday = TRUE, !.intrabar = TRUE, !.target = 0, !.cutoff = 2, !.warmUp = 1,
                   !.trail = [distance |-> 3, after |-> 2], !.trailProfit = [distance |-> 1, after |-> 3]],
     [Plain EXCEPT !.skipGapDown = TRUE, !.target = 0, !.trail = [distance |-> 2, after |-> 2]]}
=============================================================================
