------------------------- MODULE MCBacktestLifecycle -------------------------
(* Instances of BacktestLifecycle. *)
EXTENDS BacktestLifecycle

CONSTANTS b1, b2
=============================================================================
