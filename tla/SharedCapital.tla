---------------------------- MODULE SharedCapital ----------------------------
(***************************************************************************)
(* What a portfolio manager promises, whatever its sizing rule: a position *)
(* is opened only into a free slot and only with capital that is free, and *)
(* closing it returns its capital with the result of the trade.            *)
(* LivePortfolio and BacktestPortfolio both implement this specification,  *)
(* which is the content of the claim that backtest and live use the same   *)
(* admission logic (docstrings of both portfolio managers).                *)
(*                                                                         *)
(* free is the uncommitted capital, stake the capital of each open symbol. *)
(***************************************************************************)
EXTENDS Integers, FiniteSets

CONSTANTS Symbols, Slots

VARIABLES free, stake

\* The manager may start from positions that are already open.
Init ==
    /\ free \in Nat
    /\ DOMAIN stake \subseteq Symbols
    /\ Cardinality(DOMAIN stake) <= Slots

Open(s) ==
    /\ s \notin DOMAIN stake
    /\ Cardinality(DOMAIN stake) < Slots
    /\ \E amount \in 1..free :
          /\ free' = free - amount
          /\ stake' = [x \in DOMAIN stake \cup {s} |->
                          IF x = s THEN amount ELSE stake[x]]

\* The trade returns what it put in plus its result; it never costs more than
\* it put in.
Close(s) ==
    /\ s \in DOMAIN stake
    /\ free' >= free
    /\ free' \in Nat
    /\ stake' = [x \in DOMAIN stake \ {s} |-> stake[x]]

Next == \E s \in Symbols : Open(s) \/ Close(s)

Spec == Init /\ [][Next]_<<free, stake>>
=============================================================================
