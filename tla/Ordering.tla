------------------------------- MODULE Ordering -------------------------------
(***************************************************************************)
(* The sort of a finite set whose elements are strictly ordered: the code  *)
(* sorts lists with a key and a tie-break, so the place of an element is   *)
(* the number of those before it.                                          *)
(***************************************************************************)
EXTENDS Integers, FiniteSets

InOrder(S, Before(_, _)) ==
    [k \in 1..Cardinality(S) |-> CHOOSE c \in S : Cardinality({d \in S : Before(d, c)}) = k - 1]
=============================================================================
