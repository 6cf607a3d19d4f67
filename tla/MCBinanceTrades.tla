-------------------------- MODULE MCBinanceTrades --------------------------
(* Two orders: the first may be filled in part, the second at once or not. *)
EXTENDS BinanceTrades

CONSTANTS o1, o2

TwoAndOne == [o \in {o1, o2} |-> IF o = o1 THEN 2 ELSE 1]
=============================================================================
