-------------------------------- MODULE MCDesk --------------------------------
(***************************************************************************)
(* Small instances of Desk: Ana is paid in Colombia, an amount that        *)
(* changes when its cell is touched, beside Luis in Mexico, whose amount   *)
(* is below the minimum, or needs a review, or is the only one.  Two       *)
(* transfers of all that the instruction asks for, or four halves          *)
(* recorded by hand.                                                       *)
(***************************************************************************)
EXTENDS Desk

TwoPayouts == {1, 2}
OneBatch == {"b1"}
AnaAndLuis == {"ana", "luis"}
BothInB1 == [p \in TwoPayouts |-> "b1"]
AnaThenLuis == [p \in TwoPayouts |-> IF p = 1 THEN "ana" ELSE "luis"]
AnaColombian == [n \in AnaAndLuis |-> IF n = "ana" THEN "CO" ELSE "MX"]
Pesos == {50000, 50020, 60000, 59983, 205}

Both(ana, luis) == [p \in TwoPayouts |-> IF p = 1 THEN ana ELSE luis]
LuisHighOrLow == {Both(50000, 60000), Both(50000, 205)}
TogetherOrApart == {Both(50000, 205), [p \in {2} |-> 60000]}
===============================================================================
