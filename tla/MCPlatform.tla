------------------------------ MODULE MCPlatform ------------------------------
(***************************************************************************)
(* Small instances of Platform: payments to Ana in Mexico.  600 pesos cost *)
(* 3541 cents, 60000 cost 354070 and need review.                          *)
(***************************************************************************)
EXTENDS Platform

OneBatch == {"b1"}
OnePayout == {1}
InB1 == [p \in OnePayout |-> "b1"]
Ana == {"ana"}
ToAna == [p \in OnePayout |-> "ana"]
AnaMexican == [n \in Ana |-> "MX"]
Ok == {600}
OkOrReview == {600, 60000}

\* A transfer that is short by one cent for a small payment, and an amount
\* people record that then makes up exactly what a large one needs.
OneTransfer == {1}
Short == [d \in OneTransfer |-> 3540]
TheRest == {350530}
AnyTotal == 0 .. 1000000

TreasuryOnly == {"treasury"}
FromTreasury == [d \in OneTransfer |-> "treasury"]
===============================================================================
