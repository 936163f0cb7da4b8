------------------------------ MODULE MCProjects ------------------------------
(***************************************************************************)
(* Small instances of Projects: one project pays Ana, and Luis, whom the   *)
(* partner refuses.  Both are paid in Mexico, where 600 clears at once,    *)
(* 60000 needs review and 400 is below the minimum.                        *)
(***************************************************************************)
EXTENDS Projects

OneBatch == {"b1"}
TwoPayouts == {1, 2}
Luis == {"luis"}
AnaAndLuis == {"ana", "luis"}
BothInB1 == [p \in TwoPayouts |-> "b1"]
AnaThenLuis == [p \in TwoPayouts |-> IF p = 1 THEN "ana" ELSE "luis"]
BothMexican == [n \in AnaAndLuis |-> "MX"]
OkOrLow == {600, 400}
OkOrReview == {600, 60000}
===============================================================================
