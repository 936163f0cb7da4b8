------------------------------ MODULE MCFunding ------------------------------
(***************************************************************************)
(* Small instances of Funding: projects ask for 3, the transfers pay 2, 2  *)
(* and 3, so that two small ones overshoot and the last alone is enough.   *)
(***************************************************************************)
EXTENDS Funding, TLC

Three == {3}
TwoTransfers == {1, 2}
TwoPayTwo == [d \in TwoTransfers |-> 2]
ThreeTransfers == {1, 2, 3}
TwoTwoThree == [d \in ThreeTransfers |-> IF d = 3 THEN 3 ELSE 2]

\* Every transfer from the treasury's wallet, or the second from another.
TreasuryOnly == {"treasury"}
TwoFromTreasury == [d \in TwoTransfers |-> "treasury"]
AllFromTreasury == [d \in ThreeTransfers |-> "treasury"]
TwoWallets == {"treasury", "other"}
SecondFromOther == [d \in TwoTransfers |-> IF d = 2 THEN "other" ELSE "treasury"]

\* Workers are interchangeable.
Alike == Permutations(Workers)
===============================================================================
