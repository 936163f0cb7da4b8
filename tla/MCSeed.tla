-------------------------------- MODULE MCSeed --------------------------------
(***************************************************************************)
(* An instance of Seed: the database already holds another project that is *)
(* being funded, with rows in the tables the script clears.                *)
(***************************************************************************)
EXTENDS Seed

AnotherProject ==
    {Row("instruction", "mine", "mine", {}),
     Row("transaction", "mine", "mine", {<<"instruction", "mine">>}),
     Row("ledger", "mine", "mine", {}),
     Row("audit", "mine", "mine", {}),
     Row("exception", "mine", "mine", {})}
===============================================================================
