------------------------------- MODULE MCIntake -------------------------------
(***************************************************************************)
(* A small instance of Intake: one person from Colombia is known, one more *)
(* can be created, in a form whose bank may be typed as spaces.  The file  *)
(* has a line without a number, and a low amount for the new person, who   *)
(* may not be there yet.                                                   *)
(***************************************************************************)
EXTENDS Intake

OneColombian == <<"CO">>
NoBank == {<<"bankName", "empty">>}
Line(n, a) == [person |-> n, amount |-> a]
File == <<Line(1, "NaN"), Line(2, "outside")>>
Files == {File}
===============================================================================
