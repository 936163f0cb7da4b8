------------------------------ MODULE MCGateway ------------------------------
(***************************************************************************)
(* A small instance of Gateway: the three transfers of MCFunding, and a    *)
(* transaction after them that pays nothing.                               *)
(***************************************************************************)
EXTENDS MCFunding, Gateway

Fourth == {4}
===============================================================================
