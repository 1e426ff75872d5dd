------------------------------ MODULE MCFunds ------------------------------
(***************************************************************************)
(* One event of a group of one member, a cashier and an owner, and lists   *)
(* of three rows, for Funds.                                               *)
(***************************************************************************)
EXTENDS Funds

=============================================================================
