---------------------------- MODULE MCOrderPage ----------------------------
(***************************************************************************)
(* OrderPage for TLC.                                                      *)
(***************************************************************************)
EXTENDS OrderPage
=============================================================================
