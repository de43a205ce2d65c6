----------------------------- MODULE MCCheckout -----------------------------
(***************************************************************************)
(* Checkout for TLC: a tab that may begin a second checkout.               *)
(***************************************************************************)
EXTENDS Checkout

CONSTANTS cod, transfer, odd
=============================================================================
