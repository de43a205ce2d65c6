--------------------------- MODULE MCOrderSystem ---------------------------
(***************************************************************************)
(* Model checking of the whole system: sets of model values for orders and *)
(* recovery workers.                                                       *)
(***************************************************************************)
EXTENDS OrderTimeline
=============================================================================
