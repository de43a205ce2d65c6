----------------------------- MODULE MCHttpSaga -----------------------------
(***************************************************************************)
(* Model checking of the saga over HTTP: sets of model values.             *)
(***************************************************************************)
EXTENDS HttpSaga
=============================================================================
