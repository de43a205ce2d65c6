------------------------------- MODULE MCAuth -------------------------------
(***************************************************************************)
(* Auth for TLC.                                                           *)
(***************************************************************************)
EXTENDS Auth, TLC

Interchangeable ==
  Permutations(Requests) \cup Permutations(Passwords) \cup Permutations(Subjects)
=============================================================================
