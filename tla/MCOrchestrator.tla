--------------------------- MODULE MCOrchestrator ---------------------------
(***************************************************************************)
(* Model checking of the orchestrator: the symmetry of recovery workers,   *)
(* and a bound on the commands an order is sent.                           *)
(***************************************************************************)
EXTENDS Orchestrator, TLC

CONSTANT MaxCommands

WorkerSymmetry == Permutations(Workers)

(* An undone order takes five commands, so the others are repetitions.      *)
FewCommands == \A o \in Orders : Len(outbox[o]) <= MaxCommands
=============================================================================
