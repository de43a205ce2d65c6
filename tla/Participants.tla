---------------------------- MODULE Participants ----------------------------
(***************************************************************************)
(* The three participants of a saga as an orchestrator meets them: each is *)
(* a module Participant, which module Payment, Inventory or Shipping is    *)
(* shown to implement.  A command once sent may be executed at any later   *)
(* time, any number of times, answered or not.                             *)
(***************************************************************************)
EXTENDS SagaContracts

CONSTANT Orders

VARIABLES
  effect,   \* participant -> order -> how far it has brought its step
  told      \* participant -> order -> the definitive results it has given out

The(service) == INSTANCE Participant WITH effect <- effect[service], told <- told[service]

Init ==
  /\ effect = [service \in Services |-> [o \in Orders |-> "none"]]
  /\ told = [service \in Services |-> [o \in Orders |-> {}]]

Rejectable == {"CHARGE_PAYMENT", "RESERVE_INVENTORY", "CREATE_SHIPMENT"}

(* What an execution of the operation may turn the order's step into.       *)
Brings(operation, from) ==
  IF operation \in CompensatingOperations
    THEN IF from = "done" THEN "undone" ELSE "void"
  ELSE IF operation = "FINALIZE_INVENTORY" THEN "final"
  ELSE "done"

(* What a participant says when it answers a command definitively.          *)
Says(operation, outcome) ==
  IF outcome = "REJECTED" THEN "REFUSED"
  ELSE IF operation \in CompensatingOperations THEN "UNDONE"
  ELSE IF operation = "FINALIZE_INVENTORY" THEN "FINAL"
  ELSE "DONE"

(* The command takes effect; whether anybody hears of it is another matter. *)
Executes(o, operation) ==
  \E service \in {Owner(operation)} :
    /\ effect[service][o] # Brings(operation, effect[service][o])
    /\ effect' = [effect EXCEPT ![service][o] = Brings(operation, @)]
    /\ told' = told
    /\ The(service)!Step(o)

(* The participant answers SUCCEEDED or with its business rejection.  A     *)
(* receipt replays what was told before even where that has been undone.    *)
Answers(o, operation, outcome) ==
  \E service \in {Owner(operation)} :
    /\ outcome = "SUCCEEDED" \/ operation \in Rejectable
    /\ told' = [told EXCEPT ![service][o] = @ \cup {Says(operation, outcome)}]
    /\ effect' = effect
    /\ The(service)!Step(o)
=============================================================================
