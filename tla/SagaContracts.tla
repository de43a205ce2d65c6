--------------------------- MODULE SagaContracts ---------------------------
(***************************************************************************)
(* The vocabulary every service shares: the operations of a saga, the step *)
(* an operation belongs to, the participant that executes it, and the      *)
(* prefix of steps that must be complete before it may be sent             *)
(* (shared/src/contracts.ts, shared/src/messaging/contracts.ts,            *)
(* order-orchestrator/src/saga/stateMachine.ts and compensate.ts).         *)
(***************************************************************************)
EXTENDS Naturals, Sequences

StepNames == {"PAYMENT", "INVENTORY", "SHIPPING"}

Steps == <<"PAYMENT", "INVENTORY", "SHIPPING">>

ForwardOperations ==
  {"CHARGE_PAYMENT", "RESERVE_INVENTORY", "CREATE_SHIPMENT", "FINALIZE_INVENTORY"}

CompensatingOperations == {"REFUND_PAYMENT", "RELEASE_INVENTORY", "CANCEL_SHIPMENT"}

Operations == ForwardOperations \cup CompensatingOperations

(* The order of FORWARD_OPERATIONS; only asked of the first three. *)
Successor ==
  [CHARGE_PAYMENT    |-> "RESERVE_INVENTORY",
   RESERVE_INVENTORY |-> "CREATE_SHIPMENT",
   CREATE_SHIPMENT   |-> "FINALIZE_INVENTORY"]

StepFor ==
  [CHARGE_PAYMENT     |-> "PAYMENT",
   RESERVE_INVENTORY  |-> "INVENTORY",
   CREATE_SHIPMENT    |-> "SHIPPING",
   FINALIZE_INVENTORY |-> "SHIPPING"]

(* The steps that are complete when the forward cursor is at an operation. *)
CompletedBefore ==
  [CHARGE_PAYMENT     |-> <<>>,
   RESERVE_INVENTORY  |-> <<"PAYMENT">>,
   CREATE_SHIPMENT    |-> <<"PAYMENT", "INVENTORY">>,
   FINALIZE_INVENTORY |-> Steps]

(* Mutant: steps are undone in the order they were done.                    *)
UndoAfterForwards ==
  [CHARGE_PAYMENT    |-> <<>>,
   RESERVE_INVENTORY |-> <<"PAYMENT">>,
   CREATE_SHIPMENT   |-> <<"PAYMENT", "INVENTORY">>,
   FINALIZE_INVENTORY |-> <<>>]

(* What is to be undone, in order, when the operation was rejected.  Nothing *)
(* is undone for the first operation, and finalization is never reversed.    *)
UndoAfter ==
  [CHARGE_PAYMENT     |-> <<>>,
   RESERVE_INVENTORY  |-> <<"PAYMENT">>,
   CREATE_SHIPMENT    |-> <<"INVENTORY", "PAYMENT">>,
   FINALIZE_INVENTORY |-> <<>>]

ReverseOperation ==
  [PAYMENT   |-> "REFUND_PAYMENT",
   INVENTORY |-> "RELEASE_INVENTORY",
   SHIPPING  |-> "CANCEL_SHIPMENT"]

Services == {"payment", "inventory", "shipping"}

Owner(operation) ==
  IF operation \in {"CHARGE_PAYMENT", "REFUND_PAYMENT"} THEN "payment"
  ELSE IF operation \in {"CREATE_SHIPMENT", "CANCEL_SHIPMENT"} THEN "shipping"
  ELSE "inventory"

-----------------------------------------------------------------------------
(* The progress that the row of a saga records: its status, its forward     *)
(* cursor and the steps completed and compensated so far.                   *)

None == "none"

Active == {"IN_PROGRESS", "COMPENSATING"}
Terminal == {"COMPLETED", "FAILED"}

(* The checks of next() and nextCompensation(), which throw when one fails. *)
ConsistentForward(s) ==
  /\ s.status = "IN_PROGRESS"
  /\ ~s.inventoryFinalized
  /\ s.compensatedSteps = <<>>
  /\ s.completedSteps = CompletedBefore[s.currentOperation]

ConsistentCompensation(s) ==
  /\ ~s.inventoryFinalized
  /\ UndoAfter[s.currentOperation] # <<>>
  /\ s.completedSteps = CompletedBefore[s.currentOperation]
  /\ Len(s.compensatedSteps) <= Len(UndoAfter[s.currentOperation])
  /\ s.compensatedSteps =
       SubSeq(UndoAfter[s.currentOperation], 1, Len(s.compensatedSteps))

Consistent(s) ==
  IF s.status = "COMPENSATING" THEN ConsistentCompensation(s)
                               ELSE ConsistentForward(s)

(* Mutant: the last step to undo is skipped.                                *)
UndoneButOne(s) == Len(s.compensatedSteps) + 1 >= Len(UndoAfter[s.currentOperation])

(* The step nextCompensation() returns, and whether it returns one.         *)
Undone(s) == Len(s.compensatedSteps) >= Len(UndoAfter[s.currentOperation])
NextUndo(s) == UndoAfter[s.currentOperation][Len(s.compensatedSteps) + 1]

(* The operation next() returns, None when the compensation is complete.    *)
NextOperation(s) ==
  IF s.status # "COMPENSATING" THEN s.currentOperation
  ELSE IF Undone(s) THEN None
  ELSE ReverseOperation[NextUndo(s)]

(* The steps that took effect and were not undone.                          *)
Held(s) == SubSeq(s.completedSteps, 1, Len(s.completedSteps) - Len(s.compensatedSteps))
=============================================================================
