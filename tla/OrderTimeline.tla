--------------------------- MODULE OrderTimeline ---------------------------
(***************************************************************************)
(* What the order page makes of a saga row (apps/web/src/lib/orders/       *)
(* progress.ts): a status for each operation of the saga and, once it has  *)
(* turned around, for each operation that undoes a step.  The page derives *)
(* the operation in hand by tables of its own, from the row alone, and is  *)
(* not told what the orchestrator has sent.                                *)
(*                                                                         *)
(* "InHand" stands for Running and for the Failed of a last attempt that   *)
(* may be repeated: the row's lastResult tells them apart, and is left out.*)
(***************************************************************************)
EXTENDS OrderSystem

(* The page's list of forward operations.                                   *)
StepOperation == [PAYMENT |-> "CHARGE_PAYMENT", INVENTORY |-> "RESERVE_INVENTORY",
                  SHIPPING |-> "CREATE_SHIPMENT"]

Reached(s, step) == \E i \in DOMAIN s.completedSteps : s.completedSteps[i] = step
Reversed(s, step) == \E i \in DOMAIN s.compensatedSteps : s.compensatedSteps[i] = step

TurnedAround(s) ==
  \/ s.status = "COMPENSATING"
  \/ s.compensatedSteps # <<>>
  \/ s.status = "FAILED" /\ s.completedSteps # <<>>

Executing(s) == IF s.interventionReason # None THEN "Paused" ELSE "InHand"

Succeeded(s, operation) ==
  IF operation = "FINALIZE_INVENTORY" THEN s.inventoryFinalized
                                      ELSE Reached(s, StepFor[operation])

Forward(s, operation) ==
  IF Succeeded(s, operation) THEN "Succeeded"
  ELSE IF TurnedAround(s) /\ operation = "FINALIZE_INVENTORY" THEN "NotNeeded"
  ELSE IF s.currentOperation # operation THEN "Pending"
  ELSE IF TurnedAround(s) \/ s.status = "FAILED" THEN "Failed"
  ELSE IF s.status = "IN_PROGRESS" THEN Executing(s)
  ELSE "Pending"

(* Mutant: the steps to undo are looked for in the order they were done.    *)
AsDone == Steps

(* The page's list of compensations.                                        *)
Reverse == <<"SHIPPING", "INVENTORY", "PAYMENT">>

ToUndo(s) == {i \in DOMAIN Reverse : Reached(s, Reverse[i]) /\ ~Reversed(s, Reverse[i])}

(* The first step of the list that is left to undo.                         *)
IsNext(s, step) == \E i \in ToUndo(s) : Reverse[i] = step /\ \A j \in ToUndo(s) : i <= j

Compensation(s, step) ==
  IF ~TurnedAround(s) THEN "NotShown"
  ELSE IF Reversed(s, step) THEN "Succeeded"
  ELSE IF ~Reached(s, step) THEN "NotNeeded"
  ELSE IF IsNext(s, step) /\ s.status = "COMPENSATING" THEN Executing(s)
  ELSE "Pending"

-----------------------------------------------------------------------------
(* Properties.                                                             *)

Working == {"InHand", "Paused"}

ShownInHand(s) ==
  {operation \in ForwardOperations : Forward(s, operation) \in Working}
    \cup {ReverseOperation[step] : step \in {t \in StepNames : Compensation(s, t) \in Working}}

StepEffect(o, step) == effect[Owner(ReverseOperation[step])][o]

(* The timeline is true: while the saga is under way it shows exactly the   *)
(* operation that the orchestrator goes on with as in hand, or paused, and  *)
(* none once it has ended; a step shown as done took effect at its          *)
(* participant and is still in effect while its compensation waits; a step  *)
(* shown as failed, pending or not needing to be undone never took effect;  *)
(* and what is shown as undone is.                                          *)
TimelineTrue ==
  \A o \in Orders :
    LET s == saga[o] IN
    /\ ShownInHand(s) = IF s.status \in Active THEN {NextOperation(s)} ELSE {}
    /\ Forward(s, "FINALIZE_INVENTORY") = "Succeeded" <=> s.status = "COMPLETED"
    /\ \A step \in StepNames :
         LET far == StepEffect(o, step)
             shown == Forward(s, StepOperation[step])
             undoing == Compensation(s, step) IN
         /\ shown = "Succeeded" => far \in {"done", "undone", "final"}
         /\ shown \in {"Pending", "Failed"} => far \in {"none", "void"}
         /\ undoing = "Succeeded" => far = "undone"
         /\ undoing = "Pending" => s.status = "COMPENSATING" /\ far = "done"
         /\ undoing = "NotNeeded" => far \in {"none", "void"}
         /\ shown = "Succeeded" /\ undoing = "NotShown" => far \in {"done", "final"}
=============================================================================
