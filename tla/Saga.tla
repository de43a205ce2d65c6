-------------------------------- MODULE Saga --------------------------------
(***************************************************************************)
(* What the orchestrator promises, without messages, retries or recovery:  *)
(* an order's steps take effect in order; a rejection turns it around; what *)
(* took effect is then undone one step at a time, last first; and it ends  *)
(* COMPLETED holding every step or FAILED holding none.                    *)
(***************************************************************************)
EXTENDS SagaContracts

CONSTANT Orders

VARIABLES
  status,   \* order -> the saga's status, ABSENT before it is accepted
  held      \* order -> the steps that took effect and were not undone

vars == <<status, held>>

Init ==
  /\ status = [o \in Orders |-> "ABSENT"]
  /\ held = [o \in Orders |-> <<>>]

Move(o, from, to) ==
  /\ status[o] = from
  /\ status' = [status EXCEPT ![o] = to]

Accept(o) ==
  /\ \E to \in {"PENDING_PAYMENT", "IN_PROGRESS"} : Move(o, "ABSENT", to)
  /\ UNCHANGED held

ConfirmPayment(o) ==
  /\ Move(o, "PENDING_PAYMENT", "IN_PROGRESS")
  /\ UNCHANGED held

Advance(o) ==
  /\ status[o] = "IN_PROGRESS"
  /\ held[o] # Steps
  /\ held' = [held EXCEPT ![o] = Append(@, Steps[Len(@) + 1])]
  /\ UNCHANGED status

Complete(o) ==
  /\ held[o] = Steps
  /\ Move(o, "IN_PROGRESS", "COMPLETED")
  /\ UNCHANGED held

(* A rejection with nothing in effect ends the order at once; once all      *)
(* steps are in effect the order can no longer be rejected.                 *)
Reject(o) ==
  /\ held[o] # Steps
  /\ Move(o, "IN_PROGRESS", IF held[o] = <<>> THEN "FAILED" ELSE "COMPENSATING")
  /\ UNCHANGED held

Undo(o) ==
  /\ held' = [held EXCEPT ![o] = SubSeq(@, 1, Len(@) - 1)]
  /\ Move(o, "COMPENSATING", IF Len(held[o]) = 1 THEN "FAILED" ELSE "COMPENSATING")

Next ==
  \E o \in Orders :
    \/ Accept(o)
    \/ ConfirmPayment(o)
    \/ Advance(o)
    \/ Complete(o)
    \/ Reject(o)
    \/ Undo(o)

Spec == Init /\ [][Next]_vars

(* An order that ended holds all of its steps or none.                      *)
AllOrNothing ==
  \A o \in Orders :
    /\ status[o] = "COMPLETED" => held[o] = Steps
    /\ status[o] = "FAILED" => held[o] = <<>>
=============================================================================
