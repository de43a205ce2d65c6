------------------------------ MODULE SagaRows ------------------------------
(***************************************************************************)
(* What a row of the saga rests on at its participants, and the steps it   *)
(* takes as the abstract saga sees them: the vocabulary of the proofs      *)
(* about the orchestrator behind the broker and about the saga over HTTP.  *)
(***************************************************************************)
EXTENDS SagaContracts

-----------------------------------------------------------------------------
(* What rows and participants have to do with each other.                  *)

Effects == {"none", "void", "done", "undone", "final"}
Tellings == {"DONE", "REFUSED", "UNDONE", "FINAL"}

ServiceOf == [PAYMENT |-> "payment", INVENTORY |-> "inventory", SHIPPING |-> "shipping"]

DoFor ==
  [payment   |-> "CHARGE_PAYMENT",
   inventory |-> "RESERVE_INVENTORY",
   shipping  |-> "CREATE_SHIPMENT"]

UndoFor ==
  [payment   |-> "REFUND_PAYMENT",
   inventory |-> "RELEASE_INVENTORY",
   shipping  |-> "CANCEL_SHIPMENT"]

(* The forward operations up to and including one.                          *)
UpTo ==
  [CHARGE_PAYMENT     |-> {"CHARGE_PAYMENT"},
   RESERVE_INVENTORY  |-> {"CHARGE_PAYMENT", "RESERVE_INVENTORY"},
   CREATE_SHIPMENT    |-> {"CHARGE_PAYMENT", "RESERVE_INVENTORY", "CREATE_SHIPMENT"},
   FINALIZE_INVENTORY |-> ForwardOperations]

(* One participant and one order: how far its step is, what was said of it  *)
(* and which commands it can have had.                                      *)
ServiceTrue(service, far, said, sent) ==
  /\ far \in Effects
  /\ said \subseteq Tellings
  /\ "DONE" \in said => far \in {"done", "undone", "final"}
  /\ "REFUSED" \in said => far \in {"none", "void"}
  /\ "UNDONE" \in said => far \in {"void", "undone"}
  /\ "FINAL" \in said => far = "final"
  /\ far \in {"void", "undone"} => UndoFor[service] \in sent
  /\ far \in {"done", "undone", "final"} => DoFor[service] \in sent
  /\ far = "final" => service = "inventory" /\ "FINALIZE_INVENTORY" \in sent

(* A row rests on what was told: said[service] is what a participant told.  *)
RowTrue(s, sent, said) ==
  /\ s.status \in {"ABSENT", "PENDING_PAYMENT"} => sent = {}
  /\ s.status \in {"IN_PROGRESS", "COMPLETED"} => sent \subseteq UpTo[s.currentOperation]
  /\ s.status \in {"COMPENSATING", "FAILED"} =>
       /\ sent \cap ForwardOperations \subseteq UpTo[s.currentOperation]
       /\ "REFUSED" \in said[Owner(s.currentOperation)]
  /\ \A i \in DOMAIN s.completedSteps : "DONE" \in said[ServiceOf[s.completedSteps[i]]]
  /\ \A i \in DOMAIN s.compensatedSteps : "UNDONE" \in said[ServiceOf[s.compensatedSteps[i]]]
  /\ s.status = "COMPLETED" => "FINAL" \in said["inventory"]

(* The progress of a row, whoever keeps it.                                 *)
ProgressTyped(s) ==
  /\ s.currentOperation \in ForwardOperations
  /\ s.completedSteps \in Seq(StepNames)
  /\ s.compensatedSteps \in Seq(StepNames)

-----------------------------------------------------------------------------
(* One row, seen as the abstract saga sees it: its status and what it holds. *)

Keeps(s, t) == t.status = s.status /\ Held(t) = Held(s)

Opens(s, t) ==
  /\ s.status = "ABSENT" /\ t.status \in {"PENDING_PAYMENT", "IN_PROGRESS"}
  /\ Held(t) = Held(s)

Confirms(s, t) ==
  /\ s.status = "PENDING_PAYMENT" /\ t.status = "IN_PROGRESS"
  /\ Held(t) = Held(s)

Advances(s, t) ==
  /\ s.status = "IN_PROGRESS" /\ t.status = "IN_PROGRESS"
  /\ Held(s) # Steps
  /\ Held(t) = Append(Held(s), Steps[Len(Held(s)) + 1])

Completes(s, t) ==
  /\ s.status = "IN_PROGRESS" /\ t.status = "COMPLETED"
  /\ Held(s) = Steps /\ Held(t) = Held(s)

Rejects(s, t) ==
  /\ s.status = "IN_PROGRESS"
  /\ t.status = IF Held(s) = <<>> THEN "FAILED" ELSE "COMPENSATING"
  /\ Held(s) # Steps /\ Held(t) = Held(s)

Undoes(s, t) ==
  /\ s.status = "COMPENSATING"
  /\ t.status = IF Len(Held(s)) = 1 THEN "FAILED" ELSE "COMPENSATING"
  /\ Held(t) = SubSeq(Held(s), 1, Len(Held(s)) - 1)

RowStep(s, t) ==
  \/ Keeps(s, t) \/ Opens(s, t) \/ Confirms(s, t) \/ Advances(s, t)
  \/ Completes(s, t) \/ Rejects(s, t) \/ Undoes(s, t)
=============================================================================
