------------------------------ MODULE Shipping ------------------------------
(***************************************************************************)
(* ShippingService.execute (shipping-service/src/shipments/service.ts) and *)
(* its provider (providers/local-provider.ts).  As in module Payment, an   *)
(* execution holds the session lock of its order, commits its receipt, its *)
(* row and its result one after the other, calls the provider with no      *)
(* transaction open, and may stop after any of them (Abandon); a call once *)
(* made may reach the provider at any later time, or never.                *)
(***************************************************************************)
EXTENDS FiniteSets

CONSTANTS
  Sessions,   \* connections that execute commands
  Commands    \* the commands that clients ever send

None == "none"

Operations == {"CREATE_SHIPMENT", "CANCEL_SHIPMENT"}
Orders == {c.orderId : c \in Commands}
Sagas == {c.sagaId : c \in Commands}
Contents == {c.content : c \in Commands} \cup {None}

(* `content` stands for the items and the address of a shipment; a          *)
(* cancellation has none.                                                   *)
ASSUME ConstantsAssumption ==
  \A c \in Commands :
    /\ c = [idempotencyKey |-> c.idempotencyKey, operation |-> c.operation,
            orderId |-> c.orderId, sagaId |-> c.sagaId, content |-> c.content]
    /\ c.operation \in Operations
    /\ c.sagaId # None
    /\ c.content = None <=> c.operation = "CANCEL_SHIPMENT"

(* The orchestrator gives every order a saga of its own.                    *)
ASSUME SagaAssumption ==
  \A c, d \in Commands : c.sagaId = d.sagaId => c.orderId = d.orderId

VARIABLES
  shipments,      \* order -> its row of `shipments`
  cancellations,  \* order -> its row of `shipment_cancellations`
  receipts,       \* the rows of `command_receipts`
  run,            \* session -> the execution it is in, or Idle
  calls,          \* calls made to the provider so far
  parcels,        \* the provider: order -> its shipment
  requests,       \* the provider: the calls it executed, with their results
  answers         \* the answers given so far, UNKNOWN left out (history)

service == <<shipments, cancellations, receipts>>
provider == <<parcels, requests>>
vars == <<shipments, cancellations, receipts, run, calls, parcels, requests, answers>>

-----------------------------------------------------------------------------
(* Rows, calls and executions.                                             *)

Refusals == {"SHIPPING_REJECTED", "IDEMPOTENCY_CONFLICT", "ALREADY_COMPENSATED"}
Results == {"CREATED", "CANCELLED", "NOOP"} \cup Refusals

(* What a provider answers that turns a cancellation down and keeps no      *)
(* record of it: the same call may succeed later.                           *)
TurnedDown == "INVALID_STATE"

(* providerShipmentId is set exactly when createResult is CREATED.          *)
Shipment ==
  [status : {"ABSENT", "PENDING", "CREATED", "CANCELLED", "FAILED"},
   sagaId : Sagas \cup {None}, content : Contents,
   createResult : {None, "CREATED"} \cup Refusals]

NoShipment == [status |-> "ABSENT", sagaId |-> None, content |-> None, createResult |-> None]

(* `linked`: shipmentId is not null.                                        *)
Cancellation ==
  [status : {"ABSENT", "PENDING", "CANCELLED", "NOOP"}, sagaId : Sagas \cup {None},
   linked : BOOLEAN]

NoCancellation == [status |-> "ABSENT", sagaId |-> None, linked |-> FALSE]

Receipt == [command : Commands, result : Results \cup {None}]
Answer == [command : Commands, result : Results \cup {TurnedDown}]

(* A cancellation that failed is not settled by its answer, which is        *)
(* therefore kept in no receipt.  All other answers are final.              *)
Final(a) == a.command.operation = "CANCEL_SHIPMENT" => a.result \in {"CANCELLED", "NOOP"}

SameContent(c, d) == [c EXCEPT !.idempotencyKey = None] = [d EXCEPT !.idempotencyKey = None]

Call == [operation : Operations, orderId : Orders, sagaId : Sagas, content : Contents]

(* commandKey(sagaId, operation), whatever key the client used.             *)
SameKey(x, y) == x.sagaId = y.sagaId /\ x.operation = y.operation

CreateCall(o, shipment) ==
  [operation |-> "CREATE_SHIPMENT", orderId |-> o,
   sagaId |-> shipment.sagaId, content |-> shipment.content]

CancelCall(c) ==
  [operation |-> "CANCEL_SHIPMENT", orderId |-> c.orderId, sagaId |-> c.sagaId, content |-> None]

Parcel ==
  [status : {"ABSENT", "CREATED", "CANCELLED", "NOOP"},
   sagaId : Sagas \cup {None}, content : Contents]

NoParcel == [status |-> "ABSENT", sagaId |-> None, content |-> None]

(* `shipment` and `cancellation` are the rows as they were read; `result`   *)
(* is what the creation came to, once known.                                *)
Idle == [phase |-> "idle"]
Execution ==
  [phase : {"read", "cancel", "creating", "created", "cancelling"}, command : Commands,
   shipment : Shipment, cancellation : Cancellation, result : Results \cup {None}]

InPhase(s, phase) == run[s].phase = phase
For(s, operation) == run[s].command.operation = operation
OrderOf(s) == run[s].command.orderId

Init ==
  /\ shipments = [o \in Orders |-> NoShipment]
  /\ cancellations = [o \in Orders |-> NoCancellation]
  /\ receipts = {}
  /\ run = [s \in Sessions |-> Idle]
  /\ calls = {}
  /\ parcels = [o \in Orders |-> NoParcel]
  /\ requests = {}
  /\ answers = {}

-----------------------------------------------------------------------------
(* The beginning and the end of an execution.                              *)

OrderFree(o) == \A s \in Sessions : run[s] # Idle => OrderOf(s) # o

ReceiptsFor(k) == {r \in receipts : r.command.idempotencyKey = k}

(* The receipt is new, or of the same command and still PROCESSING.         *)
Begin(s, c) ==
  /\ run[s] = Idle
  /\ OrderFree(c.orderId)
  /\ \A r \in ReceiptsFor(c.idempotencyKey) : r.result = None /\ SameContent(r.command, c)
  /\ receipts' = receipts \cup {[command |-> c, result |-> None]}
  /\ run' = [run EXCEPT ![s] =
               [phase |-> "read", command |-> c, shipment |-> shipments[c.orderId],
                cancellation |-> cancellations[c.orderId], result |-> None]]
  /\ UNCHANGED <<shipments, cancellations, calls, answers, provider>>

ReplayReceipt(s, c) ==
  /\ run[s] = Idle
  /\ OrderFree(c.orderId)
  /\ \E r \in ReceiptsFor(c.idempotencyKey) :
       LET result == IF SameContent(r.command, c) THEN r.result ELSE "IDEMPOTENCY_CONFLICT" IN
       /\ result # None
       /\ answers' = answers \cup {[command |-> c, result |-> result]}
  /\ UNCHANGED <<service, run, calls, provider>>

Respond(s, result) ==
  /\ run' = [run EXCEPT ![s] = Idle]
  /\ answers' = answers \cup {[command |-> run[s].command, result |-> result]}
  /\ UNCHANGED <<calls, provider>>

(* A result that leaves the receipt open, to be tried again.                *)
LeaveOpen(s, result) == Respond(s, result) /\ UNCHANGED service

(* The transaction that completes the receipt.                              *)
CompleteReceipt(s, result) ==
  /\ receipts' = {IF r.command = run[s].command THEN [r EXCEPT !.result = result] ELSE r :
                    r \in receipts}
  /\ Respond(s, result)

(* Mutant: a failed creation leaves its receipt open, like a failed         *)
(* cancellation.                                                            *)
ConcludeRejected(s, result) ==
  IF result = "SHIPPING_REJECTED" THEN LeaveOpen(s, result)
  ELSE CompleteReceipt(s, result) /\ UNCHANGED <<shipments, cancellations>>

ConcludeCreate(s, result) ==
  CompleteReceipt(s, result) /\ UNCHANGED <<shipments, cancellations>>

(* Mutant: the shipment goes by the row that was read at the beginning.     *)
ConcludeStaleCancel(s, result) ==
  LET o == OrderOf(s) IN
  /\ CompleteReceipt(s, result)
  /\ cancellations' = [cancellations EXCEPT ![o].status = result]
  /\ shipments' = IF run[s].shipment.createResult = "CREATED"
                  THEN [shipments EXCEPT ![o].status = "CANCELLED"] ELSE shipments

(* A shipment that was there to be read is cancelled with it, if by now it  *)
(* has the provider's shipment id.                                          *)
ConcludeCancel(s, result) ==
  LET o == OrderOf(s) IN
  /\ CompleteReceipt(s, result)
  /\ cancellations' = [cancellations EXCEPT ![o].status = result]
  /\ shipments' = IF /\ run[s].shipment.status # "ABSENT"
                     /\ shipments[o].createResult = "CREATED"
                  THEN [shipments EXCEPT ![o].status = "CANCELLED"] ELSE shipments

(* The provider's deadline, a lost or mismatched answer, a failed           *)
(* transaction or a crash, wherever the execution is.                       *)
Abandon(s) ==
  /\ run[s] # Idle
  /\ run' = [run EXCEPT ![s] = Idle]
  /\ UNCHANGED <<service, calls, provider, answers>>

-----------------------------------------------------------------------------
(* Creating.                                                               *)

Foreign(s, row) == row.status # "ABSENT" /\ row.sagaId # run[s].command.sagaId

Changed(s) ==
  /\ For(s, "CREATE_SHIPMENT")
  /\ run[s].shipment.status # "ABSENT"
  /\ run[s].shipment.content # run[s].command.content

Conflicting(s) ==
  Foreign(s, run[s].shipment) \/ Foreign(s, run[s].cancellation) \/ Changed(s)

RefuseConflict(s) ==
  /\ InPhase(s, "read")
  /\ Conflicting(s)
  /\ IF For(s, "CREATE_SHIPMENT") THEN ConcludeCreate(s, "IDEMPOTENCY_CONFLICT")
                                  ELSE LeaveOpen(s, "IDEMPOTENCY_CONFLICT")

Proceeds(s, operation) == InPhase(s, "read") /\ For(s, operation) /\ ~Conflicting(s)

(* Mutant: a creation that comes after its cancellation goes by the         *)
(* shipment alone.                                                          *)
CancelledShipment(s) == run[s].shipment.status = "CANCELLED"

Cancelled(s) ==
  run[s].cancellation.status # "ABSENT" \/ run[s].shipment.status = "CANCELLED"

RefuseCreate(s) ==
  /\ Proceeds(s, "CREATE_SHIPMENT")
  /\ Cancelled(s)
  /\ ConcludeCreate(s, "ALREADY_COMPENSATED")

ReplayCreate(s) ==
  /\ Proceeds(s, "CREATE_SHIPMENT")
  /\ ~Cancelled(s)
  /\ run[s].shipment.createResult # None
  /\ ConcludeCreate(s, run[s].shipment.createResult)

(* resolveCreate(): the call is made from the row, not from the command.    *)
CallCreate(s, shipment) ==
  /\ run' = [run EXCEPT ![s].phase = "creating"]
  /\ calls' = calls \cup {CreateCall(OrderOf(s), shipment)}

StartCreate(s) ==
  LET c == run[s].command
      shipment == IF run[s].shipment.status # "ABSENT" THEN run[s].shipment
                  ELSE [NoShipment EXCEPT !.status = "PENDING", !.sagaId = c.sagaId,
                                          !.content = c.content] IN
  /\ Proceeds(s, "CREATE_SHIPMENT")
  /\ ~Cancelled(s)
  /\ run[s].shipment.createResult = None
  /\ shipments' = [shipments EXCEPT ![c.orderId] = shipment]
  /\ CallCreate(s, shipment)
  /\ UNCHANGED <<cancellations, receipts, provider, answers>>

(* The provider's result of a call: of an earlier one under the same key,   *)
(* unless that one had other content.                                       *)
ProviderAnswer(x, result) ==
  \E r \in requests :
    SameKey(r.call, x) /\ result = IF r.call = x THEN r.result ELSE "IDEMPOTENCY_CONFLICT"

CreateAnswered(s) ==
  LET o == OrderOf(s) IN
  /\ InPhase(s, "creating")
  /\ \E result \in Results :
       /\ ProviderAnswer(CreateCall(o, shipments[o]), result)
       /\ shipments' = [shipments EXCEPT
            ![o].status = IF result = "CREATED" THEN "CREATED" ELSE "FAILED",
            ![o].createResult = result]
       /\ run' = [run EXCEPT ![s].phase = "created", ![s].result = result]
  /\ UNCHANGED <<cancellations, receipts, calls, provider, answers>>

FinishCreate(s) ==
  /\ InPhase(s, "created")
  /\ For(s, "CREATE_SHIPMENT")
  /\ ConcludeCreate(s, run[s].result)

-----------------------------------------------------------------------------
(* Cancelling.                                                             *)

CancelRequest(s) ==
  [status |-> "PENDING", sagaId |-> run[s].command.sagaId,
   linked |-> run[s].shipment.status # "ABSENT"]

RequestCancel(s) ==
  LET o == OrderOf(s) IN
  /\ Proceeds(s, "CANCEL_SHIPMENT")
  /\ cancellations' = IF cancellations[o] = NoCancellation
                      THEN [cancellations EXCEPT ![o] = CancelRequest(s)] ELSE cancellations
  /\ run' = [run EXCEPT ![s].phase = "cancel"]
  /\ UNCHANGED <<shipments, receipts, calls, provider, answers>>

Settled(s) == run[s].cancellation.status \in {"CANCELLED", "NOOP"}

ReplayCancel(s) ==
  /\ InPhase(s, "cancel")
  /\ Settled(s)
  /\ ConcludeCancel(s, run[s].cancellation.status)

(* A creation without an answer is resolved before it is cancelled.         *)
ResolveCreate(s) ==
  /\ InPhase(s, "cancel")
  /\ ~Settled(s)
  /\ run[s].shipment.status = "PENDING"
  /\ CallCreate(s, run[s].shipment)
  /\ UNCHANGED <<service, provider, answers>>

ReadyToCancel(s) ==
  \/ InPhase(s, "cancel") /\ ~Settled(s) /\ run[s].shipment.status # "PENDING"
  \/ InPhase(s, "created") /\ For(s, "CANCEL_SHIPMENT")

NothingToCancel(s) ==
  run[s].shipment.status \in {"ABSENT", "FAILED"} \/ run[s].result \in Refusals

SkipCancel(s) ==
  /\ ReadyToCancel(s)
  /\ NothingToCancel(s)
  /\ ConcludeCancel(s, "NOOP")

StartCancel(s) ==
  /\ ReadyToCancel(s)
  /\ ~NothingToCancel(s)
  /\ run' = [run EXCEPT ![s].phase = "cancelling"]
  /\ calls' = calls \cup {CancelCall(run[s].command)}
  /\ UNCHANGED <<service, provider, answers>>

CancelAnswered(s) ==
  /\ InPhase(s, "cancelling")
  /\ \E result \in Results :
       /\ ProviderAnswer(CancelCall(run[s].command), result)
       /\ IF result \in Refusals THEN LeaveOpen(s, result) ELSE ConcludeCancel(s, result)

(* The local provider turns no cancellation down, but the service is        *)
(* written for one that may (tests/shipping/shipping.test.mjs:189).         *)
CancelTurnedDown(s) == InPhase(s, "cancelling") /\ LeaveOpen(s, TurnedDown)

-----------------------------------------------------------------------------
(* The provider: one transaction per call, serialized by order.            *)

Executes(x, result, parcel) ==
  /\ \A r \in requests : ~SameKey(r.call, x)
  /\ requests' = requests \cup {[call |-> x, result |-> result]}
  /\ parcels' = [parcels EXCEPT ![x.orderId] = parcel]
  /\ UNCHANGED <<service, run, calls, answers>>

Owns(x, parcel) == parcel.status = "ABSENT" \/ parcel.sagaId = x.sagaId

(* A creation it does not refuse otherwise may be rejected (mode reject).   *)
Refused(x, parcel) ==
  IF ~Owns(x, parcel) THEN {"IDEMPOTENCY_CONFLICT"}
  ELSE IF x.operation = "CANCEL_SHIPMENT" THEN {}
  ELSE IF parcel.status \in {"CANCELLED", "NOOP"} THEN {"ALREADY_COMPENSATED"}
  ELSE IF parcel.status = "CREATED" /\ parcel.content # x.content THEN {"IDEMPOTENCY_CONFLICT"}
  ELSE {"SHIPPING_REJECTED"}

ProviderRefuse(x) ==
  \E result \in Refused(x, parcels[x.orderId]) : Executes(x, result, parcels[x.orderId])

ProviderCreate(x) ==
  /\ x.operation = "CREATE_SHIPMENT"
  /\ Refused(x, parcels[x.orderId]) = {"SHIPPING_REJECTED"}
  /\ Executes(x, "CREATED", [status |-> "CREATED", sagaId |-> x.sagaId, content |-> x.content])

ProviderCancel(x) ==
  LET parcel == parcels[x.orderId]
      status == IF parcel.status \in {"ABSENT", "NOOP"} THEN "NOOP" ELSE "CANCELLED"
      result == IF parcel.status = "CREATED" THEN "CANCELLED" ELSE "NOOP" IN
  /\ x.operation = "CANCEL_SHIPMENT"
  /\ Owns(x, parcel)
  /\ Executes(x, result, [parcel EXCEPT !.status = status, !.sagaId = x.sagaId])

Next ==
  \/ \E s \in Sessions :
       \/ \E c \in Commands : Begin(s, c) \/ ReplayReceipt(s, c)
       \/ RefuseConflict(s)
       \/ RefuseCreate(s)
       \/ ReplayCreate(s)
       \/ StartCreate(s)
       \/ CreateAnswered(s)
       \/ FinishCreate(s)
       \/ RequestCancel(s)
       \/ ReplayCancel(s)
       \/ ResolveCreate(s)
       \/ SkipCancel(s)
       \/ StartCancel(s)
       \/ CancelAnswered(s)
       \/ CancelTurnedDown(s)
       \/ Abandon(s)
  \/ \E x \in calls : ProviderRefuse(x) \/ ProviderCreate(x) \/ ProviderCancel(x)

Spec == Init /\ [][Next]_vars

-----------------------------------------------------------------------------
(* Properties.                                                             *)

ExecutionOK(e) ==
  \/ e = Idle
  \/ /\ e \in Execution
     /\ e.phase = "created" => e.result # None
     /\ e.result # None => e.phase \in {"created", "cancelling"}

(* Every row is one the schema admits: a shipment that was created or       *)
(* cancelled has the provider's id, a cancellation that took effect names   *)
(* its shipment.                                                            *)
TypeOK ==
  /\ shipments \in [Orders -> Shipment]
  /\ cancellations \in [Orders -> Cancellation]
  /\ \A o \in Orders :
       /\ shipments[o].status \in {"ABSENT", "PENDING"} <=> shipments[o].createResult = None
       /\ shipments[o].status \in {"CREATED", "CANCELLED"}
            <=> shipments[o].createResult = "CREATED"
       /\ cancellations[o].status = "CANCELLED" => cancellations[o].linked
  /\ receipts \subseteq Receipt
  /\ \A q, r \in receipts :
       q.command.idempotencyKey = r.command.idempotencyKey => q = r
  /\ DOMAIN run = Sessions
  /\ \A s \in Sessions : ExecutionOK(run[s])
  /\ calls \subseteq Call
  /\ parcels \in [Orders -> Parcel]
  /\ requests \subseteq [call : Call, result : Results]
  /\ answers \subseteq Answer

(* Once a command has a final answer it is not executed again, so every     *)
(* later answer is that one, wherever executions stopped; and no receipt is *)
(* completed with a cancellation that failed, which "remains pending and    *)
(* retryable with its original key" (service.ts:155) and may then succeed.  *)
OneFinalAnswer ==
  /\ \A a, b \in answers : a.command = b.command /\ Final(a) /\ Final(b) => a.result = b.result
  /\ \A a \in answers, s \in Sessions : Final(a) /\ run[s] # Idle => run[s].command # a.command
  /\ \A r \in receipts : r.result # None => Final(r)

(* Every commit leaves rows the schema admits (TypeOK), and the shipment    *)
(* row agrees with the provider on whether there is a parcel, whatever      *)
(* answers were lost; the parcel has the address and items of the row, and  *)
(* a cancellation is recorded as made exactly when the shipment is marked   *)
(* with it.                                                                 *)
ShipmentRecordTrue ==
  /\ TypeOK
  /\ \A o \in Orders :
       /\ shipments[o].createResult = "CREATED" =>
            /\ parcels[o].status \in {"CREATED", "CANCELLED"}
            /\ parcels[o].content = shipments[o].content
       /\ shipments[o].status \in {"ABSENT", "FAILED"}
            => parcels[o].status \notin {"CREATED", "CANCELLED"}
       /\ shipments[o].status = "CANCELLED" <=> cancellations[o].status = "CANCELLED"
       /\ shipments[o].status = "CANCELLED" => parcels[o].status = "CANCELLED"

(* The participant a saga deals with: its step takes effect when the        *)
(* provider has the parcel.                                                 *)
CancelAnsweredFor(o) ==
  \E a \in answers : a.command.orderId = o /\ a.result \in {"CANCELLED", "NOOP"}

StepEffect(o) ==
  CASE parcels[o].status = "CREATED" -> "done"
    [] parcels[o].status = "CANCELLED" -> "undone"
    [] parcels[o].status = "NOOP" -> "void"
    [] parcels[o].status = "ABSENT" -> IF CancelAnsweredFor(o) THEN "void" ELSE "none"

Telling(a) ==
  CASE a.result = "CREATED" -> {"DONE"}
    [] a.result = "SHIPPING_REJECTED" -> {"REFUSED"}
    [] a.result \in {"CANCELLED", "NOOP"} -> {"UNDONE"}
    [] OTHER -> {}

Promise == INSTANCE Participant WITH
  effect <- [o \in Orders |-> StepEffect(o)],
  told <- [o \in Orders |-> UNION {Telling(a) : a \in {b \in answers : b.command.orderId = o}}]

(* What a saga is told of its shipment stays true of the provider: once a   *)
(* cancellation or a rejection was answered no parcel gets under way, by a  *)
(* creation whose answer was lost, one on its way, or one overtaken.        *)
ImplementsParticipant == Promise!Spec
=============================================================================
