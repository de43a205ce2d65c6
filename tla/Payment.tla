------------------------------ MODULE Payment ------------------------------
(***************************************************************************)
(* PaymentService.execute (payment-service/src/payments/service.ts) and    *)
(* the provider it calls (providers/local-provider.ts).  An execution owns *)
(* its order by a session lock that it only tries for, commits its receipt,*)
(* its payment or refund row, the provider's answer and its own result one *)
(* after the other, and calls the provider in between with no transaction  *)
(* open.  It may stop after any of them: the provider's deadline passed,   *)
(* the answer was lost, the process died.  All of these end in UNKNOWN or  *)
(* in nothing at all, free the lock and leave the call on its way.         *)
(*                                                                         *)
(* A command may be executed at any time and any number of times.  A call  *)
(* once made may reach the provider at any later time, or never.           *)
(***************************************************************************)
EXTENDS FiniteSets

CONSTANTS
  Sessions,   \* connections that execute commands
  Commands    \* the commands that clients ever send

None == "none"

Operations == {"CHARGE_PAYMENT", "REFUND_PAYMENT"}
Methods == {"COD", "BANK_TRANSFER"}

Orders == {c.orderId : c \in Commands}
Sagas == {c.sagaId : c \in Commands}
Amounts == {c.amount : c \in Commands} \cup {None}

(* `amount` stands for customer, amount and currency; a refund carries      *)
(* neither amount nor method.                                               *)
ASSUME ConstantsAssumption ==
  \A c \in Commands :
    /\ c = [idempotencyKey |-> c.idempotencyKey, operation |-> c.operation,
            orderId |-> c.orderId, sagaId |-> c.sagaId,
            amount |-> c.amount, method |-> c.method]
    /\ c.operation \in Operations
    /\ c.sagaId # None
    /\ IF c.operation = "CHARGE_PAYMENT" THEN c.amount # None /\ c.method \in Methods
                                         ELSE c.amount = None /\ c.method = None

(* The orchestrator gives every order a saga of its own.                    *)
ASSUME SagaAssumption ==
  \A c, d \in Commands : c.sagaId = d.sagaId => c.orderId = d.orderId

VARIABLES
  payments,   \* order -> its row of `payments`
  refunds,    \* order -> its row of `refunds`
  receipts,   \* the rows of `command_receipts`
  run,        \* session -> the execution it is in, or Idle
  calls,      \* calls made to the provider so far
  accounts,   \* the provider: order -> its account
  requests,   \* the provider: the calls it executed, with their results
  answers     \* the answers given so far, UNKNOWN left out (history)

service == <<payments, refunds, receipts>>
provider == <<accounts, requests>>
vars == <<payments, refunds, receipts, run, calls, accounts, requests, answers>>

-----------------------------------------------------------------------------
(* Rows, calls and executions.                                             *)

Refusals == {"PAYMENT_DECLINED", "IDEMPOTENCY_CONFLICT", "ALREADY_COMPENSATED"}
Results == {"CHARGED", "REFUNDED", "NOOP"} \cup Refusals

(* What a provider answers that turns a refund down and keeps no record of  *)
(* it: the same call may succeed later.                                     *)
TurnedDown == "INVALID_STATE"

(* providerTransactionId is set exactly when chargeResult is CHARGED.       *)
Payment ==
  [status : {"ABSENT", "PENDING", "PAY_ON_DELIVERY", "CHARGED", "REFUNDED", "FAILED"},
   sagaId : Sagas \cup {None},
   amount : Amounts,
   method : Methods \cup {None},
   chargeResult : {None, "CHARGED"} \cup Refusals]

NoPayment ==
  [status |-> "ABSENT", sagaId |-> None, amount |-> None, method |-> None,
   chargeResult |-> None]

Refund ==
  [status : {"ABSENT", "PENDING", "REFUNDED", "NOOP"}, sagaId : Sagas \cup {None}]

NoRefund == [status |-> "ABSENT", sagaId |-> None]

(* `command` stands for the fingerprint; the result is None while the       *)
(* receipt is PROCESSING.                                                   *)
Receipt == [command : Commands, result : Results \cup {None}]
Answer == [command : Commands, result : Results \cup {TurnedDown}]

(* A refund that failed is not settled by its answer, which is therefore    *)
(* kept in no receipt.  All other answers are final.                        *)
Final(a) == a.command.operation = "REFUND_PAYMENT" => a.result \in {"REFUNDED", "NOOP"}

SameContent(c, d) == [c EXCEPT !.idempotencyKey = None] = [d EXCEPT !.idempotencyKey = None]

(* Calls use the key commandKey(sagaId, operation), whatever key the client *)
(* used.                                                                    *)
Call ==
  [operation : Operations, orderId : Orders, sagaId : Sagas,
   amount : Amounts, method : Methods \cup {None}]

SameKey(x, y) == x.sagaId = y.sagaId /\ x.operation = y.operation

ChargeCall(o, payment) ==
  [operation |-> "CHARGE_PAYMENT", orderId |-> o, sagaId |-> payment.sagaId,
   amount |-> payment.amount, method |-> payment.method]

RefundCall(c) ==
  [operation |-> "REFUND_PAYMENT", orderId |-> c.orderId, sagaId |-> c.sagaId,
   amount |-> None, method |-> None]

(* `amount` and `method` are those of the charge that was accepted.         *)
Account ==
  [status : {"ABSENT", "CHARGED", "REFUNDED", "NOOP"}, sagaId : Sagas \cup {None},
   amount : Amounts, method : Methods \cup {None}]

NoAccount == [status |-> "ABSENT", sagaId |-> None, amount |-> None, method |-> None]

(* `payment` and `refund` are the rows as they were read; `result` is what  *)
(* the charge came to, once known.                                          *)
Idle == [phase |-> "idle"]
Execution ==
  [phase : {"read", "refund", "charging", "charged", "refunding"},
   command : Commands, payment : Payment, refund : Refund, result : Results \cup {None}]

InPhase(s, phase) == run[s].phase = phase
For(s, operation) == run[s].command.operation = operation
OrderOf(s) == run[s].command.orderId

-----------------------------------------------------------------------------
(* The receipt.                                                            *)

Init ==
  /\ payments = [o \in Orders |-> NoPayment]
  /\ refunds = [o \in Orders |-> NoRefund]
  /\ receipts = {}
  /\ run = [s \in Sessions |-> Idle]
  /\ calls = {}
  /\ accounts = [o \in Orders |-> NoAccount]
  /\ requests = {}
  /\ answers = {}

(* A session that finds the order taken answers UNKNOWN at once.            *)
OrderFree(o) == \A s \in Sessions : run[s] # Idle => OrderOf(s) # o

ReceiptsFor(k) == {r \in receipts : r.command.idempotencyKey = k}

(* The receipt is new, or of the same command and still PROCESSING.         *)
Begin(s, c) ==
  /\ run[s] = Idle
  /\ OrderFree(c.orderId)
  /\ \A r \in ReceiptsFor(c.idempotencyKey) : r.result = None /\ SameContent(r.command, c)
  /\ receipts' = receipts \cup {[command |-> c, result |-> None]}
  /\ run' = [run EXCEPT ![s] =
               [phase |-> "read", command |-> c, payment |-> payments[c.orderId],
                refund |-> refunds[c.orderId], result |-> None]]
  /\ UNCHANGED <<payments, refunds, calls, answers, provider>>

ReplayReceipt(s, c) ==
  /\ run[s] = Idle
  /\ OrderFree(c.orderId)
  /\ \E r \in ReceiptsFor(c.idempotencyKey) :
       \/ /\ ~SameContent(r.command, c)
          /\ answers' = answers \cup {[command |-> c, result |-> "IDEMPOTENCY_CONFLICT"]}
       \/ /\ SameContent(r.command, c)
          /\ r.result # None
          /\ answers' = answers \cup {[command |-> c, result |-> r.result]}
  /\ UNCHANGED <<service, run, calls, provider>>

-----------------------------------------------------------------------------
(* Ending an execution.                                                    *)

Respond(s, result) ==
  /\ run' = [run EXCEPT ![s] = Idle]
  /\ answers' = answers \cup {[command |-> run[s].command, result |-> result]}

CompleteReceipt(s, result) ==
  receipts' = {IF r.command = run[s].command THEN [r EXCEPT !.result = result] ELSE r :
                 r \in receipts}

(* The last transaction of a charge.                                        *)
ConcludeCharge(s, result) ==
  /\ CompleteReceipt(s, result)
  /\ Respond(s, result)
  /\ UNCHANGED <<payments, refunds, calls, provider>>

(* Mutant: the payment is not read again after its charge was resolved.     *)
ConcludeStaleRefund(s, result) ==
  LET o == OrderOf(s) IN
  /\ CompleteReceipt(s, result)
  /\ refunds' = [refunds EXCEPT ![o].status = result]
  /\ payments' =
       IF result = "REFUNDED" /\ run[s].payment.chargeResult = "CHARGED"
       THEN [payments EXCEPT ![o].status = "REFUNDED"] ELSE payments
  /\ Respond(s, result)
  /\ UNCHANGED <<calls, provider>>

(* The last transaction of a refund that succeeded.  The payment is marked  *)
(* if the provider has taken money for it, as it is by now.                 *)
ConcludeRefund(s, result) ==
  LET o == OrderOf(s) IN
  /\ CompleteReceipt(s, result)
  /\ refunds' = [refunds EXCEPT ![o].status = result]
  /\ payments' =
       IF result = "REFUNDED" /\ payments[o].chargeResult = "CHARGED"
       THEN [payments EXCEPT ![o].status = "REFUNDED"] ELSE payments
  /\ Respond(s, result)
  /\ UNCHANGED <<calls, provider>>

(* A refund that fails leaves its receipt open, to be tried again.          *)
FailRefund(s, result) ==
  /\ Respond(s, result)
  /\ UNCHANGED <<service, calls, provider>>

(* The provider's deadline, a lost or mismatched answer, a failed           *)
(* transaction or a crash, wherever the execution is.                       *)
Abandon(s) ==
  /\ run[s] # Idle
  /\ run' = [run EXCEPT ![s] = Idle]
  /\ UNCHANGED <<service, calls, provider, answers>>

-----------------------------------------------------------------------------
(* Charging.                                                               *)

Foreign(s, row) == row.status # "ABSENT" /\ row.sagaId # run[s].command.sagaId

Changed(s) ==
  LET c == run[s].command
      payment == run[s].payment IN
  /\ For(s, "CHARGE_PAYMENT")
  /\ payment.status # "ABSENT"
  /\ <<payment.amount, payment.method>> # <<c.amount, c.method>>

Conflicting(s) ==
  Foreign(s, run[s].payment) \/ Foreign(s, run[s].refund) \/ Changed(s)

Proceeds(s, operation) ==
  InPhase(s, "read") /\ For(s, operation) /\ ~Conflicting(s)

RefuseConflict(s) ==
  /\ InPhase(s, "read")
  /\ Conflicting(s)
  /\ IF For(s, "CHARGE_PAYMENT") THEN ConcludeCharge(s, "IDEMPOTENCY_CONFLICT")
                                 ELSE FailRefund(s, "IDEMPOTENCY_CONFLICT")

(* Mutant: a charge that comes after its refund goes by the payment alone.  *)
CompensatedPayment(s) == run[s].payment.status = "REFUNDED"

Compensated(s) ==
  run[s].refund.status # "ABSENT" \/ run[s].payment.status = "REFUNDED"

RefuseCharge(s) ==
  /\ Proceeds(s, "CHARGE_PAYMENT")
  /\ Compensated(s)
  /\ ConcludeCharge(s, "ALREADY_COMPENSATED")

ReplayCharge(s) ==
  /\ Proceeds(s, "CHARGE_PAYMENT")
  /\ ~Compensated(s)
  /\ run[s].payment.chargeResult # None
  /\ ConcludeCharge(s, run[s].payment.chargeResult)

(* resolveCharge(): the call is made from the row, not from the command.    *)
CallCharge(s, payment) ==
  /\ run' = [run EXCEPT ![s].phase = "charging"]
  /\ calls' = calls \cup {ChargeCall(OrderOf(s), payment)}

StartCharge(s) ==
  LET c == run[s].command
      payment == IF run[s].payment.status = "ABSENT"
                 THEN [NoPayment EXCEPT !.status = "PENDING", !.sagaId = c.sagaId,
                                        !.amount = c.amount, !.method = c.method]
                 ELSE run[s].payment IN
  /\ Proceeds(s, "CHARGE_PAYMENT")
  /\ ~Compensated(s)
  /\ run[s].payment.chargeResult = None
  /\ payments' = [payments EXCEPT ![c.orderId] = payment]
  /\ CallCharge(s, payment)
  /\ UNCHANGED <<refunds, receipts, provider, answers>>

(* The provider's result of a call: of an earlier one under the same key,   *)
(* unless that one had other content.                                       *)
ProviderAnswer(x, result) ==
  \E r \in requests :
    /\ SameKey(r.call, x)
    /\ result = IF r.call = x THEN r.result ELSE "IDEMPOTENCY_CONFLICT"

ChargeStatus(payment, result) ==
  IF result # "CHARGED" THEN "FAILED"
  ELSE IF payment.method = "COD" THEN "PAY_ON_DELIVERY" ELSE "CHARGED"

ChargeAnswered(s) ==
  LET o == OrderOf(s) IN
  /\ InPhase(s, "charging")
  /\ \E result \in Results :
       /\ ProviderAnswer(ChargeCall(o, payments[o]), result)
       /\ payments' = [payments EXCEPT ![o].status = ChargeStatus(payments[o], result),
                                       ![o].chargeResult = result]
       /\ run' = [run EXCEPT ![s].phase = "charged", ![s].result = result]
  /\ UNCHANGED <<refunds, receipts, calls, provider, answers>>

FinishCharge(s) ==
  /\ InPhase(s, "charged")
  /\ For(s, "CHARGE_PAYMENT")
  /\ ConcludeCharge(s, run[s].result)

-----------------------------------------------------------------------------
(* Refunding.                                                              *)

RequestRefund(s) ==
  /\ Proceeds(s, "REFUND_PAYMENT")
  /\ refunds' = IF refunds[OrderOf(s)] = NoRefund
                THEN [refunds EXCEPT ![OrderOf(s)] =
                        [status |-> "PENDING", sagaId |-> run[s].command.sagaId]]
                ELSE refunds
  /\ run' = [run EXCEPT ![s].phase = "refund"]
  /\ UNCHANGED <<payments, receipts, calls, provider, answers>>

Settled(s) == run[s].refund.status \in {"REFUNDED", "NOOP"}

ReplayRefund(s) ==
  /\ InPhase(s, "refund")
  /\ Settled(s)
  /\ ConcludeRefund(s, run[s].refund.status)

(* A charge without an answer is resolved before it is refunded.            *)
ResolveCharge(s) ==
  /\ InPhase(s, "refund")
  /\ ~Settled(s)
  /\ run[s].payment.status = "PENDING"
  /\ CallCharge(s, run[s].payment)
  /\ UNCHANGED <<service, provider, answers>>

(* What the refund does once the charge is resolved, if it had to be: it    *)
(* still goes by the payment as it read it.                                 *)
ReadyToRefund(s) ==
  \/ InPhase(s, "refund") /\ ~Settled(s) /\ run[s].payment.status # "PENDING"
  \/ InPhase(s, "charged") /\ For(s, "REFUND_PAYMENT")

NothingToRefund(s) ==
  \/ run[s].payment.status \in {"ABSENT", "FAILED", "PAY_ON_DELIVERY"}
  \/ run[s].result \in Refusals

SkipRefund(s) ==
  /\ ReadyToRefund(s)
  /\ NothingToRefund(s)
  /\ ConcludeRefund(s, "NOOP")

StartRefund(s) ==
  /\ ReadyToRefund(s)
  /\ ~NothingToRefund(s)
  /\ run' = [run EXCEPT ![s].phase = "refunding"]
  /\ calls' = calls \cup {RefundCall(run[s].command)}
  /\ UNCHANGED <<service, provider, answers>>

RefundAnswered(s) ==
  /\ InPhase(s, "refunding")
  /\ \E result \in Results :
       /\ ProviderAnswer(RefundCall(run[s].command), result)
       /\ IF result \in Refusals THEN FailRefund(s, result) ELSE ConcludeRefund(s, result)

(* The local provider turns no refund down, but the service is written for  *)
(* one that may (tests/payment/payment.test.mjs:171).                       *)
RefundTurnedDown(s) == InPhase(s, "refunding") /\ FailRefund(s, TurnedDown)

-----------------------------------------------------------------------------
(* The provider: one transaction per call, serialized by order.            *)

Executes(x, result, account) ==
  /\ \A r \in requests : ~SameKey(r.call, x)
  /\ requests' = requests \cup {[call |-> x, result |-> result]}
  /\ accounts' = [accounts EXCEPT ![x.orderId] = account]
  /\ UNCHANGED <<service, run, calls, answers>>

Owns(x, account) == account.status = "ABSENT" \/ account.sagaId = x.sagaId

SameCharge(x, account) == x.amount = account.amount /\ x.method = account.method

(* A charge it does not refuse otherwise may be declined (mode reject).     *)
Refused(x, account) ==
  IF ~Owns(x, account) THEN {"IDEMPOTENCY_CONFLICT"}
  ELSE IF x.operation = "REFUND_PAYMENT" THEN {}
  ELSE IF account.status \in {"REFUNDED", "NOOP"} THEN {"ALREADY_COMPENSATED"}
  ELSE IF account.status = "CHARGED" /\ ~SameCharge(x, account) THEN {"IDEMPOTENCY_CONFLICT"}
  ELSE {"PAYMENT_DECLINED"}

ProviderRefuse(x) ==
  \E result \in Refused(x, accounts[x.orderId]) : Executes(x, result, accounts[x.orderId])

ProviderCharge(x) ==
  LET account == accounts[x.orderId] IN
  /\ x.operation = "CHARGE_PAYMENT"
  /\ Refused(x, account) = {"PAYMENT_DECLINED"}
  /\ Executes(x, "CHARGED", [status |-> "CHARGED", sagaId |-> x.sagaId,
                             amount |-> x.amount, method |-> x.method])

(* An order that was never charged is marked, so that it never will be.     *)
ProviderRefund(x) ==
  LET account == accounts[x.orderId]
      status == IF account.status \in {"ABSENT", "NOOP"} THEN "NOOP" ELSE "REFUNDED"
      result == IF account.status = "CHARGED" THEN "REFUNDED" ELSE "NOOP" IN
  /\ x.operation = "REFUND_PAYMENT"
  /\ Owns(x, account)
  /\ Executes(x, result, [account EXCEPT !.status = status, !.sagaId = x.sagaId])

Next ==
  \/ \E s \in Sessions :
       \/ \E c \in Commands : Begin(s, c) \/ ReplayReceipt(s, c)
       \/ RefuseConflict(s)
       \/ RefuseCharge(s)
       \/ ReplayCharge(s)
       \/ StartCharge(s)
       \/ ChargeAnswered(s)
       \/ FinishCharge(s)
       \/ RequestRefund(s)
       \/ ReplayRefund(s)
       \/ ResolveCharge(s)
       \/ SkipRefund(s)
       \/ StartRefund(s)
       \/ RefundAnswered(s)
       \/ RefundTurnedDown(s)
       \/ Abandon(s)
  \/ \E x \in calls : ProviderRefuse(x) \/ ProviderCharge(x) \/ ProviderRefund(x)

Spec == Init /\ [][Next]_vars

-----------------------------------------------------------------------------
(* Properties.                                                             *)

ExecutionOK(e) ==
  \/ e = Idle
  \/ /\ e \in Execution
     /\ e.phase = "charged" => e.result # None
     /\ e.result # None => e.phase \in {"charged", "refunding"}

(* Every row is one the schema admits; a payment that took effect has the   *)
(* provider's transaction, and one that is pending or absent has no result. *)
TypeOK ==
  /\ payments \in [Orders -> Payment]
  /\ refunds \in [Orders -> Refund]
  /\ \A o \in Orders :
       /\ payments[o].status \in {"ABSENT", "PENDING"} <=> payments[o].chargeResult = None
       /\ payments[o].status \in {"PAY_ON_DELIVERY", "CHARGED", "REFUNDED"}
            <=> payments[o].chargeResult = "CHARGED"
       /\ refunds[o].status = "REFUNDED" => payments[o].status # "ABSENT"
  /\ receipts \subseteq Receipt
  /\ \A q, r \in receipts :
       q.command.idempotencyKey = r.command.idempotencyKey => q = r
  /\ DOMAIN run = Sessions
  /\ \A s \in Sessions : ExecutionOK(run[s])
  /\ calls \subseteq Call
  /\ accounts \in [Orders -> Account]
  /\ requests \subseteq [call : Call, result : Results]
  /\ answers \subseteq Answer

(* Once a command has a final answer it is not executed again, so every     *)
(* later answer is that one, wherever executions stopped; and no receipt is *)
(* completed with a refund that failed, which "remains pending and          *)
(* retryable with its original key" (service.ts:69) and may then succeed.   *)
OneFinalAnswer ==
  /\ \A a, b \in answers : a.command = b.command /\ Final(a) /\ Final(b) => a.result = b.result
  /\ \A a \in answers, s \in Sessions : Final(a) /\ run[s] # Idle => run[s].command # a.command
  /\ \A r \in receipts : r.result # None => Final(r)

Refunded(o) ==
  \E a \in answers :
    /\ a.command.orderId = o
    /\ a.command.operation = "REFUND_PAYMENT"
    /\ a.result \in {"REFUNDED", "NOOP"}

(* Every commit leaves well-formed rows (TypeOK), and the payment row never *)
(* disagrees with the provider on whether the order was charged, whatever   *)
(* answers were lost and whoever resolved the charge; a refund is recorded  *)
(* as made exactly when the payment is marked with it, and only when the    *)
(* provider has paid the money back.                                        *)
RecordsTrue ==
  /\ TypeOK
  /\ \A o \in Orders :
       /\ payments[o].chargeResult = "CHARGED" => accounts[o].status \in {"CHARGED", "REFUNDED"}
       /\ payments[o].status \in {"ABSENT", "FAILED"}
            => accounts[o].status \notin {"CHARGED", "REFUNDED"}
       /\ refunds[o].status = "REFUNDED" <=> payments[o].status = "REFUNDED"
       /\ refunds[o].status = "REFUNDED" => accounts[o].status = "REFUNDED"

(* The participant a saga deals with: its step takes effect when the        *)
(* provider takes the money.  Nothing is left to undo of a payment on       *)
(* delivery once its refund was answered.                                   *)
StepEffect(o) ==
  CASE accounts[o].status = "CHARGED" ->
         IF accounts[o].method = "COD" /\ Refunded(o) THEN "undone" ELSE "done"
    [] accounts[o].status = "REFUNDED" -> "undone"
    [] accounts[o].status = "NOOP" -> "void"
    [] accounts[o].status = "ABSENT" -> IF Refunded(o) THEN "void" ELSE "none"

Telling(a) ==
  CASE a.result = "CHARGED" -> {"DONE"}
    [] a.result = "PAYMENT_DECLINED" -> {"REFUSED"}
    [] a.result \in {"REFUNDED", "NOOP"} -> {"UNDONE"}
    [] OTHER -> {}

Promise == INSTANCE Participant WITH
  effect <- [o \in Orders |-> StepEffect(o)],
  told <- [o \in Orders |-> UNION {Telling(a) : a \in {b \in answers : b.command.orderId = o}}]

(* What a saga is told of its payment stays true of the provider: money     *)
(* refunded is never taken again nor a declined charge made later, by a     *)
(* charge whose answer was lost, one on its way, or one overtaken.          *)
ImplementsParticipant == Promise!Spec

-----------------------------------------------------------------------------
(* What the documents and tests say.                                       *)

(* "a COD payment remains Pay on Delivery and compensation is a safe no-op" *)
(* (docs/PRESENTATION_GUIDE.md:107).  It is not for a refund that resolves  *)
(* the charge itself: it goes by the status that it read before, PENDING.   *)
CodRefundIsNoop ==
  \A o \in Orders : payments[o].method = "COD" => payments[o].status # "REFUNDED"
=============================================================================
