--------------------------- MODULE PaymentProofs ---------------------------
(***************************************************************************)
(* Payments are what the provider made them, and what a saga is told of    *)
(* its payment stays true, for every number of connections and every set   *)
(* of commands in which an order has one saga.  The argument: one          *)
(* execution at a time has an order, and what it has read of the rows is   *)
(* what they are; the rows never let go of a saga, an amount or a result;  *)
(* so every call for an order is the one call that its rows determine, and *)
(* the provider has executed it once, with one result.                     *)
(***************************************************************************)
EXTENDS Payment, TLAPS

-----------------------------------------------------------------------------
(* The rows of an order.                                                   *)

Served(req, x, result) == [call |-> x, result |-> result] \in req

SagaOf(o, saga) == \E c \in Commands : c.orderId = o /\ c.sagaId = saga

(* The refund that the rows of the order call for.                          *)
RefundOf(o, f) ==
  [operation |-> "REFUND_PAYMENT", orderId |-> o, sagaId |-> f.sagaId,
   amount |-> None, method |-> None]

RowTrue(o, p, f, req) ==
  /\ p \in Payment /\ f \in Refund
  /\ p.status = "ABSENT" => p = NoPayment
  /\ p.status # "ABSENT" => SagaOf(o, p.sagaId) /\ p.method \in Methods
  /\ f.status = "ABSENT" => f = NoRefund
  /\ f.status # "ABSENT" => SagaOf(o, f.sagaId)
  /\ f.status # "ABSENT" /\ p.status # "ABSENT" => p.sagaId = f.sagaId
  /\ p.status \in {"ABSENT", "PENDING"} <=> p.chargeResult = None
  /\ p.status = "FAILED" <=> p.chargeResult \in Refusals
  /\ p.status = "PAY_ON_DELIVERY" => p.method = "COD"
  /\ p.status = "CHARGED" => p.method # "COD"
  /\ f.status = "REFUNDED" <=> p.status = "REFUNDED"
  /\ f.status = "NOOP" => p.status \in {"ABSENT", "FAILED", "PAY_ON_DELIVERY"}
  /\ p.chargeResult # None => Served(req, ChargeCall(o, p), p.chargeResult)
  /\ f.status = "REFUNDED" => Served(req, RefundOf(o, f), "REFUNDED")

(* What a row may become: it keeps what was ever decided.                   *)
RowGrows(p, f, q, g) ==
  /\ p.status # "ABSENT" =>
       /\ q.status # "ABSENT"
       /\ q.sagaId = p.sagaId /\ q.amount = p.amount /\ q.method = p.method
  /\ p.chargeResult # None => q.chargeResult = p.chargeResult
  /\ f.status # "ABSENT" => g.status # "ABSENT" /\ g.sagaId = f.sagaId
  /\ f.status \in {"REFUNDED", "NOOP"} => g.status = f.status
  /\ f.status # "ABSENT" /\ p.status = "ABSENT" => q.status = "ABSENT"

-----------------------------------------------------------------------------
(* Calls and the provider.                                                 *)

CallTrue(x, p, f) ==
  \/ x = ChargeCall(x.orderId, p) /\ p.status # "ABSENT"
  \/ x = RefundOf(x.orderId, f) /\ f.status # "ABSENT"

(* The account of an order and the calls the provider executed for it.      *)
AccountTrue(o, a, p, f, req) ==
  /\ a \in Account
  /\ a.status = "ABSENT" => a = NoAccount
  /\ a.status \in {"CHARGED", "REFUNDED"} =>
       /\ Served(req, ChargeCall(o, p), "CHARGED")
       /\ a.sagaId = p.sagaId /\ a.method = p.method /\ p.status # "ABSENT"
  /\ a.status \in {"REFUNDED", "NOOP"} =>
       /\ Served(req, RefundOf(o, f), a.status)
       /\ a.sagaId = f.sagaId /\ f.status # "ABSENT"
  /\ \A r \in req : r.call.orderId = o =>
       IF r.call.operation = "CHARGE_PAYMENT"
       THEN /\ r.result \in {"CHARGED", "PAYMENT_DECLINED", "ALREADY_COMPENSATED"}
            /\ r.result = "CHARGED" <=> a.status \in {"CHARGED", "REFUNDED"}
       ELSE r.result \in {"REFUNDED", "NOOP"} /\ a.status = r.result

-----------------------------------------------------------------------------
(* An execution of the order whose rows are p and f.                       *)

ExecutionTrue(e, p, f, made) ==
  LET c == e.command
      o == c.orderId IN
  /\ e \in Execution
  /\ e.phase = "read" => e.payment = p /\ e.refund = f /\ e.result = None
  /\ e.phase = "refund" => c.operation = "REFUND_PAYMENT" /\ e.payment = p /\ e.result = None
  /\ e.phase = "charging" =>
       p.status = "PENDING" /\ ChargeCall(o, p) \in made /\ e.result = None
  /\ e.phase = "charged" =>
       /\ e.result # None /\ e.result = p.chargeResult
       /\ p.status = ChargeStatus(p, e.result)
  /\ e.phase = "refunding" =>
       /\ c.operation = "REFUND_PAYMENT"
       /\ p.chargeResult = "CHARGED" /\ f.status = "PENDING" /\ RefundCall(c) \in made
  /\ e.phase # "read" /\ p.status # "ABSENT" => p.sagaId = c.sagaId
  /\ e.phase # "read" /\ c.operation = "CHARGE_PAYMENT" =>
       f.status = "ABSENT" /\ p.status # "ABSENT"
  /\ e.phase # "read" /\ c.operation = "REFUND_PAYMENT" =>
       /\ f.status # "ABSENT" /\ f.sagaId = c.sagaId
       /\ e.refund = f \/ (e.refund = NoRefund /\ f.status = "PENDING")
       /\ e.phase # "refund" => f.status = "PENDING"
       /\ e.phase \in {"charging", "charged"} => e.payment.status = "PENDING"

-----------------------------------------------------------------------------
(* Receipts and answers.                                                   *)

(* A result that a command may have been given, as the rows are.            *)
Fits(c, result, p, f) ==
  /\ c.operation = "CHARGE_PAYMENT" =>
       /\ result \in {"CHARGED"} \cup Refusals
       /\ result \in {"CHARGED", "PAYMENT_DECLINED"} => p.chargeResult = result
  /\ c.operation = "REFUND_PAYMENT" =>
       /\ result \in {"REFUNDED", "NOOP"} /\ f.status = result /\ f.sagaId = c.sagaId
       /\ p.status # "ABSENT" => p.sagaId = c.sagaId

ForeignTo(c, p, f) ==
  \/ p.status # "ABSENT" /\ p.sagaId # c.sagaId
  \/ f.status # "ABSENT" /\ f.sagaId # c.sagaId

ReceiptTrue(r, p, f) == r \in Receipt /\ (r.result # None => Fits(r.command, r.result, p, f))

AnswerTrue(a, rs, p, f) ==
  /\ a \in Answer
  /\ \/ [command |-> a.command, result |-> a.result] \in rs
     \/ a.command.operation = "REFUND_PAYMENT" /\ a.result = TurnedDown
     \/ /\ a.result = "IDEMPOTENCY_CONFLICT"
        /\ \/ \E r \in rs : /\ r.command.idempotencyKey = a.command.idempotencyKey
                            /\ r.command # a.command
           \/ a.command.operation = "REFUND_PAYMENT" /\ ForeignTo(a.command, p, f)

-----------------------------------------------------------------------------
(* The invariant.                                                          *)

Shape ==
  /\ DOMAIN payments = Orders /\ payments \in [Orders -> Payment]
  /\ refunds \in [Orders -> Refund]
  /\ accounts \in [Orders -> Account]
  /\ DOMAIN run = Sessions
  /\ calls \subseteq Call
  /\ requests \subseteq [call : Call, result : Results]

RowsOK == \A o \in Orders : RowTrue(o, payments[o], refunds[o], requests)

CallsOK == \A x \in calls : CallTrue(x, payments[x.orderId], refunds[x.orderId])

ProviderOK ==
  /\ \A r \in requests : r.call \in calls
  /\ \A q, r \in requests : q.call = r.call => q = r
  /\ \A o \in Orders : AccountTrue(o, accounts[o], payments[o], refunds[o], requests)

LockOK == \A s, t \in Sessions : run[s] # Idle /\ run[t] # Idle /\ OrderOf(s) = OrderOf(t) => s = t

ExecutionsOK ==
  \A s \in Sessions : run[s] # Idle =>
    /\ ExecutionTrue(run[s], payments[OrderOf(s)], refunds[OrderOf(s)], calls)
    /\ [command |-> run[s].command, result |-> None] \in receipts

ReceiptsOK ==
  /\ \A r \in receipts :
       ReceiptTrue(r, payments[r.command.orderId], refunds[r.command.orderId])
  /\ \A q, r \in receipts :
       q.command.idempotencyKey = r.command.idempotencyKey => q = r

AnswersOK ==
  \A a \in answers :
    AnswerTrue(a, receipts, payments[a.command.orderId], refunds[a.command.orderId])

IInv ==
  Shape /\ RowsOK /\ CallsOK /\ ProviderOK /\ LockOK /\ ExecutionsOK /\ ReceiptsOK /\ AnswersOK
-----------------------------------------------------------------------------
(* Commands, calls and results.                                            *)

LEMMA CommandFacts ==
  ASSUME NEW c \in Commands
  PROVE  /\ c.orderId \in Orders /\ c.sagaId \in Sagas /\ c.sagaId # None
         /\ c.amount \in Amounts /\ c.operation \in Operations
         /\ c.operation = "CHARGE_PAYMENT" => c.amount # None /\ c.method \in Methods
         /\ SagaOf(c.orderId, c.sagaId)
  BY ConstantsAssumption DEF Orders, Sagas, Amounts, SagaOf

LEMMA SameCommand ==
  ASSUME NEW c \in Commands, NEW d \in Commands,
         c.idempotencyKey = d.idempotencyKey, SameContent(c, d)
  PROVE  c = d
  <1>1. /\ c = [idempotencyKey |-> c.idempotencyKey, operation |-> c.operation,
                orderId |-> c.orderId, sagaId |-> c.sagaId,
                amount |-> c.amount, method |-> c.method]
        /\ d = [idempotencyKey |-> d.idempotencyKey, operation |-> d.operation,
                orderId |-> d.orderId, sagaId |-> d.sagaId,
                amount |-> d.amount, method |-> d.method]
    BY ConstantsAssumption
  <1>2. /\ [c EXCEPT !.idempotencyKey = None].operation = c.operation
        /\ [c EXCEPT !.idempotencyKey = None].orderId = c.orderId
        /\ [c EXCEPT !.idempotencyKey = None].sagaId = c.sagaId
        /\ [c EXCEPT !.idempotencyKey = None].amount = c.amount
        /\ [c EXCEPT !.idempotencyKey = None].method = c.method
    BY <1>1
  <1>3. /\ [d EXCEPT !.idempotencyKey = None].operation = d.operation
        /\ [d EXCEPT !.idempotencyKey = None].orderId = d.orderId
        /\ [d EXCEPT !.idempotencyKey = None].sagaId = d.sagaId
        /\ [d EXCEPT !.idempotencyKey = None].amount = d.amount
        /\ [d EXCEPT !.idempotencyKey = None].method = d.method
    BY <1>1
  <1> QED
    BY <1>1, <1>2, <1>3 DEF SameContent

(* Sagas do not share orders, so a call is known by its key.                *)
LEMMA SameKeyEqual ==
  ASSUME IInv, NEW x \in calls, NEW y \in calls, SameKey(x, y)
  PROVE  x = y
  <1> DEFINE True(z) == CallTrue(z, payments[z.orderId], refunds[z.orderId])
  <1>1. /\ x \in Call /\ y \in Call /\ True(x) /\ True(y)
        /\ x.orderId \in Orders /\ y.orderId \in Orders
    BY DEF IInv, Shape, CallsOK, Call
  <1>2. ASSUME NEW z \in calls, True(z), z.orderId \in Orders
        PROVE  SagaOf(z.orderId, z.sagaId)
    <2>1. RowTrue(z.orderId, payments[z.orderId], refunds[z.orderId], requests)
      BY <1>2 DEF IInv, RowsOK
    <2> QED
      BY <1>2, <2>1 DEF RowTrue, CallTrue, ChargeCall, RefundOf
  <1>3. x.orderId = y.orderId
    BY <1>1, <1>2, SagaAssumption DEF SameKey, SagaOf
  <1> QED
    BY <1>1, <1>3 DEF CallTrue, SameKey, ChargeCall, RefundOf

LEMMA AnswerIsServed ==
  ASSUME IInv, NEW x \in calls, NEW result, ProviderAnswer(x, result)
  PROVE  Served(requests, x, result)
  <1>1. PICK r \in requests : /\ SameKey(r.call, x)
                              /\ result = IF r.call = x THEN r.result ELSE "IDEMPOTENCY_CONFLICT"
    BY DEF ProviderAnswer
  <1>2. r.call \in calls /\ r = [call |-> r.call, result |-> r.result]
    BY DEF IInv, ProviderOK, Shape
  <1>3. r.call = x
    BY <1>1, <1>2, SameKeyEqual
  <1> QED
    BY <1>1, <1>2, <1>3 DEF Served

LEMMA ServedOnce ==
  ASSUME IInv, NEW x, NEW a, NEW b, Served(requests, x, a), Served(requests, x, b)
  PROVE  a = b
  BY DEF IInv, ProviderOK, Served

-----------------------------------------------------------------------------
(* What holds of a row goes on to hold of what the row becomes.            *)

LEMMA CallKept ==
  ASSUME NEW p, NEW f, NEW q, NEW g, RowGrows(p, f, q, g), NEW x, CallTrue(x, p, f)
  PROVE  CallTrue(x, q, g)
  BY DEF RowGrows, CallTrue, ChargeCall, RefundOf

LEMMA AccountKept ==
  ASSUME NEW p, NEW f, NEW q, NEW g, RowGrows(p, f, q, g),
         NEW o, NEW a, NEW req, AccountTrue(o, a, p, f, req)
  PROVE  AccountTrue(o, a, q, g, req)
  <1>1. p.status # "ABSENT" => ChargeCall(o, q) = ChargeCall(o, p)
    BY DEF RowGrows, ChargeCall
  <1>2. f.status # "ABSENT" => RefundOf(o, g) = RefundOf(o, f)
    BY DEF RowGrows, RefundOf
  <1> QED
    BY <1>1, <1>2 DEF RowGrows, AccountTrue

LEMMA FitsKept ==
  ASSUME NEW p, NEW f, NEW q, NEW g, RowGrows(p, f, q, g),
         NEW c, NEW result, Fits(c, result, p, f)
  PROVE  Fits(c, result, q, g)
  BY DEF RowGrows, Fits, None

LEMMA ForeignKept ==
  ASSUME NEW p, NEW f, NEW q, NEW g, RowGrows(p, f, q, g), NEW c, ForeignTo(c, p, f)
  PROVE  ForeignTo(c, q, g)
  BY DEF RowGrows, ForeignTo

LEMMA RowGrowsItself ==
  ASSUME NEW p, NEW f
  PROVE  RowGrows(p, f, p, f)
  BY DEF RowGrows
-----------------------------------------------------------------------------
(* A step of an execution changes the rows of its order only, and hands    *)
(* out what its receipt or the rows vouch for.                             *)

OnItsOrder(s, e, q, g) ==
  /\ run' = [run EXCEPT ![s] = e]
  /\ payments' = [payments EXCEPT ![OrderOf(s)] = q]
  /\ refunds' = [refunds EXCEPT ![OrderOf(s)] = g]
  /\ UNCHANGED provider

RowsMove(s, q, g) ==
  /\ RowTrue(OrderOf(s), q, g, requests)
  /\ RowGrows(payments[OrderOf(s)], refunds[OrderOf(s)], q, g)

CallsGrow(s, q, g) ==
  /\ calls \subseteq calls' /\ calls' \subseteq Call
  /\ \A x \in calls' \ calls : x.orderId = OrderOf(s) /\ CallTrue(x, q, g)

Goes(s, e, q, g) ==
  \/ e = Idle
  \/ /\ receipts' = receipts
     /\ e.command = run[s].command
     /\ ExecutionTrue(e, q, g, calls')

Receipts(s, e, q, g) ==
  \/ receipts' = receipts
  \/ e = Idle /\ \E result \in Results :
       CompleteReceipt(s, result) /\ Fits(run[s].command, result, q, g)

AnswersGrow(s, q, g) ==
  \/ answers' = answers
  \/ \E a : /\ answers' = answers \cup {a}
           /\ a.command = run[s].command
           /\ AnswerTrue(a, receipts', q, g)

LEMMA RunFacts ==
  ASSUME IInv, NEW s \in Sessions, run[s] # Idle
  PROVE  /\ run[s] \in Execution /\ run[s].command \in Commands /\ OrderOf(s) \in Orders
         /\ payments[OrderOf(s)] \in Payment /\ refunds[OrderOf(s)] \in Refund
         /\ RowTrue(OrderOf(s), payments[OrderOf(s)], refunds[OrderOf(s)], requests)
         /\ ExecutionTrue(run[s], payments[OrderOf(s)], refunds[OrderOf(s)], calls)
         /\ [command |-> run[s].command, result |-> None] \in receipts
         /\ AccountTrue(OrderOf(s), accounts[OrderOf(s)], payments[OrderOf(s)],
                        refunds[OrderOf(s)], requests)
  <1>1. ExecutionTrue(run[s], payments[OrderOf(s)], refunds[OrderOf(s)], calls)
        /\ [command |-> run[s].command, result |-> None] \in receipts
    BY DEF IInv, ExecutionsOK
  <1>2. run[s] \in Execution
    BY <1>1 DEF ExecutionTrue
  <1>3. run[s].command \in Commands
    BY <1>2 DEF Execution
  <1>4. OrderOf(s) \in Orders
    BY <1>3, CommandFacts DEF OrderOf
  <1> QED
    BY <1>1, <1>2, <1>3, <1>4 DEF IInv, Shape, RowsOK, ProviderOK

(* The open receipt of a command is the only one that is completed.         *)
LEMMA CompletedReceipts ==
  ASSUME IInv, NEW s \in Sessions, run[s] # Idle, NEW result \in Results,
         CompleteReceipt(s, result)
  PROVE  /\ [command |-> run[s].command, result |-> result] \in receipts'
         /\ \A r \in receipts :
              r.command # run[s].command \/ r.result # None => r \in receipts'
         /\ \A r \in receipts : \E q \in receipts' : q.command = r.command
         /\ \A q \in receipts' :
              \/ q \in receipts
              \/ q = [command |-> run[s].command, result |-> result]
         /\ \A q, r \in receipts' :
              q.command.idempotencyKey = r.command.idempotencyKey => q = r
  <1> DEFINE open == [command |-> run[s].command, result |-> None]
             done == [command |-> run[s].command, result |-> result]
             Image(r) == IF r.command = run[s].command THEN [r EXCEPT !.result = result] ELSE r
  <1>1. open \in receipts
    BY RunFacts
  <1>2. /\ \A r \in receipts : r = [command |-> r.command, result |-> r.result]
        /\ \A q, r \in receipts :
             q.command.idempotencyKey = r.command.idempotencyKey => q = r
    BY DEF IInv, ReceiptsOK, ReceiptTrue, Receipt
  <1>3. \A r \in receipts : r.command = run[s].command => r = open
    BY <1>1, <1>2
  <1>4. \A r \in receipts : Image(r) = IF r.command = run[s].command THEN done ELSE r
    BY <1>3
  <1>5. receipts' = {Image(r) : r \in receipts}
    BY DEF CompleteReceipt
  <1>6. receipts' = (receipts \ {open}) \cup {done}
    BY <1>1, <1>3, <1>4, <1>5
  <1>7. \A r \in receipts : r.command # run[s].command \/ r.result # None => r # open
    OBVIOUS
  <1>8. \A q \in receipts' : \E r \in receipts : q.command = r.command /\ q = Image(r)
    BY <1>1, <1>4, <1>5
  <1>9. ASSUME NEW r \in receipts PROVE \E q \in receipts' : q.command = r.command
    <2>1. Image(r) \in receipts'
      BY <1>5
    <2>2. Image(r).command = r.command
      BY <1>4
    <2> QED
      BY <2>1, <2>2
  <1>10. \A q, r \in receipts' :
           q.command.idempotencyKey = r.command.idempotencyKey => q = r
    BY <1>2, <1>8
  <1> QED
    BY <1>6, <1>7, <1>9, <1>10

LEMMA AnswersKept ==
  ASSUME NEW a, NEW rs, NEW new, NEW p, NEW f, NEW q, NEW g,
         AnswerTrue(a, rs, p, f), RowGrows(p, f, q, g),
         \A r \in rs : r.result # None => r \in new,
         \A r \in rs : \E n \in new : n.command = r.command
  PROVE  AnswerTrue(a, new, q, g)
  <1>1. a \in Answer /\ a.result # None
    BY DEF AnswerTrue, Answer, Results, Refusals, TurnedDown, None
  <1>2. CASE [command |-> a.command, result |-> a.result] \in rs
    BY <1>1, <1>2 DEF AnswerTrue
  <1>3. CASE \E r \in rs : /\ r.command.idempotencyKey = a.command.idempotencyKey
                           /\ r.command # a.command
                           /\ a.result = "IDEMPOTENCY_CONFLICT"
    <2>1. PICK r \in rs : /\ r.command.idempotencyKey = a.command.idempotencyKey
                          /\ r.command # a.command
                          /\ a.result = "IDEMPOTENCY_CONFLICT"
      BY <1>3
    <2>2. PICK n \in new : n.command = r.command
      BY <2>1
    <2> QED
      BY <1>1, <2>1, <2>2 DEF AnswerTrue
  <1>4. CASE /\ a.result = "IDEMPOTENCY_CONFLICT"
             /\ a.command.operation = "REFUND_PAYMENT" /\ ForeignTo(a.command, p, f)
    BY <1>1, <1>4, ForeignKept DEF AnswerTrue
  <1>5. CASE a.command.operation = "REFUND_PAYMENT" /\ a.result = TurnedDown
    BY <1>1, <1>5 DEF AnswerTrue
  <1> QED
    BY <1>2, <1>3, <1>4, <1>5 DEF AnswerTrue

LEMMA ServiceStep ==
  ASSUME IInv, NEW s \in Sessions, run[s] # Idle, NEW e, NEW q, NEW g,
         OnItsOrder(s, e, q, g), RowsMove(s, q, g), CallsGrow(s, q, g),
         Goes(s, e, q, g), Receipts(s, e, q, g), AnswersGrow(s, q, g)
  PROVE  IInv'
  <1> DEFINE o == OrderOf(s)
             p == payments[o]
             f == refunds[o]
  <1>1. /\ run[s].command \in Commands /\ o \in Orders /\ run[s].command.orderId = o
        /\ RowTrue(o, p, f, requests) /\ RowGrows(p, f, q, g) /\ RowTrue(o, q, g, requests)
        /\ q \in Payment /\ g \in Refund
    BY RunFacts DEF RowsMove, OrderOf, RowTrue
  <1>2. /\ payments \in [Orders -> Payment] /\ refunds \in [Orders -> Refund]
        /\ DOMAIN run = Sessions
    BY DEF IInv, Shape
  <1>3. /\ payments'[o] = q /\ refunds'[o] = g
        /\ \A x \in Orders \ {o} : payments'[x] = payments[x] /\ refunds'[x] = refunds[x]
        /\ payments' \in [Orders -> Payment] /\ refunds' \in [Orders -> Refund]
        /\ DOMAIN run' = Sessions /\ run'[s] = e
        /\ \A t \in Sessions \ {s} : run'[t] = run[t]
        /\ accounts' = accounts /\ requests' = requests
    BY <1>1, <1>2 DEF OnItsOrder, provider
  <1>4. \A x \in Orders : RowGrows(payments[x], refunds[x], payments'[x], refunds'[x])
    BY <1>1, <1>3, RowGrowsItself
  <1>5. e # Idle => e.command = run[s].command /\ receipts' = receipts
    BY DEF Goes
  <1>6. /\ \A r \in receipts :
             r.command # run[s].command \/ r.result # None => r \in receipts'
        /\ \A r \in receipts : \E n \in receipts' : n.command = r.command
        /\ \A n \in receipts' :
             \/ n \in receipts
             \/ n.command = run[s].command /\ n \in Receipt /\ Fits(n.command, n.result, q, g)
        /\ \A n, r \in receipts' :
             n.command.idempotencyKey = r.command.idempotencyKey => n = r
    <2>1. CASE receipts' = receipts
      BY <2>1 DEF IInv, ReceiptsOK
    <2>2. CASE \E result \in Results :
                 CompleteReceipt(s, result) /\ Fits(run[s].command, result, q, g)
      <3>1. PICK result \in Results :
               CompleteReceipt(s, result) /\ Fits(run[s].command, result, q, g)
        BY <2>2
      <3>2. [command |-> run[s].command, result |-> result] \in Receipt
        BY <1>1 DEF Receipt
      <3> QED
        BY <3>1, <3>2, CompletedReceipts
    <2> QED
      BY <2>1, <2>2 DEF Receipts
  <1>7. Shape'
    BY <1>3 DEF IInv, Shape, CallsGrow
  <1>8. RowsOK'
    BY <1>1, <1>3 DEF IInv, RowsOK
  <1>9. CallsOK'
    <2> SUFFICES ASSUME NEW x \in calls'
                 PROVE  CallTrue(x, payments'[x.orderId], refunds'[x.orderId])
      BY DEF CallsOK
    <2>1. CASE x \in calls
      <3>1. x.orderId \in Orders
        BY <2>1 DEF IInv, Shape, Call
      <3> QED
        BY <2>1, <3>1, <1>4, CallKept DEF IInv, CallsOK
    <2>2. CASE x \notin calls
      BY <2>2, <1>3 DEF CallsGrow
    <2> QED
      BY <2>1, <2>2
  <1>10. ProviderOK'
    <2>1. \A x \in Orders : AccountTrue(x, accounts[x], payments'[x], refunds'[x], requests)
      BY <1>4, AccountKept DEF IInv, ProviderOK
    <2> QED
      BY <2>1, <1>3 DEF IInv, ProviderOK, CallsGrow
  <1>11. LockOK'
    <2>1. \A t \in Sessions : run'[t] # Idle => run[t] # Idle /\ run'[t].command = run[t].command
      BY <1>3, <1>5
    <2> QED
      BY <2>1 DEF IInv, LockOK, OrderOf
  <1>12. ExecutionsOK'
    <2> SUFFICES ASSUME NEW t \in Sessions, run'[t] # Idle
                 PROVE  /\ ExecutionTrue(run'[t], payments'[OrderOf(t)'],
                                         refunds'[OrderOf(t)'], calls')
                        /\ [command |-> run'[t].command, result |-> None] \in receipts'
      BY DEF ExecutionsOK
    <2>1. CASE t = s
      <3>1. e # Idle /\ run'[t] = e /\ OrderOf(t)' = o
        BY <2>1, <1>3, <1>5 DEF OrderOf
      <3> QED
        BY <3>1, <1>3, <1>5, RunFacts DEF Goes
    <2>2. CASE t # s
      <3>1. run'[t] = run[t] /\ OrderOf(t)' = OrderOf(t) /\ OrderOf(t) # o
        BY <2>2, <1>3 DEF IInv, LockOK, OrderOf
      <3>2. /\ ExecutionTrue(run[t], payments[OrderOf(t)], refunds[OrderOf(t)], calls)
            /\ [command |-> run[t].command, result |-> None] \in receipts
            /\ OrderOf(t) \in Orders
        BY <3>1, RunFacts
      <3>3. payments'[OrderOf(t)] = payments[OrderOf(t)] /\ refunds'[OrderOf(t)] = refunds[OrderOf(t)]
        BY <3>1, <3>2, <1>3
      <3>4. ExecutionTrue(run[t], payments[OrderOf(t)], refunds[OrderOf(t)], calls')
        BY <3>2 DEF ExecutionTrue, CallsGrow
      <3>5. run[t].command # run[s].command
        BY <3>1 DEF OrderOf
      <3> QED
        BY <3>1, <3>2, <3>3, <3>4, <3>5, <1>6
    <2> QED
      BY <2>1, <2>2
  <1>13. ReceiptsOK'
    <2>1. ASSUME NEW n \in receipts'
          PROVE  ReceiptTrue(n, payments'[n.command.orderId], refunds'[n.command.orderId])
      <3>1. CASE n \in receipts
        <4>1. ReceiptTrue(n, payments[n.command.orderId], refunds[n.command.orderId])
          BY <3>1 DEF IInv, ReceiptsOK
        <4>2. n.command.orderId \in Orders
          BY <4>1, CommandFacts DEF ReceiptTrue, Receipt
        <4> QED
          BY <4>1, <4>2, <1>4, FitsKept DEF ReceiptTrue
      <3>2. CASE n \notin receipts
        BY <3>2, <1>1, <1>3, <1>6 DEF ReceiptTrue
      <3> QED
        BY <3>1, <3>2
    <2> QED
      BY <2>1, <1>6 DEF ReceiptsOK
  <1>14. AnswersOK'
    <2> SUFFICES ASSUME NEW a \in answers'
                 PROVE  AnswerTrue(a, receipts', payments'[a.command.orderId],
                                   refunds'[a.command.orderId])
      BY DEF AnswersOK
    <2>1. CASE a \in answers
      <3>1. AnswerTrue(a, receipts, payments[a.command.orderId], refunds[a.command.orderId])
        BY <2>1 DEF IInv, AnswersOK
      <3>2. a.command.orderId \in Orders
        BY <3>1, CommandFacts DEF AnswerTrue, Answer
      <3> QED
        BY <3>1, <3>2, <1>4, <1>6, AnswersKept
    <2>2. CASE a \notin answers
      BY <2>2, <1>1, <1>3 DEF AnswersGrow
    <2> QED
      BY <2>1, <2>2
  <1> QED
    BY <1>7, <1>8, <1>9, <1>10, <1>11, <1>12, <1>13, <1>14 DEF IInv

(* An execution that answers by its receipt.                                *)
LEMMA ConcludeStep ==
  ASSUME IInv, NEW s \in Sessions, run[s] # Idle, NEW q, NEW g, NEW result \in Results,
         OnItsOrder(s, Idle, q, g), RowsMove(s, q, g), calls' = calls,
         CompleteReceipt(s, result), Fits(run[s].command, result, q, g),
         answers' = answers \cup {[command |-> run[s].command, result |-> result]}
  PROVE  IInv'
  <1> DEFINE a == [command |-> run[s].command, result |-> result]
  <1>1. a \in receipts' /\ a \in Answer
    BY CompletedReceipts, RunFacts DEF Answer
  <1>2. AnswerTrue(a, receipts', q, g)
    BY <1>1 DEF AnswerTrue
  <1>3. CallsGrow(s, q, g) /\ Goes(s, Idle, q, g) /\ Receipts(s, Idle, q, g) /\ AnswersGrow(s, q, g)
    BY <1>2 DEF CallsGrow, Goes, Receipts, AnswersGrow, IInv, Shape
  <1> QED
    BY <1>3, ServiceStep

LEMMA KeepRows ==
  ASSUME IInv, NEW s \in Sessions, run[s] # Idle, NEW e, run' = [run EXCEPT ![s] = e],
         UNCHANGED <<payments, refunds, provider>>
  PROVE  /\ OnItsOrder(s, e, payments[OrderOf(s)], refunds[OrderOf(s)])
         /\ RowsMove(s, payments[OrderOf(s)], refunds[OrderOf(s)])
  <1>1. /\ payments' = [payments EXCEPT ![OrderOf(s)] = payments[OrderOf(s)]]
        /\ refunds' = [refunds EXCEPT ![OrderOf(s)] = refunds[OrderOf(s)]]
    BY DEF IInv, Shape
  <1> QED
    BY <1>1, RunFacts, RowGrowsItself DEF OnItsOrder, RowsMove

LEMMA Working ==
  ASSUME NEW s, NEW phase, InPhase(s, phase), phase # "idle"
  PROVE  run[s] # Idle
  BY DEF InPhase, Idle

-----------------------------------------------------------------------------
(* Commands and their receipts.                                            *)

LEMMA BeginStep ==
  ASSUME IInv, NEW s \in Sessions, NEW c \in Commands, Begin(s, c)
  PROVE  IInv'
  <1> DEFINE o == c.orderId
             e == [phase |-> "read", command |-> c, payment |-> payments[o],
                   refund |-> refunds[o], result |-> None]
             new == [command |-> c, result |-> None]
  <1>1. /\ o \in Orders /\ payments[o] \in Payment /\ refunds[o] \in Refund
        /\ DOMAIN run = Sessions
    BY CommandFacts DEF IInv, Shape
  <1>2. /\ run' = [run EXCEPT ![s] = e] /\ receipts' = receipts \cup {new}
        /\ payments' = payments /\ refunds' = refunds /\ calls' = calls /\ answers' = answers
        /\ accounts' = accounts /\ requests' = requests
    BY DEF Begin, provider
  <1>3. e # Idle /\ e.command = c /\ e \in Execution
    BY <1>1 DEF Idle, Execution
  <1>4. /\ run'[s] = e
        /\ \A t \in Sessions \ {s} : run'[t] = run[t]
    BY <1>1, <1>2
  <1>5. ExecutionTrue(e, payments[o], refunds[o], calls)
    BY <1>3 DEF ExecutionTrue
  <1>6. \A r \in receipts : r.command.idempotencyKey = c.idempotencyKey => r = new
    <2> SUFFICES ASSUME NEW r \in receipts, r.command.idempotencyKey = c.idempotencyKey
                 PROVE  r = new
      OBVIOUS
    <2>1. r \in Receipt
      BY DEF IInv, ReceiptsOK, ReceiptTrue
    <2>2. r.command \in Commands /\ r = [command |-> r.command, result |-> r.result]
      BY <2>1 DEF Receipt
    <2>3. r.result = None /\ SameContent(r.command, c)
      BY DEF Begin, ReceiptsFor
    <2> QED
      BY <2>2, <2>3, SameCommand
  <1>7. /\ new \in Receipt /\ new.result = None
        /\ \A r \in receipts' : r \in receipts \/ r = new
    BY <1>2 DEF Receipt
  <1> HIDE DEF e, new
  <1>8. Shape' /\ RowsOK' /\ CallsOK' /\ ProviderOK'
    BY <1>2, <1>1 DEF IInv, Shape, RowsOK, CallsOK, ProviderOK
  <1>9. LockOK'
    <2>1. \A t \in Sessions : run[t] # Idle => run[t].command.orderId # o
      BY DEF Begin, OrderFree, OrderOf
    <2> QED
      BY <2>1, <1>3, <1>4 DEF IInv, LockOK, OrderOf
  <1>10. ExecutionsOK'
    <2> SUFFICES ASSUME NEW t \in Sessions, run'[t] # Idle
                 PROVE  /\ ExecutionTrue(run'[t], payments'[OrderOf(t)'],
                                         refunds'[OrderOf(t)'], calls')
                        /\ [command |-> run'[t].command, result |-> None] \in receipts'
      BY DEF ExecutionsOK
    <2>1. CASE t = s
      <3>1. run'[t] = e /\ OrderOf(t)' = o
        BY <2>1, <1>3, <1>4 DEF OrderOf
      <3> QED
        BY <3>1, <1>2, <1>3, <1>5 DEF new
    <2>2. CASE t # s
      <3>1. run'[t] = run[t] /\ OrderOf(t)' = OrderOf(t)
        BY <2>2, <1>4 DEF OrderOf
      <3> QED
        BY <3>1, <1>2, RunFacts
    <2> QED
      BY <2>1, <2>2
  <1>11. ReceiptsOK'
    BY <1>2, <1>6, <1>7 DEF IInv, ReceiptsOK, ReceiptTrue, new
  <1>12. AnswersOK'
    BY <1>2, RowGrowsItself, AnswersKept DEF IInv, AnswersOK
  <1> QED
    BY <1>8, <1>9, <1>10, <1>11, <1>12 DEF IInv

LEMMA ReplayReceiptStep ==
  ASSUME IInv, NEW s \in Sessions, NEW c \in Commands, ReplayReceipt(s, c)
  PROVE  IInv'
  <1>1. /\ payments' = payments /\ refunds' = refunds /\ receipts' = receipts
        /\ run' = run /\ calls' = calls /\ accounts' = accounts /\ requests' = requests
    BY DEF ReplayReceipt, service, provider
  <1>2. PICK r \in receipts :
          /\ r.command.idempotencyKey = c.idempotencyKey
          /\ \/ /\ ~SameContent(r.command, c)
                /\ answers' = answers \cup {[command |-> c, result |-> "IDEMPOTENCY_CONFLICT"]}
             \/ /\ SameContent(r.command, c) /\ r.result # None
                /\ answers' = answers \cup {[command |-> c, result |-> r.result]}
    BY DEF ReplayReceipt, ReceiptsFor
  <1>3. /\ r.command \in Commands /\ r.result \in Results \cup {None}
        /\ r = [command |-> r.command, result |-> r.result]
    BY DEF IInv, ReceiptsOK, ReceiptTrue, Receipt
  <1>4. \E a : /\ answers' = answers \cup {a}
               /\ AnswerTrue(a, receipts, payments[a.command.orderId],
                             refunds[a.command.orderId])
    <2>1. CASE ~SameContent(r.command, c)
      <3> DEFINE a == [command |-> c, result |-> "IDEMPOTENCY_CONFLICT"]
      <3>1. r.command # c
        BY <2>1 DEF SameContent
      <3>2. a \in Answer
        BY DEF Answer, Results, Refusals
      <3>3. AnswerTrue(a, receipts, payments[a.command.orderId], refunds[a.command.orderId])
        BY <3>1, <3>2, <1>2 DEF AnswerTrue
      <3> QED
        BY <3>3, <2>1, <1>2
    <2>2. CASE SameContent(r.command, c)
      <3> DEFINE a == [command |-> c, result |-> r.result]
      <3>1. r.command = c /\ r.result # None
        BY <2>2, <1>2, <1>3, SameCommand
      <3>2. a \in Answer /\ [command |-> a.command, result |-> a.result] \in receipts
        BY <3>1, <1>3 DEF Answer
      <3>3. AnswerTrue(a, receipts, payments[a.command.orderId], refunds[a.command.orderId])
        BY <3>2 DEF AnswerTrue
      <3> QED
        BY <3>3, <2>2, <1>2
    <2> QED
      BY <2>1, <2>2
  <1>5. AnswersOK'
    BY <1>1, <1>4 DEF IInv, AnswersOK
  <1> QED
    BY <1>1, <1>5 DEF IInv, Shape, RowsOK, CallsOK, ProviderOK, LockOK, ExecutionsOK, ReceiptsOK,
                      OrderOf

LEMMA AbandonStep ==
  ASSUME IInv, NEW s \in Sessions, Abandon(s)
  PROVE  IInv'
  <1> DEFINE p == payments[OrderOf(s)]
             f == refunds[OrderOf(s)]
  <1>1. run[s] # Idle /\ run' = [run EXCEPT ![s] = Idle]
    BY DEF Abandon
  <1>2. OnItsOrder(s, Idle, p, f) /\ RowsMove(s, p, f)
    BY <1>1, KeepRows DEF Abandon, service
  <1>3. CallsGrow(s, p, f) /\ Goes(s, Idle, p, f) /\ Receipts(s, Idle, p, f) /\ AnswersGrow(s, p, f)
    BY DEF Abandon, service, CallsGrow, Goes, Receipts, AnswersGrow, IInv, Shape
  <1> QED
    BY <1>1, <1>2, <1>3, ServiceStep

-----------------------------------------------------------------------------
(* Charging.                                                               *)

LEMMA ConcludeChargeStep ==
  ASSUME IInv, NEW s \in Sessions, run[s] # Idle, NEW result \in Results,
         ConcludeCharge(s, result),
         Fits(run[s].command, result, payments[OrderOf(s)], refunds[OrderOf(s)])
  PROVE  IInv'
  <1>1. /\ run' = [run EXCEPT ![s] = Idle] /\ CompleteReceipt(s, result)
        /\ answers' = answers \cup {[command |-> run[s].command, result |-> result]}
        /\ UNCHANGED <<payments, refunds, provider>> /\ calls' = calls
    BY DEF ConcludeCharge, Respond
  <1> QED
    BY <1>1, KeepRows, ConcludeStep

LEMMA ReadFacts ==
  ASSUME IInv, NEW s \in Sessions, InPhase(s, "read")
  PROVE  /\ run[s] # Idle
         /\ run[s].payment = payments[OrderOf(s)] /\ run[s].refund = refunds[OrderOf(s)]
         /\ run[s].result = None
  BY RunFacts, Working DEF ExecutionTrue, InPhase

LEMMA RefuseConflictStep ==
  ASSUME IInv, NEW s \in Sessions, RefuseConflict(s)
  PROVE  IInv'
  <1> DEFINE c == run[s].command
             p == payments[OrderOf(s)]
             f == refunds[OrderOf(s)]
  <1>1. InPhase(s, "read") /\ Conflicting(s)
    BY DEF RefuseConflict
  <1>2. run[s] # Idle /\ run[s].payment = p /\ run[s].refund = f /\ c \in Commands
    BY <1>1, ReadFacts, RunFacts
  <1>3. "IDEMPOTENCY_CONFLICT" \in Results /\ "IDEMPOTENCY_CONFLICT" \in Refusals
        /\ "IDEMPOTENCY_CONFLICT" \notin {"CHARGED", "PAYMENT_DECLINED"}
    BY DEF Results, Refusals
  <1>4. CASE For(s, "CHARGE_PAYMENT")
    <2>1. Fits(c, "IDEMPOTENCY_CONFLICT", p, f)
      BY <1>4, <1>3 DEF Fits, For
    <2> QED
      BY <1>2, <1>3, <1>4, <2>1, ConcludeChargeStep DEF RefuseConflict
  <1>5. CASE ~For(s, "CHARGE_PAYMENT")
    <2> DEFINE a == [command |-> c, result |-> "IDEMPOTENCY_CONFLICT"]
    <2>1. c.operation = "REFUND_PAYMENT"
      BY <1>2, <1>5, CommandFacts DEF For, Operations
    <2>2. ForeignTo(c, p, f)
      BY <1>1, <1>2, <1>5 DEF Conflicting, Changed, Foreign, ForeignTo
    <2>3. a \in Answer /\ a.command = c /\ AnswerTrue(a, receipts', p, f)
      BY <1>2, <1>3, <2>1, <2>2 DEF Answer, AnswerTrue
    <2>4. /\ run' = [run EXCEPT ![s] = Idle] /\ answers' = answers \cup {a}
          /\ UNCHANGED <<payments, refunds, provider>> /\ calls' = calls /\ receipts' = receipts
      BY <1>5 DEF RefuseConflict, FailRefund, Respond, service
    <2>5. OnItsOrder(s, Idle, p, f) /\ RowsMove(s, p, f)
      BY <1>2, <2>4, KeepRows
    <2>6. CallsGrow(s, p, f) /\ Goes(s, Idle, p, f) /\ Receipts(s, Idle, p, f)
          /\ AnswersGrow(s, p, f)
      BY <2>3, <2>4 DEF CallsGrow, Goes, Receipts, AnswersGrow, IInv, Shape
    <2> QED
      BY <1>2, <2>5, <2>6, ServiceStep
  <1> QED
    BY <1>4, <1>5

LEMMA RefuseChargeStep ==
  ASSUME IInv, NEW s \in Sessions, RefuseCharge(s)
  PROVE  IInv'
  <1>1. run[s] # Idle /\ For(s, "CHARGE_PAYMENT")
        /\ ConcludeCharge(s, "ALREADY_COMPENSATED")
    BY ReadFacts DEF RefuseCharge, Proceeds
  <1>2. "ALREADY_COMPENSATED" \in Results
        /\ Fits(run[s].command, "ALREADY_COMPENSATED", payments[OrderOf(s)], refunds[OrderOf(s)])
    BY <1>1 DEF Results, Refusals, Fits, For
  <1> QED
    BY <1>1, <1>2, ConcludeChargeStep

LEMMA ReplayChargeStep ==
  ASSUME IInv, NEW s \in Sessions, ReplayCharge(s)
  PROVE  IInv'
  <1> DEFINE p == payments[OrderOf(s)]
             f == refunds[OrderOf(s)]
  <1>1. run[s] # Idle /\ For(s, "CHARGE_PAYMENT") /\ p.chargeResult # None
        /\ ConcludeCharge(s, p.chargeResult)
    BY ReadFacts DEF ReplayCharge, Proceeds
  <1>2. p.chargeResult \in {"CHARGED"} \cup Refusals
    BY <1>1, RunFacts DEF Payment
  <1>3. p.chargeResult \in Results /\ Fits(run[s].command, p.chargeResult, p, f)
    BY <1>1, <1>2 DEF Results, Fits, For
  <1> QED
    BY <1>1, <1>3, ConcludeChargeStep

LEMMA FinishChargeStep ==
  ASSUME IInv, NEW s \in Sessions, FinishCharge(s)
  PROVE  IInv'
  <1> DEFINE p == payments[OrderOf(s)]
             f == refunds[OrderOf(s)]
  <1>1. InPhase(s, "charged") /\ For(s, "CHARGE_PAYMENT") /\ ConcludeCharge(s, run[s].result)
    BY DEF FinishCharge
  <1>2. run[s] # Idle
    BY <1>1, Working
  <1>3. run[s].result # None /\ run[s].result = p.chargeResult
    BY <1>1, <1>2, RunFacts DEF ExecutionTrue, InPhase
  <1>4. p.chargeResult \in {"CHARGED"} \cup Refusals
    BY <1>2, <1>3, RunFacts DEF Payment
  <1>5. p.chargeResult \in Results /\ Fits(run[s].command, p.chargeResult, p, f)
    BY <1>1, <1>4 DEF Results, Fits, For
  <1> QED
    BY <1>1, <1>2, <1>3, <1>5, ConcludeChargeStep

LEMMA StartChargeStep ==
  ASSUME IInv, NEW s \in Sessions, StartCharge(s)
  PROVE  IInv'
  <1> DEFINE c == run[s].command
             o == OrderOf(s)
             p == payments[o]
             f == refunds[o]
             new == [NoPayment EXCEPT !.status = "PENDING", !.sagaId = c.sagaId,
                                      !.amount = c.amount, !.method = c.method]
             q == IF p.status = "ABSENT" THEN new ELSE p
             e == [run[s] EXCEPT !.phase = "charging"]
             x == ChargeCall(o, q)
  <1>1. /\ InPhase(s, "read") /\ For(s, "CHARGE_PAYMENT") /\ ~Conflicting(s) /\ ~Compensated(s)
        /\ run[s].payment.chargeResult = None
    BY DEF StartCharge, Proceeds
  <1>2. /\ run[s] # Idle /\ run[s].payment = p /\ run[s].refund = f /\ run[s].result = None
        /\ run[s] \in Execution /\ c \in Commands /\ o \in Orders /\ c.orderId = o
        /\ p \in Payment /\ f \in Refund /\ RowTrue(o, p, f, requests)
    BY <1>1, ReadFacts, RunFacts DEF OrderOf
  <1>3. /\ c.sagaId \in Sagas /\ c.amount \in Amounts /\ c.method \in Methods
        /\ SagaOf(o, c.sagaId) /\ c.operation = "CHARGE_PAYMENT"
    BY <1>1, <1>2, CommandFacts DEF For
  <1>4. /\ f.status = "ABSENT" /\ p.status \in {"ABSENT", "PENDING"}
        /\ p.status # "ABSENT" => p.sagaId = c.sagaId /\ p.method \in Methods
    BY <1>1, <1>2 DEF Compensated, Conflicting, Foreign, RowTrue
  <1>5. /\ new \in Payment /\ new.status = "PENDING" /\ new.sagaId = c.sagaId
        /\ new.method = c.method /\ new.chargeResult = None
    BY <1>3 DEF NoPayment, Payment
  <1>6. /\ q \in Payment /\ q.status = "PENDING" /\ q.sagaId = c.sagaId
        /\ q.method \in Methods /\ q.chargeResult = None
        /\ p.status # "ABSENT" => q = p
    BY <1>1, <1>2, <1>3, <1>4, <1>5
  <1>7. /\ payments' = [payments EXCEPT ![o] = q] /\ run' = [run EXCEPT ![s] = e]
        /\ calls' = calls \cup {x} /\ refunds' = refunds /\ receipts' = receipts
        /\ answers' = answers /\ UNCHANGED provider
    BY <1>2 DEF StartCharge, CallCharge, provider
  <1>8. e \in Execution /\ e.phase = "charging" /\ e.command = c /\ e.result = None
    BY <1>2 DEF Execution
  <1> HIDE DEF q, new, e
  <1>9. x \in Call /\ x.orderId = o /\ CallTrue(x, q, f)
    <2>1. q.sagaId \in Sagas /\ q.amount \in Amounts /\ q.method \in Methods \cup {None}
      BY <1>3, <1>6 DEF Payment
    <2> QED
      BY <2>1, <1>2, <1>6 DEF ChargeCall, Call, CallTrue, Operations
  <1>10. OnItsOrder(s, e, q, f)
    BY <1>7 DEF OnItsOrder, IInv, Shape
  <1>11. RowsMove(s, q, f)
    <2>1. RowTrue(o, q, f, requests)
      BY <1>2, <1>3, <1>4, <1>6 DEF RowTrue, Refusals, None
    <2>2. RowGrows(p, f, q, f)
      BY <1>2, <1>4, <1>6 DEF RowGrows, RowTrue
    <2> QED
      BY <2>1, <2>2 DEF RowsMove
  <1>12. ExecutionTrue(e, q, f, calls')
    <2>1. ChargeCall(c.orderId, q) \in calls'
      BY <1>2, <1>7
    <2> QED
      BY <2>1, <1>3, <1>4, <1>6, <1>8 DEF ExecutionTrue
  <1>13. CallsGrow(s, q, f) /\ Goes(s, e, q, f) /\ Receipts(s, e, q, f) /\ AnswersGrow(s, q, f)
    BY <1>7, <1>8, <1>9, <1>12 DEF CallsGrow, Goes, Receipts, AnswersGrow, IInv, Shape
  <1> QED
    BY <1>2, <1>10, <1>11, <1>13, ServiceStep

(* The provider's result for the one charge that the row asks for.          *)
LEMMA ChargeAnsweredStep ==
  ASSUME IInv, NEW s \in Sessions, ChargeAnswered(s)
  PROVE  IInv'
  <1> DEFINE c == run[s].command
             o == OrderOf(s)
             p == payments[o]
             f == refunds[o]
             x == ChargeCall(o, p)
  <1>1. /\ InPhase(s, "charging")
        /\ UNCHANGED <<refunds, receipts, calls, provider, answers>>
    BY DEF ChargeAnswered
  <1>2. PICK result \in Results :
          /\ ProviderAnswer(x, result)
          /\ payments' = [payments EXCEPT ![o].status = ChargeStatus(p, result),
                                          ![o].chargeResult = result]
          /\ run' = [run EXCEPT ![s].phase = "charged", ![s].result = result]
    BY DEF ChargeAnswered
  <1> DEFINE q == [p EXCEPT !.status = ChargeStatus(p, result), !.chargeResult = result]
             e == [run[s] EXCEPT !.phase = "charged", !.result = result]
  <1>3. /\ run[s] # Idle /\ run[s].phase = "charging"
        /\ run[s] \in Execution /\ c \in Commands /\ o \in Orders /\ c.orderId = o
        /\ p \in Payment /\ f \in Refund /\ RowTrue(o, p, f, requests)
        /\ AccountTrue(o, accounts[o], p, f, requests)
        /\ ExecutionTrue(run[s], p, f, calls)
    BY <1>1, Working, RunFacts DEF OrderOf, InPhase
  <1>4. p.status = "PENDING" /\ x \in calls /\ run[s].result = None
    BY <1>3 DEF ExecutionTrue
  <1>5. Served(requests, x, result)
    BY <1>2, <1>4, AnswerIsServed
  <1>6. result \in {"CHARGED", "PAYMENT_DECLINED", "ALREADY_COMPENSATED"}
    <2>1. [call |-> x, result |-> result].call.orderId = o
          /\ [call |-> x, result |-> result].call.operation = "CHARGE_PAYMENT"
      BY DEF ChargeCall
    <2> QED
      BY <1>3, <1>5, <2>1 DEF AccountTrue, Served
  <1>7. /\ payments' = [payments EXCEPT ![o] = q] /\ run' = [run EXCEPT ![s] = e]
    BY <1>2, <1>3 DEF IInv, Shape
  <1>8. /\ result \in {"CHARGED"} \cup Refusals /\ result # None
        /\ result = "CHARGED" \/ result \in Refusals
        /\ "CHARGED" \notin Refusals
    BY <1>6 DEF Refusals, None
  <1>9. /\ ChargeStatus(p, result) \in {"FAILED", "PAY_ON_DELIVERY", "CHARGED"}
        /\ ChargeStatus(p, result) = "FAILED" <=> result \in Refusals
        /\ ChargeStatus(p, result) = "PAY_ON_DELIVERY" => p.method = "COD"
        /\ ChargeStatus(p, result) = "CHARGED" => p.method # "COD"
    BY <1>8 DEF ChargeStatus
  <1>10. /\ q \in Payment /\ q.status = ChargeStatus(p, result) /\ q.chargeResult = result
         /\ q.sagaId = p.sagaId /\ q.amount = p.amount /\ q.method = p.method
    BY <1>3, <1>8, <1>9 DEF Payment
  <1>11. /\ e \in Execution /\ e.phase = "charged" /\ e.command = c /\ e.result = result
         /\ e.payment = run[s].payment /\ e.refund = run[s].refund
    BY <1>3 DEF Execution
  <1>12. ChargeCall(o, q) = x /\ ChargeStatus(q, result) = ChargeStatus(p, result)
    BY <1>10 DEF ChargeCall, ChargeStatus
  <1> HIDE DEF q, e
  <1>13. OnItsOrder(s, e, q, f)
    BY <1>1, <1>7 DEF OnItsOrder, IInv, Shape
  <1>14. RowsMove(s, q, f)
    <2>1. f.status \in {"ABSENT", "PENDING"}
      BY <1>3 DEF ExecutionTrue, Execution, Operations, RowTrue, Refund, NoRefund, IInv, Shape
    <2>2. RowTrue(o, q, f, requests)
      BY <2>1, <1>3, <1>4, <1>5, <1>8, <1>9, <1>10, <1>12 DEF RowTrue
    <2>3. RowGrows(p, f, q, f)
      BY <2>1, <1>3, <1>4, <1>9, <1>10 DEF RowGrows, RowTrue
    <2> QED
      BY <2>2, <2>3 DEF RowsMove
  <1>15. ExecutionTrue(e, q, f, calls)
    BY <1>3, <1>4, <1>8, <1>9, <1>10, <1>11, <1>12 DEF ExecutionTrue
  <1>16. CallsGrow(s, q, f) /\ Goes(s, e, q, f) /\ Receipts(s, e, q, f) /\ AnswersGrow(s, q, f)
    BY <1>1, <1>11, <1>15 DEF CallsGrow, Goes, Receipts, AnswersGrow, IInv, Shape
  <1> QED
    BY <1>3, <1>13, <1>14, <1>16, ServiceStep

-----------------------------------------------------------------------------
(* Refunding.                                                              *)

LEMMA RequestRefundStep ==
  ASSUME IInv, NEW s \in Sessions, RequestRefund(s)
  PROVE  IInv'
  <1> DEFINE c == run[s].command
             o == OrderOf(s)
             p == payments[o]
             f == refunds[o]
             new == [status |-> "PENDING", sagaId |-> c.sagaId]
             g == IF f = NoRefund THEN new ELSE f
             e == [run[s] EXCEPT !.phase = "refund"]
  <1>1. /\ InPhase(s, "read") /\ For(s, "REFUND_PAYMENT") /\ ~Conflicting(s)
        /\ run' = [run EXCEPT ![s].phase = "refund"]
        /\ UNCHANGED <<payments, receipts, calls, provider, answers>>
    BY DEF RequestRefund, Proceeds
  <1>2. /\ run[s] # Idle /\ run[s].payment = p /\ run[s].refund = f /\ run[s].result = None
        /\ run[s] \in Execution /\ c \in Commands /\ o \in Orders /\ c.orderId = o
        /\ p \in Payment /\ f \in Refund /\ RowTrue(o, p, f, requests)
    BY <1>1, ReadFacts, RunFacts DEF OrderOf
  <1>3. c.sagaId \in Sagas /\ SagaOf(o, c.sagaId) /\ c.operation = "REFUND_PAYMENT"
    BY <1>1, <1>2, CommandFacts DEF For
  <1>4. /\ p.status # "ABSENT" => p.sagaId = c.sagaId
        /\ f.status # "ABSENT" => f.sagaId = c.sagaId
        /\ f.status = "ABSENT" <=> f = NoRefund
    BY <1>1, <1>2 DEF Conflicting, Foreign, RowTrue, NoRefund
  <1>5. /\ g \in Refund /\ g.status # "ABSENT" /\ g.sagaId = c.sagaId
        /\ f.status # "ABSENT" => g = f
        /\ f.status = "ABSENT" => g.status = "PENDING" /\ f = NoRefund
    BY <1>2, <1>3, <1>4 DEF Refund
  <1>6. refunds' = [refunds EXCEPT ![o] = g] /\ run' = [run EXCEPT ![s] = e]
    BY <1>1 DEF RequestRefund, IInv, Shape
  <1>7. /\ e \in Execution /\ e.phase = "refund" /\ e.command = c /\ e.result = None
        /\ e.payment = p /\ e.refund = f
    BY <1>2 DEF Execution
  <1> HIDE DEF g, e, new
  <1>8. OnItsOrder(s, e, p, g)
    BY <1>1, <1>6 DEF OnItsOrder, IInv, Shape
  <1>9. RowsMove(s, p, g)
    <2>1. /\ f.status = "ABSENT" => p.status # "REFUNDED"
          /\ g.status = "REFUNDED" => g = f
          /\ g.status = "NOOP" => g = f
      BY <1>2, <1>5 DEF RowTrue
    <2>2. RowTrue(o, p, g, requests)
      BY <2>1, <1>2, <1>3, <1>4, <1>5 DEF RowTrue
    <2>3. RowGrows(p, f, p, g)
      BY <1>4, <1>5 DEF RowGrows
    <2> QED
      BY <2>2, <2>3 DEF RowsMove
  <1>10. ExecutionTrue(e, p, g, calls)
    BY <1>3, <1>4, <1>5, <1>7 DEF ExecutionTrue
  <1>11. CallsGrow(s, p, g) /\ Goes(s, e, p, g) /\ Receipts(s, e, p, g) /\ AnswersGrow(s, p, g)
    BY <1>1, <1>7, <1>10 DEF CallsGrow, Goes, Receipts, AnswersGrow, IInv, Shape
  <1> QED
    BY <1>2, <1>8, <1>9, <1>11, ServiceStep

(* The last transaction of a refund marks what the provider answered.       *)
LEMMA ConcludeRefundStep ==
  ASSUME IInv, NEW s \in Sessions, run[s] # Idle, run[s].command.operation = "REFUND_PAYMENT",
         NEW result \in {"REFUNDED", "NOOP"}, ConcludeRefund(s, result),
         NEW q, NEW g,
         q = IF result = "REFUNDED" /\ payments[OrderOf(s)].chargeResult = "CHARGED"
             THEN [payments[OrderOf(s)] EXCEPT !.status = "REFUNDED"] ELSE payments[OrderOf(s)],
         g = [refunds[OrderOf(s)] EXCEPT !.status = result],
         RowsMove(s, q, g), g.sagaId = run[s].command.sagaId,
         q.status # "ABSENT" => q.sagaId = run[s].command.sagaId
  PROVE  IInv'
  <1>1. /\ run' = [run EXCEPT ![s] = Idle] /\ CompleteReceipt(s, result)
        /\ answers' = answers \cup {[command |-> run[s].command, result |-> result]}
        /\ calls' = calls /\ UNCHANGED provider
    BY DEF ConcludeRefund, Respond
  <1>2. /\ payments' = [payments EXCEPT ![OrderOf(s)] = q]
        /\ refunds' = [refunds EXCEPT ![OrderOf(s)] = g]
    BY DEF ConcludeRefund, IInv, Shape
  <1>3. OnItsOrder(s, Idle, q, g)
    BY <1>1, <1>2 DEF OnItsOrder
  <1>4. g.status = result
    BY RunFacts DEF Refund
  <1>5. Fits(run[s].command, result, q, g) /\ result \in Results
    BY <1>4 DEF Fits, Results
  <1> QED
    BY <1>1, <1>3, <1>5, ConcludeStep

(* What an execution of a refund that was requested knows of its order.     *)
LEMMA RefundingFacts ==
  ASSUME IInv, NEW s \in Sessions, NEW phase \in {"refund", "charged", "refunding"},
         InPhase(s, phase), phase # "refund" => For(s, "REFUND_PAYMENT")
  PROVE  /\ run[s] # Idle /\ run[s] \in Execution /\ run[s].command \in Commands
         /\ OrderOf(s) \in Orders /\ run[s].command.orderId = OrderOf(s)
         /\ run[s].command.operation = "REFUND_PAYMENT"
         /\ payments[OrderOf(s)] \in Payment /\ refunds[OrderOf(s)] \in Refund
         /\ RowTrue(OrderOf(s), payments[OrderOf(s)], refunds[OrderOf(s)], requests)
         /\ refunds[OrderOf(s)].status # "ABSENT"
         /\ refunds[OrderOf(s)].sagaId = run[s].command.sagaId
         /\ payments[OrderOf(s)].status # "ABSENT"
              => payments[OrderOf(s)].sagaId = run[s].command.sagaId
         /\ \/ run[s].refund = refunds[OrderOf(s)]
            \/ run[s].refund = NoRefund /\ refunds[OrderOf(s)].status = "PENDING"
         /\ phase = "refund" => run[s].payment = payments[OrderOf(s)] /\ run[s].result = None
         /\ phase # "refund" => refunds[OrderOf(s)].status = "PENDING"
         /\ phase = "charged" =>
              /\ run[s].payment.status = "PENDING" /\ run[s].result # None
              /\ run[s].result = payments[OrderOf(s)].chargeResult
              /\ payments[OrderOf(s)].status
                   = ChargeStatus(payments[OrderOf(s)], run[s].result)
  <1>1. run[s].phase = phase /\ run[s] # Idle
    BY Working DEF InPhase
  <1>2. run[s].command.operation = "REFUND_PAYMENT"
    BY <1>1, RunFacts DEF ExecutionTrue, For
  <1> QED
    BY <1>1, <1>2, RunFacts DEF ExecutionTrue, OrderOf

LEMMA ReplayRefundStep ==
  ASSUME IInv, NEW s \in Sessions, ReplayRefund(s)
  PROVE  IInv'
  <1> DEFINE p == payments[OrderOf(s)]
             f == refunds[OrderOf(s)]
  <1>1. InPhase(s, "refund") /\ Settled(s) /\ ConcludeRefund(s, run[s].refund.status)
    BY DEF ReplayRefund
  <1>2. /\ run[s].refund = f /\ f.status \in {"REFUNDED", "NOOP"}
    BY <1>1, RefundingFacts DEF Settled, NoRefund
  <1>3. [f EXCEPT !.status = f.status] = f
    BY <1>1, RefundingFacts DEF Refund
  <1>4. f.status = "REFUNDED" => [p EXCEPT !.status = "REFUNDED"] = p
    <2>1. p \in Payment /\ (f.status = "REFUNDED" => p.status = "REFUNDED")
      BY <1>1, RefundingFacts DEF RowTrue
    <2> QED
      BY <2>1 DEF Payment
  <1>5. RowsMove(s, p, f)
    BY <1>1, RefundingFacts, RowGrowsItself DEF RowsMove
  <1>6. p = IF f.status = "REFUNDED" /\ p.chargeResult = "CHARGED"
            THEN [p EXCEPT !.status = "REFUNDED"] ELSE p
    BY <1>4
  <1> HIDE DEF p, f
  <1>7. /\ run[s] # Idle /\ run[s].command.operation = "REFUND_PAYMENT"
        /\ ConcludeRefund(s, f.status) /\ f.sagaId = run[s].command.sagaId
        /\ p.status # "ABSENT" => p.sagaId = run[s].command.sagaId
    BY <1>1, <1>2, RefundingFacts DEF p, f
  <1> QED
    BY <1>2, <1>3, <1>5, <1>6, <1>7, ConcludeRefundStep DEF p, f

LEMMA ResolveChargeStep ==
  ASSUME IInv, NEW s \in Sessions, ResolveCharge(s)
  PROVE  IInv'
  <1> DEFINE o == OrderOf(s)
             p == payments[o]
             f == refunds[o]
             e == [run[s] EXCEPT !.phase = "charging"]
             x == ChargeCall(o, p)
  <1>1. /\ InPhase(s, "refund") /\ ~Settled(s) /\ run[s].payment.status = "PENDING"
        /\ run' = [run EXCEPT ![s].phase = "charging"]
        /\ calls' = calls \cup {ChargeCall(o, run[s].payment)}
        /\ UNCHANGED <<service, provider, answers>>
    BY DEF ResolveCharge, CallCharge
  <1>2. /\ run[s] # Idle /\ run[s] \in Execution /\ run[s].command \in Commands /\ o \in Orders
        /\ run[s].command.orderId = o /\ run[s].command.operation = "REFUND_PAYMENT"
        /\ p \in Payment /\ f \in Refund /\ RowTrue(o, p, f, requests)
        /\ f.status # "ABSENT" /\ f.sagaId = run[s].command.sagaId
        /\ p.status # "ABSENT" => p.sagaId = run[s].command.sagaId
        /\ run[s].refund = f \/ (run[s].refund = NoRefund /\ f.status = "PENDING")
        /\ run[s].payment = p /\ run[s].result = None
    BY <1>1, RefundingFacts
  <1>3. p.status = "PENDING" /\ f.status = "PENDING"
    BY <1>1, <1>2 DEF Settled, Refund
  <1>4. /\ run' = [run EXCEPT ![s] = e] /\ calls' = calls \cup {x}
    BY <1>1, <1>2
  <1>5. /\ e \in Execution /\ e.phase = "charging" /\ e.command = run[s].command
        /\ e.result = None /\ e.payment = p /\ e.refund = run[s].refund
    BY <1>2 DEF Execution
  <1> HIDE DEF e
  <1>6. x \in Call /\ x.orderId = o /\ CallTrue(x, p, f)
    <2>1. p.sagaId \in Sagas /\ p.amount \in Amounts /\ p.method \in Methods
      <3>1. SagaOf(o, p.sagaId) /\ p.method \in Methods /\ p.amount \in Amounts
        BY <1>2, <1>3 DEF RowTrue, Payment
      <3> QED
        BY <3>1 DEF SagaOf, Sagas
    <2> QED
      BY <2>1, <1>2, <1>3 DEF ChargeCall, Call, CallTrue, Operations
  <1>7. OnItsOrder(s, e, p, f) /\ RowsMove(s, p, f)
    BY <1>1, <1>2, <1>4, KeepRows DEF service
  <1>8. ExecutionTrue(e, p, f, calls')
    BY <1>2, <1>3, <1>4, <1>5 DEF ExecutionTrue
  <1>9. CallsGrow(s, p, f) /\ Goes(s, e, p, f) /\ Receipts(s, e, p, f) /\ AnswersGrow(s, p, f)
    BY <1>1, <1>4, <1>5, <1>6, <1>8
       DEF service, CallsGrow, Goes, Receipts, AnswersGrow, IInv, Shape
  <1> QED
    BY <1>2, <1>7, <1>9, ServiceStep

(* What a refund has found out when it decides whether money is to go back. *)
LEMMA ReadyFacts ==
  ASSUME IInv, NEW s \in Sessions, ReadyToRefund(s)
  PROVE  /\ refunds[OrderOf(s)].status = "PENDING"
         /\ NothingToRefund(s)
              => payments[OrderOf(s)].status \in {"ABSENT", "FAILED", "PAY_ON_DELIVERY"}
         /\ ~NothingToRefund(s) => payments[OrderOf(s)].chargeResult = "CHARGED"
         /\ \E phase \in {"refund", "charged"} :
              InPhase(s, phase) /\ (phase = "charged" => For(s, "REFUND_PAYMENT"))
  <1> DEFINE p == payments[OrderOf(s)]
             f == refunds[OrderOf(s)]
  <1>1. CASE InPhase(s, "refund") /\ ~Settled(s) /\ run[s].payment.status # "PENDING"
    <2>1. /\ run[s].payment = p /\ run[s].result = None /\ p.status # "PENDING"
          /\ f \in Refund /\ f.status # "ABSENT" /\ p \in Payment
          /\ run[s].refund = f \/ (run[s].refund = NoRefund /\ f.status = "PENDING")
          /\ RowTrue(OrderOf(s), p, f, requests)
      BY <1>1, RefundingFacts
    <2>2. f.status = "PENDING"
      BY <2>1, <1>1 DEF Settled, Refund
    <2>3. None \notin Refusals
      BY DEF None, Refusals
    <2>4. p.status # "REFUNDED"
      BY <2>1, <2>2 DEF RowTrue
    <2>5. NothingToRefund(s) <=> p.status \in {"ABSENT", "FAILED", "PAY_ON_DELIVERY"}
      BY <2>1, <2>3 DEF NothingToRefund
    <2>6. p.status = "CHARGED" => p.chargeResult = "CHARGED"
      BY <2>1 DEF RowTrue, Payment
    <2>7. p.status \in {"ABSENT", "PENDING", "PAY_ON_DELIVERY", "CHARGED", "REFUNDED", "FAILED"}
      BY <2>1 DEF Payment
    <2> QED
      BY <2>1, <2>2, <2>4, <2>5, <2>6, <2>7, <1>1
  <1>2. CASE InPhase(s, "charged") /\ For(s, "REFUND_PAYMENT")
    <2>1. /\ f.status = "PENDING" /\ run[s].payment.status = "PENDING" /\ run[s].result # None
          /\ run[s].result = p.chargeResult /\ p.status = ChargeStatus(p, run[s].result)
          /\ p \in Payment
      BY <1>2, RefundingFacts
    <2>2. p.chargeResult \in {"CHARGED"} \cup Refusals /\ "CHARGED" \notin Refusals
      BY <2>1 DEF Payment, Refusals
    <2>3. NothingToRefund(s) <=> p.chargeResult \in Refusals
      BY <2>1 DEF NothingToRefund
    <2>4. p.chargeResult \in Refusals => p.status = "FAILED"
      BY <2>1, <2>2 DEF ChargeStatus
    <2> QED
      BY <2>1, <2>2, <2>3, <2>4, <1>2
  <1> QED
    BY <1>1, <1>2 DEF ReadyToRefund

LEMMA SkipRefundStep ==
  ASSUME IInv, NEW s \in Sessions, SkipRefund(s)
  PROVE  IInv'
  <1> DEFINE p == payments[OrderOf(s)]
             f == refunds[OrderOf(s)]
             g == [f EXCEPT !.status = "NOOP"]
  <1>1. ReadyToRefund(s) /\ NothingToRefund(s) /\ ConcludeRefund(s, "NOOP")
    BY DEF SkipRefund
  <1>2. f.status = "PENDING" /\ p.status \in {"ABSENT", "FAILED", "PAY_ON_DELIVERY"}
    BY <1>1, ReadyFacts
  <1>3. PICK phase \in {"refund", "charged"} :
          InPhase(s, phase) /\ (phase = "charged" => For(s, "REFUND_PAYMENT"))
    BY <1>1, ReadyFacts
  <1>4. /\ run[s] # Idle /\ run[s].command.operation = "REFUND_PAYMENT"
        /\ p \in Payment /\ f \in Refund /\ RowTrue(OrderOf(s), p, f, requests)
        /\ f.sagaId = run[s].command.sagaId
        /\ p.status # "ABSENT" => p.sagaId = run[s].command.sagaId
    BY <1>3, RefundingFacts
  <1>5. g \in Refund /\ g.status = "NOOP" /\ g.sagaId = f.sagaId
    BY <1>4 DEF Refund
  <1> HIDE DEF g
  <1>6. RowsMove(s, p, g)
    <2>1. RowTrue(OrderOf(s), p, g, requests)
      BY <1>2, <1>4, <1>5 DEF RowTrue
    <2>2. RowGrows(p, f, p, g)
      BY <1>2, <1>5 DEF RowGrows
    <2> QED
      BY <2>1, <2>2 DEF RowsMove
  <1>7. p = IF "NOOP" = "REFUNDED" /\ p.chargeResult = "CHARGED"
            THEN [p EXCEPT !.status = "REFUNDED"] ELSE p
    OBVIOUS
  <1>8. g = [f EXCEPT !.status = "NOOP"]
    BY DEF g
  <1> HIDE DEF p, f
  <1> QED
    BY <1>1, <1>4, <1>5, <1>6, <1>7, <1>8, ConcludeRefundStep DEF p, f

LEMMA StartRefundStep ==
  ASSUME IInv, NEW s \in Sessions, StartRefund(s)
  PROVE  IInv'
  <1> DEFINE c == run[s].command
             o == OrderOf(s)
             p == payments[o]
             f == refunds[o]
             e == [run[s] EXCEPT !.phase = "refunding"]
             x == RefundCall(c)
  <1>1. /\ ReadyToRefund(s) /\ ~NothingToRefund(s)
        /\ run' = [run EXCEPT ![s].phase = "refunding"] /\ calls' = calls \cup {x}
        /\ UNCHANGED <<service, provider, answers>>
    BY DEF StartRefund
  <1>2. f.status = "PENDING" /\ p.chargeResult = "CHARGED"
    BY <1>1, ReadyFacts
  <1>3. PICK phase \in {"refund", "charged"} :
          InPhase(s, phase) /\ (phase = "charged" => For(s, "REFUND_PAYMENT"))
    BY <1>1, ReadyFacts
  <1>4. /\ run[s] # Idle /\ run[s] \in Execution /\ c \in Commands
        /\ o \in Orders /\ c.orderId = o /\ c.operation = "REFUND_PAYMENT"
        /\ f.sagaId = c.sagaId
        /\ p.status # "ABSENT" => p.sagaId = c.sagaId
        /\ run[s].refund = f \/ run[s].refund = NoRefund
    BY <1>3, RefundingFacts
  <1>5. run' = [run EXCEPT ![s] = e]
    BY <1>1
  <1>6. /\ e \in Execution /\ e.phase = "refunding" /\ e.command = c
        /\ e.refund = run[s].refund
    BY <1>4 DEF Execution
  <1> HIDE DEF e
  <1>7. x \in Call /\ x.orderId = o /\ CallTrue(x, p, f)
    <2>1. c.sagaId \in Sagas /\ None \in Amounts
      BY <1>4, CommandFacts DEF Amounts
    <2> QED
      BY <2>1, <1>2, <1>4 DEF RefundCall, RefundOf, Call, CallTrue, Operations
  <1>8. OnItsOrder(s, e, p, f) /\ RowsMove(s, p, f)
    BY <1>1, <1>4, <1>5, KeepRows DEF service
  <1>9. ExecutionTrue(e, p, f, calls')
    BY <1>1, <1>2, <1>4, <1>6 DEF ExecutionTrue
  <1>10. CallsGrow(s, p, f) /\ Goes(s, e, p, f) /\ Receipts(s, e, p, f) /\ AnswersGrow(s, p, f)
    BY <1>1, <1>6, <1>7, <1>9
       DEF service, CallsGrow, Goes, Receipts, AnswersGrow, IInv, Shape
  <1> QED
    BY <1>4, <1>8, <1>10, ServiceStep

(* The provider has charged the order, so its answer can only be that the   *)
(* money went back.                                                         *)
LEMMA RefundAnsweredStep ==
  ASSUME IInv, NEW s \in Sessions, RefundAnswered(s)
  PROVE  IInv'
  <1> DEFINE c == run[s].command
             o == OrderOf(s)
             p == payments[o]
             f == refunds[o]
             x == RefundCall(c)
             q == [p EXCEPT !.status = "REFUNDED"]
             g == [f EXCEPT !.status = "REFUNDED"]
  <1>1. PICK result \in Results :
          /\ InPhase(s, "refunding")
          /\ ProviderAnswer(x, result)
          /\ IF result \in Refusals THEN FailRefund(s, result) ELSE ConcludeRefund(s, result)
    BY DEF RefundAnswered
  <1>2. run[s] # Idle /\ run[s].phase = "refunding"
    BY <1>1, Working DEF InPhase
  <1>3. /\ run[s] # Idle /\ c \in Commands /\ o \in Orders /\ c.orderId = o
        /\ p \in Payment /\ f \in Refund /\ RowTrue(o, p, f, requests)
        /\ AccountTrue(o, accounts[o], p, f, requests)
    BY <1>2, RunFacts DEF OrderOf
  <1>4. /\ c.operation = "REFUND_PAYMENT" /\ p.chargeResult = "CHARGED"
        /\ f.status = "PENDING" /\ x \in calls
        /\ p.status # "ABSENT" => p.sagaId = c.sagaId
        /\ f.sagaId = c.sagaId
    BY <1>2, RunFacts DEF ExecutionTrue, Execution
  <1>5. Served(requests, x, result) /\ x = RefundOf(o, f)
    BY <1>1, <1>3, <1>4, AnswerIsServed DEF RefundCall, RefundOf
  <1>6. accounts[o].status \in {"CHARGED", "REFUNDED"}
    <2>1. Served(requests, ChargeCall(o, p), "CHARGED")
      BY <1>3, <1>4 DEF RowTrue, None
    <2>2. /\ [call |-> ChargeCall(o, p), result |-> "CHARGED"].call.orderId = o
          /\ [call |-> ChargeCall(o, p), result |-> "CHARGED"].call.operation = "CHARGE_PAYMENT"
          /\ [call |-> ChargeCall(o, p), result |-> "CHARGED"].result = "CHARGED"
      BY DEF ChargeCall
    <2> QED
      BY <1>3, <2>1, <2>2 DEF AccountTrue, Served
  <1>7. result = "REFUNDED"
    <2>1. /\ [call |-> x, result |-> result].call.orderId = o
          /\ [call |-> x, result |-> result].call.operation = "REFUND_PAYMENT"
          /\ [call |-> x, result |-> result].result = result
      BY <1>3 DEF RefundCall
    <2> QED
      BY <1>3, <1>5, <1>6, <2>1 DEF AccountTrue, Served
  <1>8. ConcludeRefund(s, "REFUNDED")
    BY <1>1, <1>7 DEF Refusals
  <1>9. /\ q \in Payment /\ q.status = "REFUNDED" /\ q.sagaId = p.sagaId
        /\ q.amount = p.amount /\ q.method = p.method /\ q.chargeResult = p.chargeResult
        /\ g \in Refund /\ g.status = "REFUNDED" /\ g.sagaId = f.sagaId
    BY <1>3 DEF Payment, Refund
  <1>10. q = (IF "REFUNDED" = "REFUNDED" /\ p.chargeResult = "CHARGED"
              THEN [p EXCEPT !.status = "REFUNDED"] ELSE p)
         /\ g = [f EXCEPT !.status = "REFUNDED"]
    BY <1>4
  <1>11. p.status # "ABSENT"
    BY <1>3, <1>4 DEF RowTrue, None
  <1>12. ChargeCall(o, q) = ChargeCall(o, p) /\ RefundOf(o, g) = x
    BY <1>5, <1>9 DEF ChargeCall, RefundOf
  <1> HIDE DEF q, g
  <1>13. RowsMove(s, q, g)
    <2>1. RowTrue(o, q, g, requests)
      BY <1>3, <1>4, <1>5, <1>7, <1>9, <1>11, <1>12 DEF RowTrue, Refusals, None
    <2>2. RowGrows(p, f, q, g)
      BY <1>4, <1>9, <1>11 DEF RowGrows
    <2> QED
      BY <2>1, <2>2 DEF RowsMove
  <1> HIDE DEF p, f
  <1>14. /\ g.sagaId = c.sagaId
         /\ q.status # "ABSENT" => q.sagaId = c.sagaId
    BY <1>4, <1>9, <1>11
  <1> QED
    BY <1>3, <1>4, <1>8, <1>10, <1>13, <1>14, ConcludeRefundStep DEF p, f

LEMMA RefundTurnedDownStep ==
  ASSUME IInv, NEW s \in Sessions, RefundTurnedDown(s)
  PROVE  IInv'
  <1> DEFINE c == run[s].command
             p == payments[OrderOf(s)]
             f == refunds[OrderOf(s)]
             a == [command |-> c, result |-> TurnedDown]
  <1>1. InPhase(s, "refunding")
    BY DEF RefundTurnedDown
  <1>2. run[s] # Idle /\ c \in Commands /\ c.operation = "REFUND_PAYMENT"
    BY <1>1, Working, RunFacts DEF InPhase, ExecutionTrue
  <1>3. a \in Answer /\ a.command = c /\ AnswerTrue(a, receipts', p, f)
    BY <1>2 DEF Answer, AnswerTrue
  <1>4. /\ run' = [run EXCEPT ![s] = Idle] /\ answers' = answers \cup {a}
        /\ UNCHANGED <<payments, refunds, provider>> /\ calls' = calls /\ receipts' = receipts
    BY DEF RefundTurnedDown, FailRefund, Respond, service
  <1>5. OnItsOrder(s, Idle, p, f) /\ RowsMove(s, p, f)
    BY <1>2, <1>4, KeepRows
  <1>6. CallsGrow(s, p, f) /\ Goes(s, Idle, p, f) /\ Receipts(s, Idle, p, f)
        /\ AnswersGrow(s, p, f)
    BY <1>3, <1>4 DEF CallsGrow, Goes, Receipts, AnswersGrow, IInv, Shape
  <1> QED
    BY <1>2, <1>5, <1>6, ServiceStep

-----------------------------------------------------------------------------
(* The provider.                                                           *)

(* A call that it has not executed, and the account and rows of its order.  *)
LEMMA CallFacts ==
  ASSUME IInv, NEW x \in calls, \A r \in requests : ~SameKey(r.call, x)
  PROVE  /\ x \in Call /\ x.orderId \in Orders
         /\ CallTrue(x, payments[x.orderId], refunds[x.orderId])
         /\ RowTrue(x.orderId, payments[x.orderId], refunds[x.orderId], requests)
         /\ AccountTrue(x.orderId, accounts[x.orderId], payments[x.orderId],
                        refunds[x.orderId], requests)
         /\ accounts[x.orderId] \in Account
         /\ \A result : ~Served(requests, x, result)
         /\ \A r \in requests : r.call.orderId = x.orderId => r.call.operation # x.operation
         /\ Owns(x, accounts[x.orderId])
  <1> DEFINE o == x.orderId
             p == payments[o]
             f == refunds[o]
             a == accounts[o]
  <1>1. x \in Call /\ o \in Orders
    BY DEF IInv, Shape, Call
  <1>2. /\ CallTrue(x, p, f) /\ RowTrue(o, p, f, requests) /\ AccountTrue(o, a, p, f, requests)
    BY <1>1 DEF IInv, CallsOK, RowsOK, ProviderOK
  <1>3. \A result : ~Served(requests, x, result)
    <2> SUFFICES ASSUME NEW result, Served(requests, x, result) PROVE FALSE
      OBVIOUS
    <2>1. [call |-> x, result |-> result].call = x
      OBVIOUS
    <2> QED
      BY <2>1 DEF Served, SameKey
  <1>4. ASSUME NEW r \in requests, r.call.orderId = o, r.call.operation = x.operation
        PROVE  FALSE
    <2>1. r.call \in calls
      BY DEF IInv, ProviderOK
    <2>2. CallTrue(r.call, p, f)
      BY <2>1, <1>4 DEF IInv, CallsOK
    <2>3. r.call.sagaId = x.sagaId
      BY <2>2, <1>2, <1>4 DEF CallTrue, ChargeCall, RefundOf
    <2> QED
      BY <2>3, <1>4 DEF SameKey
  <1>5. Owns(x, a)
    <2>1. a.status \in {"ABSENT", "CHARGED", "REFUNDED", "NOOP"}
      BY <1>2 DEF AccountTrue, Account
    <2>2. (p.status # "ABSENT" /\ x.sagaId = p.sagaId) \/ (f.status # "ABSENT" /\ x.sagaId = f.sagaId)
      BY <1>2 DEF CallTrue, ChargeCall, RefundOf
    <2> QED
      BY <1>2, <2>1, <2>2 DEF Owns, AccountTrue, RowTrue
  <1> QED
    BY <1>1, <1>2, <1>3, <1>4, <1>5 DEF AccountTrue

(* What is to be shown of an executed call: the account and its order.      *)
LEMMA ExecutesStep ==
  ASSUME IInv, NEW x \in calls, NEW result \in Results, NEW a \in Account,
         Executes(x, result, a),
         AccountTrue(x.orderId, a, payments[x.orderId], refunds[x.orderId],
                     requests \cup {[call |-> x, result |-> result]})
  PROVE  IInv'
  <1> DEFINE r == [call |-> x, result |-> result]
             o == x.orderId
  <1>1. /\ requests' = requests \cup {r} /\ accounts' = [accounts EXCEPT ![o] = a]
        /\ payments' = payments /\ refunds' = refunds /\ receipts' = receipts
        /\ run' = run /\ calls' = calls /\ answers' = answers
        /\ \A q \in requests : ~SameKey(q.call, x)
    BY DEF Executes, service
  <1>2. /\ x \in Call /\ o \in Orders /\ \A d : ~Served(requests, x, d)
    BY <1>1, CallFacts
  <1>3. r.call = x /\ r.result = result /\ r \in [call : Call, result : Results]
    BY <1>2
  <1>4. \A y, d : Served(requests, y, d) => Served(requests', y, d)
    BY <1>1 DEF Served
  <1>5. \A q \in requests : q.call # x
    BY <1>1 DEF SameKey
  <1>6. /\ accounts'[o] = a /\ accounts' \in [Orders -> Account]
        /\ \A y \in Orders \ {o} : accounts'[y] = accounts[y]
    BY <1>1, <1>2 DEF IInv, Shape
  <1> HIDE DEF r
  <1>7. Shape'
    BY <1>1, <1>3, <1>6 DEF IInv, Shape
  <1>8. RowsOK'
    BY <1>1, <1>4 DEF IInv, RowsOK, RowTrue
  <1>9. ProviderOK'
    <2>1. /\ \A q \in requests' : q.call \in calls'
          /\ \A q, n \in requests' : q.call = n.call => q = n
      BY <1>1, <1>3, <1>5 DEF IInv, ProviderOK
    <2>2. ASSUME NEW y \in Orders
          PROVE  AccountTrue(y, accounts'[y], payments'[y], refunds'[y], requests')
      <3>1. CASE y = o
        BY <3>1, <1>1, <1>6 DEF r
      <3>2. CASE y # o
        <4>1. AccountTrue(y, accounts[y], payments[y], refunds[y], requests)
          BY DEF IInv, ProviderOK
        <4>2. \A q \in requests' : q.call.orderId = y => q \in requests
          BY <3>2, <1>1, <1>3
        <4>3. AccountTrue(y, accounts[y], payments[y], refunds[y], requests')
          BY <4>1, <4>2, <1>4 DEF AccountTrue
        <4> QED
          BY <4>3, <3>2, <1>1, <1>6
      <3> QED
        BY <3>1, <3>2
    <2> QED
      BY <2>1, <2>2 DEF ProviderOK
  <1> QED
    BY <1>1, <1>7, <1>8, <1>9
       DEF IInv, CallsOK, LockOK, ExecutionsOK, ReceiptsOK, AnswersOK, OrderOf

LEMMA ProviderRefuseStep ==
  ASSUME IInv, NEW x \in calls, ProviderRefuse(x)
  PROVE  IInv'
  <1> DEFINE o == x.orderId
             p == payments[o]
             f == refunds[o]
             a == accounts[o]
  <1>1. PICK result \in Refused(x, a) : Executes(x, result, a)
    BY DEF ProviderRefuse
  <1>2. \A r \in requests : ~SameKey(r.call, x)
    BY <1>1 DEF Executes
  <1>3. x.operation = "CHARGE_PAYMENT" /\ x = ChargeCall(o, p)
    BY <1>1, <1>2, CallFacts DEF Refused, CallTrue, RefundOf, ChargeCall
  <1>4. /\ a \in Account /\ AccountTrue(o, a, p, f, requests)
        /\ \A d : ~Served(requests, x, d) /\ Owns(x, a)
    BY <1>2, CallFacts
  <1>5. a.status \in {"ABSENT", "NOOP"}
    BY <1>3, <1>4 DEF AccountTrue, Account
  <1>6. result \in {"ALREADY_COMPENSATED", "PAYMENT_DECLINED"}
    BY <1>1, <1>3, <1>4, <1>5 DEF Refused
  <1> DEFINE r == [call |-> x, result |-> result]
  <1>7. r.call.operation = "CHARGE_PAYMENT" /\ r.result = result
    BY <1>3
  <1> HIDE DEF r
  <1>8. AccountTrue(o, a, p, f, requests \cup {r})
    BY <1>4, <1>5, <1>6, <1>7 DEF AccountTrue, Served
  <1> QED
    BY <1>1, <1>4, <1>6, <1>8, ExecutesStep DEF r, Results, Refusals

LEMMA ProviderChargeStep ==
  ASSUME IInv, NEW x \in calls, ProviderCharge(x)
  PROVE  /\ IInv'
         /\ accounts[x.orderId].status = "ABSENT"
         /\ x = ChargeCall(x.orderId, payments[x.orderId])
         /\ payments[x.orderId].status # "ABSENT"
  <1> DEFINE o == x.orderId
             p == payments[o]
             f == refunds[o]
             a == accounts[o]
             new == [status |-> "CHARGED", sagaId |-> x.sagaId, amount |-> x.amount,
                     method |-> x.method]
             r == [call |-> x, result |-> "CHARGED"]
  <1>1. x.operation = "CHARGE_PAYMENT" /\ Refused(x, a) = {"PAYMENT_DECLINED"}
        /\ Executes(x, "CHARGED", new)
    BY DEF ProviderCharge
  <1>2. \A q \in requests : ~SameKey(q.call, x)
    BY <1>1 DEF Executes
  <1>3. /\ a \in Account /\ AccountTrue(o, a, p, f, requests) /\ Owns(x, a) /\ x \in Call
        /\ \A d : ~Served(requests, x, d)
        /\ \A q \in requests : q.call.orderId = o => q.call.operation # "CHARGE_PAYMENT"
    BY <1>1, <1>2, CallFacts
  <1>4. x = ChargeCall(o, p) /\ p.status # "ABSENT"
    BY <1>1, <1>2, CallFacts DEF CallTrue, RefundOf
  <1>5. a.status = "ABSENT"
    <2>1. a.status \notin {"REFUNDED", "NOOP"}
      <3>1. SUFFICES ASSUME a.status \in {"REFUNDED", "NOOP"} PROVE FALSE
        OBVIOUS
      <3>2. Refused(x, a) = {"ALREADY_COMPENSATED"}
        BY <1>1, <1>3, <3>1 DEF Refused
      <3> QED
        BY <1>1, <3>2
    <2> QED
      BY <2>1, <1>3, <1>4 DEF AccountTrue, Account
  <1>6. /\ new \in Account /\ new.status = "CHARGED"
        /\ new.sagaId = p.sagaId /\ new.method = p.method
    BY <1>3, <1>4 DEF Account, Call, ChargeCall
  <1>7. r.call = x /\ r.result = "CHARGED"
    OBVIOUS
  <1> HIDE DEF new, r
  <1>8. Served(requests \cup {r}, ChargeCall(o, p), "CHARGED")
    BY <1>4 DEF Served, r
  <1>9. AccountTrue(o, new, p, f, requests \cup {r})
    BY <1>1, <1>3, <1>4, <1>5, <1>6, <1>7, <1>8 DEF AccountTrue
  <1>10. IInv'
    BY <1>1, <1>6, <1>9, ExecutesStep DEF Results, new, r
  <1> QED
    BY <1>4, <1>5, <1>10

LEMMA ProviderRefundStep ==
  ASSUME IInv, NEW x \in calls, ProviderRefund(x)
  PROVE  /\ IInv'
         /\ accounts[x.orderId].status \in {"ABSENT", "CHARGED"}
         /\ accounts'[x.orderId].status
              = IF accounts[x.orderId].status = "CHARGED" THEN "REFUNDED" ELSE "NOOP"
  <1> DEFINE o == x.orderId
             p == payments[o]
             f == refunds[o]
             a == accounts[o]
             status == IF a.status \in {"ABSENT", "NOOP"} THEN "NOOP" ELSE "REFUNDED"
             result == IF a.status = "CHARGED" THEN "REFUNDED" ELSE "NOOP"
             new == [a EXCEPT !.status = status, !.sagaId = x.sagaId]
             r == [call |-> x, result |-> result]
  <1>1. x.operation = "REFUND_PAYMENT" /\ Executes(x, result, new)
    BY DEF ProviderRefund
  <1>2. \A q \in requests : ~SameKey(q.call, x)
    BY <1>1 DEF Executes
  <1>3. /\ a \in Account /\ AccountTrue(o, a, p, f, requests) /\ x \in Call /\ o \in Orders
        /\ RowTrue(o, p, f, requests) /\ \A d : ~Served(requests, x, d)
        /\ \A q \in requests : q.call.orderId = o => q.call.operation # "REFUND_PAYMENT"
    BY <1>1, <1>2, CallFacts
  <1>4. x = RefundOf(o, f) /\ f.status # "ABSENT" /\ x.sagaId = f.sagaId
    BY <1>1, <1>2, CallFacts DEF CallTrue, ChargeCall, RefundOf
  <1>5. a.status \in {"ABSENT", "CHARGED"}
    BY <1>3, <1>4 DEF AccountTrue, Account
  <1>6. /\ new \in Account /\ new.sagaId = f.sagaId /\ new.method = a.method
        /\ new.status = IF a.status = "CHARGED" THEN "REFUNDED" ELSE "NOOP"
        /\ new.status = result
    BY <1>3, <1>4, <1>5 DEF Account, Call
  <1>7. r.call = x /\ r.result = result
    OBVIOUS
  <1>8. result \in {"REFUNDED", "NOOP"} /\ (result = "REFUNDED" <=> a.status = "CHARGED")
    OBVIOUS
  <1> HIDE DEF new, r, result, status
  <1>9. Served(requests \cup {r}, RefundOf(o, f), result)
    BY <1>4 DEF Served, r
  <1>10. AccountTrue(o, new, p, f, requests \cup {r})
    <2>1. ASSUME new.status \in {"CHARGED", "REFUNDED"}
          PROVE  /\ Served(requests \cup {r}, ChargeCall(o, p), "CHARGED")
                 /\ new.sagaId = p.sagaId /\ new.method = p.method /\ p.status # "ABSENT"
      <3>1. a.status = "CHARGED"
        BY <2>1, <1>5, <1>6
      <3> QED
        BY <3>1, <1>3, <1>4, <1>6 DEF AccountTrue, Served, RowTrue
    <2>2. ASSUME NEW q \in requests \cup {r}, q.call.orderId = o
          PROVE  IF q.call.operation = "CHARGE_PAYMENT"
                 THEN /\ q.result \in {"CHARGED", "PAYMENT_DECLINED", "ALREADY_COMPENSATED"}
                      /\ q.result = "CHARGED" <=> new.status \in {"CHARGED", "REFUNDED"}
                 ELSE q.result \in {"REFUNDED", "NOOP"} /\ new.status = q.result
      <3>1. CASE q = r
        BY <3>1, <1>1, <1>6, <1>7, <1>8
      <3>2. CASE q \in requests
        <4>1. q.call.operation # "REFUND_PAYMENT" /\ q.call.operation \in Operations
          BY <3>2, <2>2, <1>3 DEF IInv, Shape, Call
        <4>2. q.call.operation = "CHARGE_PAYMENT"
          BY <4>1 DEF Operations
        <4>3. /\ q.result \in {"CHARGED", "PAYMENT_DECLINED", "ALREADY_COMPENSATED"}
              /\ q.result = "CHARGED" <=> a.status \in {"CHARGED", "REFUNDED"}
          BY <4>2, <3>2, <2>2, <1>3 DEF AccountTrue
        <4> QED
          BY <4>2, <4>3, <1>5, <1>6
      <3> QED
        BY <3>1, <3>2
    <2>3. new.status \in {"REFUNDED", "NOOP"}
      BY <1>6, <1>8
    <2> QED
      BY <2>1, <2>2, <2>3, <1>4, <1>6, <1>9 DEF AccountTrue
  <1>11. IInv'
    BY <1>1, <1>6, <1>8, <1>10, ExecutesStep DEF Results, r
  <1>12. accounts'[o] = new
    BY <1>1, <1>3 DEF Executes, IInv, Shape
  <1> QED
    BY <1>5, <1>6, <1>11, <1>12

-----------------------------------------------------------------------------
(* The invariant.                                                          *)

LEMMA InitInv == Init => IInv
  <1> SUFFICES ASSUME Init PROVE IInv
    OBVIOUS
  <1>1. NoPayment \in Payment /\ NoRefund \in Refund
    BY DEF NoPayment, NoRefund, Payment, Refund, Amounts
  <1>2. NoAccount \in Account
    BY DEF NoAccount, Account, Amounts
  <1>3. Shape
    BY <1>1, <1>2 DEF Init, Shape
  <1>4. RowsOK
    <2> SUFFICES ASSUME NEW o \in Orders
                 PROVE  RowTrue(o, NoPayment, NoRefund, requests)
      BY DEF Init, RowsOK
    <2> QED
      BY <1>1 DEF RowTrue, NoPayment, NoRefund, Refusals, None
  <1>5. ProviderOK
    <2>1. \A o \in Orders : AccountTrue(o, NoAccount, NoPayment, NoRefund, {})
      BY <1>2 DEF AccountTrue, NoAccount
    <2> QED
      BY <2>1 DEF Init, ProviderOK
  <1> QED
    BY <1>3, <1>4, <1>5 DEF Init, IInv, CallsOK, LockOK, ExecutionsOK, ReceiptsOK, AnswersOK

LEMMA NextInv == IInv /\ [Next]_vars => IInv'
  <1> SUFFICES ASSUME IInv, [Next]_vars PROVE IInv'
    OBVIOUS
  <1>1. ASSUME NEW s \in Sessions, NEW c \in Commands, Begin(s, c) \/ ReplayReceipt(s, c)
        PROVE  IInv'
    BY <1>1, BeginStep, ReplayReceiptStep
  <1>2. ASSUME NEW s \in Sessions,
               \/ RefuseConflict(s) \/ RefuseCharge(s) \/ ReplayCharge(s)
               \/ StartCharge(s) \/ ChargeAnswered(s) \/ FinishCharge(s)
        PROVE  IInv'
    BY <1>2, RefuseConflictStep, RefuseChargeStep, ReplayChargeStep, StartChargeStep,
       ChargeAnsweredStep, FinishChargeStep
  <1>3. ASSUME NEW s \in Sessions,
               \/ RequestRefund(s) \/ ReplayRefund(s) \/ ResolveCharge(s) \/ SkipRefund(s)
               \/ StartRefund(s) \/ RefundAnswered(s) \/ RefundTurnedDown(s) \/ Abandon(s)
        PROVE  IInv'
    BY <1>3, RequestRefundStep, ReplayRefundStep, ResolveChargeStep, SkipRefundStep,
       StartRefundStep, RefundAnsweredStep, RefundTurnedDownStep, AbandonStep
  <1>4. ASSUME NEW x \in calls, ProviderRefuse(x) \/ ProviderCharge(x) \/ ProviderRefund(x)
        PROVE  IInv'
    BY <1>4, ProviderRefuseStep, ProviderChargeStep, ProviderRefundStep
  <1>5. CASE UNCHANGED vars
    BY <1>5 DEF vars, IInv, Shape, RowsOK, CallsOK, ProviderOK, LockOK, ExecutionsOK, ReceiptsOK,
                AnswersOK, OrderOf
  <1> QED
    BY <1>1, <1>2, <1>3, <1>4, <1>5 DEF Next

(* Rows, calls, provider, executions, receipts and answers agree after      *)
(* every commit, whichever executions stopped.                              *)
THEOREM Invariance == Spec => []IInv
  <1> QED
    BY InitInv, NextInv, PTL DEF Spec

-----------------------------------------------------------------------------
(* The properties.                                                         *)

(* The provider has executed the charge of the row, and with one result.    *)
LEMMA ChargedFacts ==
  ASSUME IInv, NEW o \in Orders
  PROVE  /\ payments[o].chargeResult = "CHARGED"
              => accounts[o].status \in {"CHARGED", "REFUNDED"}
         /\ accounts[o].status \in {"CHARGED", "REFUNDED"}
              => /\ payments[o].status \notin {"ABSENT", "FAILED"}
                 /\ payments[o].chargeResult \notin Refusals
                 /\ accounts[o].method = payments[o].method
         /\ refunds[o].status = "REFUNDED" => accounts[o].status = "REFUNDED"
  <1> DEFINE p == payments[o]
             f == refunds[o]
             a == accounts[o]
  <1>1. RowTrue(o, p, f, requests) /\ AccountTrue(o, a, p, f, requests)
    BY DEF IInv, RowsOK, ProviderOK
  <1>2. ASSUME p.chargeResult = "CHARGED" PROVE a.status \in {"CHARGED", "REFUNDED"}
    <2> DEFINE r == [call |-> ChargeCall(o, p), result |-> "CHARGED"]
    <2>1. r \in requests
      BY <1>1, <1>2 DEF RowTrue, Served, None
    <2>2. /\ r.call.orderId = o /\ r.call.operation = "CHARGE_PAYMENT" /\ r.result = "CHARGED"
      BY DEF ChargeCall
    <2> QED
      BY <1>1, <2>1, <2>2 DEF AccountTrue
  <1>3. ASSUME a.status \in {"CHARGED", "REFUNDED"}
        PROVE  /\ p.status \notin {"ABSENT", "FAILED"} /\ p.chargeResult \notin Refusals
               /\ a.method = p.method
    <2>1. Served(requests, ChargeCall(o, p), "CHARGED") /\ p.status # "ABSENT"
          /\ a.method = p.method
      BY <1>1, <1>3 DEF AccountTrue
    <2>2. p.chargeResult # None => p.chargeResult = "CHARGED"
      BY <1>1, <2>1, ServedOnce DEF RowTrue
    <2>3. "CHARGED" \notin Refusals /\ None \notin Refusals
      BY DEF Refusals, None
    <2>4. p.status = "FAILED" <=> p.chargeResult \in Refusals
      BY <1>1 DEF RowTrue
    <2>5. p.chargeResult \notin Refusals
      BY <2>2, <2>3
    <2> QED
      BY <2>1, <2>4, <2>5
  <1>4. ASSUME f.status = "REFUNDED" PROVE a.status = "REFUNDED"
    <2> DEFINE r == [call |-> RefundOf(o, f), result |-> "REFUNDED"]
    <2>1. r \in requests
      BY <1>1, <1>4 DEF RowTrue, Served
    <2>2. /\ r.call.orderId = o /\ r.call.operation = "REFUND_PAYMENT" /\ r.result = "REFUNDED"
      BY DEF RefundOf
    <2> QED
      BY <1>1, <2>1, <2>2 DEF AccountTrue
  <1> QED
    BY <1>2, <1>3, <1>4

(* The final answer of a command is in its receipt, unless its key belongs  *)
(* to another command.                                                      *)
LEMMA FinalAnswers ==
  ASSUME IInv, NEW a \in answers, Final(a)
  PROVE  /\ a.command \in Commands /\ a.result # None
         /\ \/ [command |-> a.command, result |-> a.result] \in receipts
            \/ /\ a.result = "IDEMPOTENCY_CONFLICT"
               /\ \E r \in receipts : /\ r.command.idempotencyKey = a.command.idempotencyKey
                                     /\ r.command # a.command
  <1>1. AnswerTrue(a, receipts, payments[a.command.orderId], refunds[a.command.orderId])
    BY DEF IInv, AnswersOK
  <1>2. a.command \in Commands /\ a.result # None
    BY <1>1 DEF AnswerTrue, Answer, Results, Refusals, TurnedDown, None
  <1> QED
    BY <1>1, <1>2 DEF AnswerTrue, Final, TurnedDown

(* A command that was answered for good is not executed again, after a lost *)
(* answer, a crash or under a key already used, nor answered otherwise; a   *)
(* refund that failed is in no receipt, and may be tried again.             *)
THEOREM FinalAnswersAgree == Spec => []OneFinalAnswer
  <1>1. ASSUME IInv, NEW a \in answers, NEW b \in answers, a.command = b.command,
               Final(a), Final(b)
        PROVE  a.result = b.result
    <2> DEFINE c == a.command
               Kept(result) == [command |-> c, result |-> result]
               Taken == \E r \in receipts : /\ r.command.idempotencyKey = c.idempotencyKey
                                            /\ r.command # c
    <2>1. ASSUME NEW result, Kept(result) \in receipts
          PROVE  ~Taken /\ \A other : Kept(other) \in receipts => other = result
      <3>1. \A r \in receipts : r.command.idempotencyKey = c.idempotencyKey => r = Kept(result)
        BY <1>1, <2>1 DEF IInv, ReceiptsOK
      <3>2. \A other : Kept(other).command = c /\ Kept(other).result = other
        OBVIOUS
      <3> QED
        BY <3>1, <3>2
    <2>2. Kept(a.result) \in receipts \/ (a.result = "IDEMPOTENCY_CONFLICT" /\ Taken)
      BY <1>1, FinalAnswers
    <2>3. Kept(b.result) \in receipts \/ (b.result = "IDEMPOTENCY_CONFLICT" /\ Taken)
      BY <1>1, FinalAnswers
    <2> HIDE DEF Kept, Taken
    <2> QED
      BY <2>1, <2>2, <2>3
  <1>2. ASSUME IInv, NEW a \in answers, NEW s \in Sessions, Final(a), run[s] # Idle,
               run[s].command = a.command
        PROVE  FALSE
    <2> DEFINE open == [command |-> a.command, result |-> None]
    <2>1. open \in receipts
      BY <1>2, RunFacts
    <2>2. \A r \in receipts : r.command.idempotencyKey = a.command.idempotencyKey => r = open
      BY <1>2, <2>1 DEF IInv, ReceiptsOK
    <2>3. PICK r \in receipts : /\ r.command.idempotencyKey = a.command.idempotencyKey
                                /\ r.command # a.command \/ r.result # None
      BY <1>2, FinalAnswers
    <2> QED
      BY <2>2, <2>3
  <1>3. ASSUME IInv, NEW r \in receipts, r.result # None
        PROVE  Final(r)
    <2>1. Fits(r.command, r.result, payments[r.command.orderId], refunds[r.command.orderId])
      BY <1>3 DEF IInv, ReceiptsOK, ReceiptTrue
    <2> QED
      BY <2>1 DEF Fits, Final
  <1>4. IInv => OneFinalAnswer
    BY <1>1, <1>2, <1>3 DEF OneFinalAnswer
  <1> QED
    BY <1>4, Invariance, PTL

(* The rows agree with each other and with what the provider did, for any   *)
(* number of connections and any commands in which an order has one saga.   *)
THEOREM RecordsAreTrue == Spec => []RecordsTrue
  <1>1. IInv => RecordsTrue
    <2> SUFFICES ASSUME IInv PROVE RecordsTrue
      OBVIOUS
    <2>1. ASSUME NEW o \in Orders
          PROVE  /\ payments[o].status \in {"ABSENT", "PENDING"} <=> payments[o].chargeResult = None
                 /\ payments[o].status \in {"PAY_ON_DELIVERY", "CHARGED", "REFUNDED"}
                      <=> payments[o].chargeResult = "CHARGED"
                 /\ refunds[o].status = "REFUNDED" => payments[o].status # "ABSENT"
                 /\ refunds[o].status = "REFUNDED" <=> payments[o].status = "REFUNDED"
      <3> DEFINE p == payments[o]
                 f == refunds[o]
      <3>1. RowTrue(o, p, f, requests)
        BY DEF IInv, RowsOK
      <3>2. /\ p.status \in {"ABSENT", "PENDING", "PAY_ON_DELIVERY", "CHARGED", "REFUNDED", "FAILED"}
            /\ p.chargeResult \in {None, "CHARGED"} \cup Refusals
            /\ "CHARGED" \notin Refusals /\ "CHARGED" # None /\ None \notin Refusals
        BY <3>1 DEF RowTrue, Payment, Refusals, None
      <3>3. /\ p.status \in {"ABSENT", "PENDING"} <=> p.chargeResult = None
            /\ p.status = "FAILED" <=> p.chargeResult \in Refusals
            /\ f.status = "REFUNDED" <=> p.status = "REFUNDED"
        BY <3>1 DEF RowTrue
      <3> HIDE DEF p, f
      <3>4. /\ p.status \in {"PAY_ON_DELIVERY", "CHARGED", "REFUNDED"} <=> p.chargeResult = "CHARGED"
            /\ f.status = "REFUNDED" => p.status # "ABSENT"
        BY <3>2, <3>3
      <3> QED
        BY <3>3, <3>4 DEF p, f
    <2>2. \A s \in Sessions : ExecutionOK(run[s])
      <3> SUFFICES ASSUME NEW s \in Sessions, run[s] # Idle PROVE ExecutionOK(run[s])
        BY DEF ExecutionOK
      <3> QED
        BY RunFacts DEF ExecutionTrue, ExecutionOK, Execution
    <2>3. TypeOK
      BY <2>1, <2>2 DEF IInv, Shape, ReceiptsOK, ReceiptTrue, AnswersOK, AnswerTrue, TypeOK
    <2> QED
      BY <2>1, <2>3, ChargedFacts DEF RecordsTrue
  <1> QED
    BY <1>1, Invariance, PTL

-----------------------------------------------------------------------------
(* The promise to the saga.                                                *)

Told(o) == UNION {Telling(a) : a \in {b \in answers : b.command.orderId = o}}

TellingsTrue == \A o \in Orders : Told(o) \subseteq Promise!TrueOf[StepEffect(o)]

Effects == {"none", "void", "done", "undone"}

LEMMA EffectFacts ==
  ASSUME NEW o \in Orders, accounts \in [Orders -> Account]
  PROVE  /\ StepEffect(o) \in Effects
         /\ accounts[o].status = "CHARGED" =>
              StepEffect(o) = IF accounts[o].method = "COD" /\ Refunded(o) THEN "undone" ELSE "done"
         /\ accounts[o].status = "REFUNDED" => StepEffect(o) = "undone"
         /\ accounts[o].status = "NOOP" => StepEffect(o) = "void"
         /\ accounts[o].status = "ABSENT" => StepEffect(o) = IF Refunded(o) THEN "void" ELSE "none"
  <1>1. accounts[o].status \in {"ABSENT", "CHARGED", "REFUNDED", "NOOP"}
    BY DEF Account
  <1> QED
    BY <1>1 DEF StepEffect, Effects

LEMMA RefundedFacts ==
  ASSUME IInv, NEW o \in Orders, Refunded(o)
  PROVE  refunds[o].status \in {"REFUNDED", "NOOP"}
  <1>1. PICK a \in answers : /\ a.command.orderId = o
                             /\ a.command.operation = "REFUND_PAYMENT"
                             /\ a.result \in {"REFUNDED", "NOOP"}
    BY DEF Refunded
  <1>2. [command |-> a.command, result |-> a.result] \in receipts
    BY <1>1 DEF IInv, AnswersOK, AnswerTrue, TurnedDown
  <1>3. Fits(a.command, a.result, payments[o], refunds[o])
    BY <1>1, <1>2 DEF IInv, ReceiptsOK, ReceiptTrue, None
  <1> QED
    BY <1>1, <1>3 DEF Fits

(* Whatever was told is true of where the step stands now.                  *)
LEMMA TellingsAreTrue == IInv => TellingsTrue
  <1> SUFFICES ASSUME IInv, NEW o \in Orders, NEW a \in answers, a.command.orderId = o,
                      NEW t \in Telling(a)
               PROVE  t \in Promise!TrueOf[StepEffect(o)]
    BY DEF TellingsTrue, Told
  <1> DEFINE c == a.command
             p == payments[o]
             f == refunds[o]
             account == accounts[o]
  <1>1. AnswerTrue(a, receipts, p, f) /\ RowTrue(o, p, f, requests)
    BY DEF IInv, AnswersOK, RowsOK
  <1>2. c \in Commands /\ a.result \in Results \cup {TurnedDown}
    BY <1>1 DEF AnswerTrue, Answer
  <1>3. accounts \in [Orders -> Account]
    BY DEF IInv, Shape
  <1>4. account.status \in {"ABSENT", "CHARGED", "REFUNDED", "NOOP"}
    BY <1>3 DEF Account
  <1>5. a.result \notin {"IDEMPOTENCY_CONFLICT", TurnedDown}
    BY DEF Telling, TurnedDown
  <1>6. [command |-> c, result |-> a.result] \in receipts
    BY <1>1, <1>5 DEF AnswerTrue
  <1>7. Fits(c, a.result, p, f)
    <2>1. a.result # None
      BY <1>2 DEF Results, Refusals, TurnedDown, None
    <2> QED
      BY <1>6, <2>1 DEF IInv, ReceiptsOK, ReceiptTrue
  <1>8. c.operation \in {"CHARGE_PAYMENT", "REFUND_PAYMENT"}
    BY <1>2, CommandFacts DEF Operations
  <1>9. CASE a.result = "CHARGED"
    <2>1. p.chargeResult = "CHARGED"
      BY <1>7, <1>8, <1>9 DEF Fits
    <2>2. account.status \in {"CHARGED", "REFUNDED"}
      BY <2>1, ChargedFacts
    <2>3. StepEffect(o) \in {"done", "undone"}
      BY <2>2, <1>3, EffectFacts
    <2> QED
      BY <2>3, <1>9 DEF Telling, Promise!TrueOf
  <1>10. CASE a.result = "PAYMENT_DECLINED"
    <2>1. p.chargeResult = "PAYMENT_DECLINED"
      BY <1>7, <1>8, <1>10 DEF Fits
    <2>2. account.status \in {"ABSENT", "NOOP"}
      BY <2>1, <1>4, ChargedFacts DEF Refusals
    <2>3. StepEffect(o) \in {"none", "void"}
      BY <2>2, <1>3, EffectFacts
    <2> QED
      BY <2>3, <1>10 DEF Telling, Promise!TrueOf
  <1>11. CASE a.result \in {"REFUNDED", "NOOP"}
    <2>1. c.operation = "REFUND_PAYMENT" /\ f.status = a.result
      BY <1>7, <1>8, <1>11 DEF Fits, Refusals
    <2>2. Refunded(o)
      BY <2>1, <1>11 DEF Refunded
    <2>3. account.status = "CHARGED" => account.method = "COD"
      <3>1. account.status = "CHARGED" =>
              /\ p.status \notin {"ABSENT", "FAILED"} /\ account.method = p.method
              /\ f.status # "REFUNDED"
        BY ChargedFacts
      <3> QED
        BY <3>1, <2>1, <1>1, <1>11 DEF RowTrue
    <2>4. StepEffect(o) \in {"void", "undone"}
      BY <2>2, <2>3, <1>3, <1>4, EffectFacts
    <2> QED
      BY <2>4, <1>11 DEF Telling, Promise!TrueOf
  <1>12. Telling(a) # {} =>
           a.result \in {"CHARGED", "PAYMENT_DECLINED", "REFUNDED", "NOOP"}
    BY DEF Telling
  <1> QED
    BY <1>9, <1>10, <1>11, <1>12

(* A step that moves the step of one order the way it may go, and forgets   *)
(* nothing that was told, is the participant's.                             *)
LEMMA OneOrderMoves ==
  ASSUME IInv, IInv', NEW o \in Orders,
         StepEffect(o)' \in Promise!Follows[StepEffect(o)],
         Told(o) \subseteq Told(o)',
         \A x \in Orders \ {o} : StepEffect(x)' = StepEffect(x) /\ Told(x)' = Told(x)
  PROVE  Promise!Next
  <1> DEFINE effect == [x \in Orders |-> StepEffect(x)]
             told == [x \in Orders |-> Told(x)]
             next == StepEffect(o)'
             results == Told(o)'
  <1>1. TellingsTrue'
    BY TellingsAreTrue, PTL
  <1>2. next = StepEffect(o)' /\ results = Told(o)'
    OBVIOUS
  <1>3. results \subseteq Promise!TrueOf[next] /\ Told(o) \subseteq results
    BY <1>1 DEF TellingsTrue
  <1>4. next = "done" => "REFUSED" \notin Told(o)
    BY <1>3 DEF Promise!TrueOf
  <1>5. effect' = [effect EXCEPT ![o] = next]
    OBVIOUS
  <1>6. told' = [told EXCEPT ![o] = @ \cup results]
    BY <1>3
  <1> HIDE DEF next, results
  <1>7. effect'[o] = next /\ effect[o] = StepEffect(o) /\ told[o] = Told(o)
    BY <1>5
  <1>8. Promise!Step(o)
    BY <1>3, <1>4, <1>5, <1>6, <1>7 DEF Promise!Step, Told
  <1> QED
    BY <1>8 DEF Promise!Next

EffectKnown ==
  \A o \in Orders :
    /\ StepEffect(o) \in Effects
    /\ accounts[o].status = "CHARGED" =>
         StepEffect(o) = IF accounts[o].method = "COD" /\ Refunded(o) THEN "undone" ELSE "done"
    /\ accounts[o].status = "REFUNDED" => StepEffect(o) = "undone"
    /\ accounts[o].status = "NOOP" => StepEffect(o) = "void"
    /\ accounts[o].status = "ABSENT" => StepEffect(o) = IF Refunded(o) THEN "void" ELSE "none"
    /\ accounts[o].status \in {"ABSENT", "CHARGED", "REFUNDED", "NOOP"}

LEMMA EffectIsKnown == IInv => EffectKnown
  <1> SUFFICES ASSUME IInv PROVE EffectKnown
    OBVIOUS
  <1>1. accounts \in [Orders -> Account]
    BY DEF IInv, Shape
  <1>2. \A o \in Orders : accounts[o].status \in {"ABSENT", "CHARGED", "REFUNDED", "NOOP"}
    BY <1>1 DEF Account
  <1> QED
    BY <1>1, <1>2, EffectFacts DEF EffectKnown

(* An answer is given, the provider does nothing.                           *)
LEMMA AnswerIsPromised ==
  ASSUME IInv, IInv', accounts' = accounts, NEW a, answers' = answers \cup {a},
         a.command.orderId \in Orders
  PROVE  Promise!Next
  <1> DEFINE o == a.command.orderId
  <1>1. EffectKnown /\ EffectKnown'
    BY EffectIsKnown, PTL
  <1>2. \A x \in Orders \ {o} : (Refunded(x)' <=> Refunded(x)) /\ Told(x)' = Told(x)
    BY DEF Refunded, Told
  <1>3. (Refunded(o) => Refunded(o)') /\ Told(o) \subseteq Told(o)'
    BY DEF Refunded, Told
  <1>4. StepEffect(o)' \in Promise!Follows[StepEffect(o)]
    <2>1. StepEffect(o) \in Effects
      BY <1>1 DEF EffectKnown
    <2>2. \/ StepEffect(o)' = StepEffect(o)
          \/ StepEffect(o) = "done" /\ StepEffect(o)' = "undone"
          \/ StepEffect(o) = "none" /\ StepEffect(o)' = "void"
      BY <1>1, <1>3 DEF EffectKnown
    <2> QED
      BY <2>1, <2>2 DEF Promise!Follows, Effects
  <1>5. \A x \in Orders \ {o} : StepEffect(x)' = StepEffect(x)
    BY <1>2 DEF StepEffect
  <1> QED
    BY <1>2, <1>3, <1>4, <1>5, OneOrderMoves

(* The provider executes a call, nobody is told anything.                   *)
LEMMA ExecutionIsPromised ==
  ASSUME IInv, IInv', answers' = answers, NEW o \in Orders, NEW account,
         accounts' = [accounts EXCEPT ![o] = account],
         StepEffect(o)' \in Promise!Follows[StepEffect(o)]
  PROVE  Promise!Next
  <1>1. \A x \in Orders : (Refunded(x)' <=> Refunded(x)) /\ Told(x)' = Told(x)
    BY DEF Refunded, Told
  <1>2. \A x \in Orders \ {o} : accounts'[x] = accounts[x]
    BY DEF IInv, Shape
  <1>3. \A x \in Orders \ {o} : StepEffect(x)' = StepEffect(x)
    BY <1>1, <1>2 DEF StepEffect
  <1> QED
    BY <1>1, <1>3, OneOrderMoves

LEMMA ChargeIsPromised ==
  ASSUME IInv, IInv', NEW x \in calls, ProviderCharge(x)
  PROVE  Promise!Next
  <1> DEFINE o == x.orderId
             new == [status |-> "CHARGED", sagaId |-> x.sagaId, amount |-> x.amount,
                     method |-> x.method]
  <1>1. Executes(x, "CHARGED", new)
    BY DEF ProviderCharge
  <1>2. /\ o \in Orders /\ accounts' = [accounts EXCEPT ![o] = new] /\ answers' = answers
        /\ \A r : ~Served(requests, x, r)
    BY <1>1, CallFacts DEF Executes
  <1>3. /\ accounts[o].status = "ABSENT" /\ x = ChargeCall(o, payments[o])
        /\ payments[o].status # "ABSENT"
    BY ProviderChargeStep
  <1>4. payments[o].status = "PENDING"
    <2>1. RowTrue(o, payments[o], refunds[o], requests)
      BY <1>2 DEF IInv, RowsOK
    <2> QED
      BY <2>1, <1>2, <1>3 DEF RowTrue
  <1>5. ~Refunded(o)
    <2>1. RowTrue(o, payments[o], refunds[o], requests)
      BY <1>2 DEF IInv, RowsOK
    <2>2. refunds[o].status \notin {"REFUNDED", "NOOP"}
      BY <2>1, <1>4 DEF RowTrue
    <2> QED
      BY <2>2, <1>2, RefundedFacts
  <1>6. ~Refunded(o)' /\ accounts'[o].status = "CHARGED"
    BY <1>2, <1>5 DEF Refunded, IInv, Shape
  <1>7. EffectKnown /\ EffectKnown'
    BY EffectIsKnown, PTL
  <1>8. StepEffect(o) = "none" /\ StepEffect(o)' = "done"
    BY <1>2, <1>3, <1>5, <1>6, <1>7 DEF EffectKnown
  <1>9. StepEffect(o)' \in Promise!Follows[StepEffect(o)]
    BY <1>8 DEF Promise!Follows
  <1> HIDE DEF new, o
  <1> QED
    BY <1>2, <1>9, ExecutionIsPromised

LEMMA RefundIsPromised ==
  ASSUME IInv, IInv', NEW x \in calls, ProviderRefund(x)
  PROVE  Promise!Next
  <1> DEFINE o == x.orderId
  <1>1. PICK result, account : Executes(x, result, account)
    BY DEF ProviderRefund
  <1>2. /\ o \in Orders /\ accounts' = [accounts EXCEPT ![o] = account] /\ answers' = answers
    BY <1>1, CallFacts DEF Executes
  <1>3. /\ accounts[o].status \in {"ABSENT", "CHARGED"}
        /\ accounts'[o].status = IF accounts[o].status = "CHARGED" THEN "REFUNDED" ELSE "NOOP"
    BY ProviderRefundStep
  <1>4. EffectKnown /\ EffectKnown'
    BY EffectIsKnown, PTL
  <1>5. \/ StepEffect(o) \in {"none", "void"} /\ StepEffect(o)' = "void"
        \/ StepEffect(o) \in {"done", "undone"} /\ StepEffect(o)' = "undone"
    BY <1>2, <1>3, <1>4 DEF EffectKnown
  <1>6. StepEffect(o)' \in Promise!Follows[StepEffect(o)]
    BY <1>5 DEF Promise!Follows
  <1> HIDE DEF o
  <1> QED
    BY <1>2, <1>6, ExecutionIsPromised

LEMMA NothingIsPromised ==
  ASSUME accounts' = accounts, answers' = answers
  PROVE  UNCHANGED Promise!vars
  <1>1. \A o \in Orders : StepEffect(o)' = StepEffect(o)
    BY DEF StepEffect, Refunded
  <1> QED
    BY <1>1 DEF Promise!vars, Telling

LEMMA NextIsPromised == IInv /\ IInv' /\ [Next]_vars => [Promise!Next]_(Promise!vars)
  <1> SUFFICES ASSUME IInv, IInv', [Next]_vars PROVE [Promise!Next]_(Promise!vars)
    OBVIOUS
  <1>1. ASSUME NEW s \in Sessions, run[s] # Idle, NEW result, Respond(s, result), accounts' = accounts
        PROVE  [Promise!Next]_(Promise!vars)
    <2>1. [command |-> run[s].command, result |-> result].command.orderId \in Orders
      BY <1>1, RunFacts DEF OrderOf
    <2> QED
      BY <1>1, <2>1, AnswerIsPromised DEF Respond
  <1>2. ASSUME NEW s \in Sessions, NEW c \in Commands, Begin(s, c) \/ ReplayReceipt(s, c)
        PROVE  [Promise!Next]_(Promise!vars)
    <2>1. CASE Begin(s, c)
      BY <2>1, NothingIsPromised DEF Begin, provider
    <2>2. CASE ReplayReceipt(s, c)
      <3>1. accounts' = accounts
            /\ \E result : answers' = answers \cup {[command |-> c, result |-> result]}
        BY <2>2 DEF ReplayReceipt, provider
      <3>2. \A result : [command |-> c, result |-> result].command.orderId \in Orders
        BY CommandFacts
      <3> QED
        BY <3>1, <3>2, AnswerIsPromised
    <2> QED
      BY <1>2, <2>1, <2>2
  <1>3. ASSUME NEW s \in Sessions,
               \/ RefuseConflict(s) \/ RefuseCharge(s) \/ ReplayCharge(s) \/ FinishCharge(s)
               \/ ReplayRefund(s) \/ SkipRefund(s) \/ RefundAnswered(s) \/ RefundTurnedDown(s)
        PROVE  [Promise!Next]_(Promise!vars)
    <2>1. \E phase : InPhase(s, phase) /\ phase # "idle"
      BY <1>3 DEF RefuseConflict, RefuseCharge, ReplayCharge, FinishCharge, ReplayRefund, SkipRefund,
                  RefundAnswered, RefundTurnedDown, Proceeds, ReadyToRefund
    <2>2. \E result : Respond(s, result) /\ accounts' = accounts
      BY <1>3 DEF RefuseConflict, RefuseCharge, ReplayCharge, FinishCharge, ReplayRefund, SkipRefund,
                  RefundAnswered, RefundTurnedDown, ConcludeCharge, ConcludeRefund, FailRefund,
                  provider
    <2> QED
      BY <1>1, <2>1, <2>2, Working
  <1>4. ASSUME NEW s \in Sessions,
               \/ StartCharge(s) \/ ChargeAnswered(s) \/ RequestRefund(s) \/ ResolveCharge(s)
               \/ StartRefund(s) \/ Abandon(s)
        PROVE  [Promise!Next]_(Promise!vars)
    <2>1. accounts' = accounts /\ answers' = answers
      BY <1>4 DEF StartCharge, ChargeAnswered, RequestRefund, ResolveCharge, StartRefund, Abandon,
                  provider
    <2> QED
      BY <2>1, NothingIsPromised
  <1>5. ASSUME NEW x \in calls, ProviderRefuse(x)
        PROVE  [Promise!Next]_(Promise!vars)
    <2>1. accounts' = [accounts EXCEPT ![x.orderId] = accounts[x.orderId]] /\ answers' = answers
      BY <1>5 DEF ProviderRefuse, Executes
    <2>2. accounts' = accounts
      BY <2>1 DEF IInv, Shape
    <2> QED
      BY <2>1, <2>2, NothingIsPromised
  <1>6. CASE UNCHANGED vars
    BY <1>6, NothingIsPromised DEF vars
  <1> QED
    BY <1>2, <1>3, <1>4, <1>5, <1>6, ChargeIsPromised, RefundIsPromised DEF Next

LEMMA InitIsPromised == Init => Promise!Init
  <1> SUFFICES ASSUME Init PROVE Promise!Init
    OBVIOUS
  <1>1. \A o \in Orders : StepEffect(o) = "none"
    BY DEF Init, StepEffect, Refunded, NoAccount
  <1> QED
    BY <1>1 DEF Init, Promise!Init

(* Money is taken at most once and given back at most once, and what a saga *)
(* is told of it stays true, whatever call the provider executes late.      *)
THEOREM PaymentImplementsParticipant == Spec => ImplementsParticipant
  <1>1. IInv /\ [Next]_vars => IInv'
    BY NextInv
  <1> QED
    BY InitInv, <1>1, InitIsPromised, NextIsPromised, PTL
       DEF Spec, ImplementsParticipant, Promise!Spec
=============================================================================
