--------------------------- MODULE ShippingProofs ---------------------------
(***************************************************************************)
(* Shipments are what the provider made of them, and what a saga is told   *)
(* of its shipment stays true, for every number of connections and every   *)
(* set of commands in which a saga belongs to one order.  The argument is  *)
(* that of PaymentProofs: one execution at a time has an order, what it    *)
(* has read is what the rows are, and the rows never let go of a saga, a   *)
(* content or a result; so every call for an order is the one that its     *)
(* rows determine, and the provider has executed it once.  What is new is  *)
(* the link from a cancellation to its shipment, and that the mark on the  *)
(* shipment goes by two readings of it.                                    *)
(***************************************************************************)
EXTENDS Shipping, TLAPS

-----------------------------------------------------------------------------
(* The rows of an order.                                                   *)

Served(req, x, result) == [call |-> x, result |-> result] \in req

SagaOf(o, saga) == \E c \in Commands : c.orderId = o /\ c.sagaId = saga

(* The cancellation that the rows of the order call for.                    *)
CancelOf(o, f) ==
  [operation |-> "CANCEL_SHIPMENT", orderId |-> o, sagaId |-> f.sagaId,
   content |-> None]

RowTrue(o, p, f, req) ==
  /\ p \in Shipment /\ f \in Cancellation
  /\ p.status = "ABSENT" => p = NoShipment
  /\ p.status # "ABSENT" => SagaOf(o, p.sagaId)
  /\ f.status = "ABSENT" => f = NoCancellation
  /\ f.status # "ABSENT" => SagaOf(o, f.sagaId)
  /\ f.status # "ABSENT" /\ p.status # "ABSENT" => p.sagaId = f.sagaId
  /\ f.status # "ABSENT" => (f.linked <=> p.status # "ABSENT")
  /\ p.status \in {"ABSENT", "PENDING"} <=> p.createResult = None
  /\ p.status = "FAILED" <=> p.createResult \in Refusals
  /\ f.status = "CANCELLED" <=> p.status = "CANCELLED"
  /\ f.status = "NOOP" => p.status \in {"ABSENT", "FAILED"}
  /\ p.createResult # None => Served(req, CreateCall(o, p), p.createResult)
  /\ f.status = "CANCELLED" => Served(req, CancelOf(o, f), "CANCELLED")

(* What a row may become: it keeps what was ever decided.                   *)
RowGrows(p, f, q, g) ==
  /\ p.status # "ABSENT" =>
       /\ q.status # "ABSENT"
       /\ q.sagaId = p.sagaId /\ q.content = p.content
  /\ p.createResult # None => q.createResult = p.createResult
  /\ f.status # "ABSENT" =>
       g.status # "ABSENT" /\ g.sagaId = f.sagaId /\ g.linked = f.linked
  /\ f.status \in {"CANCELLED", "NOOP"} => g.status = f.status
  /\ f.status # "ABSENT" /\ p.status = "ABSENT" => q.status = "ABSENT"

-----------------------------------------------------------------------------
(* Calls and the provider.                                                 *)

CallTrue(x, p, f) ==
  \/ x = CreateCall(x.orderId, p) /\ p.status # "ABSENT"
  \/ x = CancelOf(x.orderId, f) /\ f.status # "ABSENT"

(* The parcel of an order and the calls the provider executed for it.      *)
ParcelTrue(o, a, p, f, req) ==
  /\ a \in Parcel
  /\ a.status = "ABSENT" => a = NoParcel
  /\ a.status \in {"CREATED", "CANCELLED"} =>
       /\ Served(req, CreateCall(o, p), "CREATED")
       /\ a.sagaId = p.sagaId /\ a.content = p.content /\ p.status # "ABSENT"
  /\ a.status \in {"CANCELLED", "NOOP"} =>
       /\ Served(req, CancelOf(o, f), a.status)
       /\ a.sagaId = f.sagaId /\ f.status # "ABSENT"
  /\ \A r \in req : r.call.orderId = o =>
       IF r.call.operation = "CREATE_SHIPMENT"
       THEN /\ r.result \in {"CREATED", "SHIPPING_REJECTED", "ALREADY_COMPENSATED"}
            /\ r.result = "CREATED" <=> a.status \in {"CREATED", "CANCELLED"}
       ELSE r.result \in {"CANCELLED", "NOOP"} /\ a.status = r.result

-----------------------------------------------------------------------------
(* An execution of the order whose rows are p and f.                       *)

CreateStatus(result) == IF result = "CREATED" THEN "CREATED" ELSE "FAILED"

ExecutionTrue(e, p, f, made) ==
  LET c == e.command
      o == c.orderId IN
  /\ e \in Execution
  /\ e.phase = "read" => e.shipment = p /\ e.cancellation = f /\ e.result = None
  /\ e.phase = "cancel" => c.operation = "CANCEL_SHIPMENT" /\ e.shipment = p /\ e.result = None
  /\ e.phase = "creating" =>
       p.status = "PENDING" /\ CreateCall(o, p) \in made /\ e.result = None
  /\ e.phase = "created" =>
       /\ e.result # None /\ e.result = p.createResult
       /\ p.status = CreateStatus(e.result)
  /\ e.phase = "cancelling" =>
       /\ c.operation = "CANCEL_SHIPMENT"
       /\ p.createResult = "CREATED" /\ e.shipment.status # "ABSENT"
       /\ f.status = "PENDING" /\ CancelCall(c) \in made
  /\ e.phase # "read" /\ p.status # "ABSENT" => p.sagaId = c.sagaId
  /\ e.phase # "read" /\ c.operation = "CREATE_SHIPMENT" =>
       f.status = "ABSENT" /\ p.status # "ABSENT"
  /\ e.phase # "read" /\ c.operation = "CANCEL_SHIPMENT" =>
       /\ f.status # "ABSENT" /\ f.sagaId = c.sagaId
       /\ e.cancellation = f \/ (e.cancellation = NoCancellation /\ f.status = "PENDING")
       /\ e.phase # "cancel" => f.status = "PENDING"
       /\ e.phase \in {"creating", "created"} => e.shipment.status = "PENDING"

-----------------------------------------------------------------------------
(* Receipts and answers.                                                   *)

(* A result that a command may have been given, as the rows are.            *)
Fits(c, result, p, f) ==
  /\ c.operation = "CREATE_SHIPMENT" =>
       /\ result \in {"CREATED"} \cup Refusals
       /\ result \in {"CREATED", "SHIPPING_REJECTED"} => p.createResult = result
  /\ c.operation = "CANCEL_SHIPMENT" =>
       /\ result \in {"CANCELLED", "NOOP"} /\ f.status = result /\ f.sagaId = c.sagaId
       /\ p.status # "ABSENT" => p.sagaId = c.sagaId

ForeignTo(c, p, f) ==
  \/ p.status # "ABSENT" /\ p.sagaId # c.sagaId
  \/ f.status # "ABSENT" /\ f.sagaId # c.sagaId

ReceiptTrue(r, p, f) == r \in Receipt /\ (r.result # None => Fits(r.command, r.result, p, f))

AnswerTrue(a, rs, p, f) ==
  /\ a \in Answer
  /\ \/ [command |-> a.command, result |-> a.result] \in rs
     \/ a.command.operation = "CANCEL_SHIPMENT" /\ a.result = TurnedDown
     \/ /\ a.result = "IDEMPOTENCY_CONFLICT"
        /\ \/ \E r \in rs : /\ r.command.idempotencyKey = a.command.idempotencyKey
                            /\ r.command # a.command
           \/ a.command.operation = "CANCEL_SHIPMENT" /\ ForeignTo(a.command, p, f)

-----------------------------------------------------------------------------
(* The invariant.                                                          *)

Shape ==
  /\ DOMAIN shipments = Orders /\ shipments \in [Orders -> Shipment]
  /\ cancellations \in [Orders -> Cancellation]
  /\ parcels \in [Orders -> Parcel]
  /\ DOMAIN run = Sessions
  /\ calls \subseteq Call
  /\ requests \subseteq [call : Call, result : Results]

RowsOK == \A o \in Orders : RowTrue(o, shipments[o], cancellations[o], requests)

CallsOK == \A x \in calls : CallTrue(x, shipments[x.orderId], cancellations[x.orderId])

ProviderOK ==
  /\ \A r \in requests : r.call \in calls
  /\ \A q, r \in requests : q.call = r.call => q = r
  /\ \A o \in Orders : ParcelTrue(o, parcels[o], shipments[o], cancellations[o], requests)

LockOK == \A s, t \in Sessions : run[s] # Idle /\ run[t] # Idle /\ OrderOf(s) = OrderOf(t) => s = t

ExecutionsOK ==
  \A s \in Sessions : run[s] # Idle =>
    /\ ExecutionTrue(run[s], shipments[OrderOf(s)], cancellations[OrderOf(s)], calls)
    /\ [command |-> run[s].command, result |-> None] \in receipts

ReceiptsOK ==
  /\ \A r \in receipts :
       ReceiptTrue(r, shipments[r.command.orderId], cancellations[r.command.orderId])
  /\ \A q, r \in receipts :
       q.command.idempotencyKey = r.command.idempotencyKey => q = r

AnswersOK ==
  \A a \in answers :
    AnswerTrue(a, receipts, shipments[a.command.orderId], cancellations[a.command.orderId])

IInv ==
  Shape /\ RowsOK /\ CallsOK /\ ProviderOK /\ LockOK /\ ExecutionsOK /\ ReceiptsOK /\ AnswersOK
-----------------------------------------------------------------------------
(* Commands, calls and results.                                            *)

LEMMA CommandFacts ==
  ASSUME NEW c \in Commands
  PROVE  /\ c.orderId \in Orders /\ c.sagaId \in Sagas /\ c.sagaId # None
         /\ c.content \in Contents /\ c.operation \in Operations
         /\ c.operation = "CREATE_SHIPMENT" => c.content # None
         /\ SagaOf(c.orderId, c.sagaId)
  BY ConstantsAssumption DEF Orders, Sagas, Contents, SagaOf

LEMMA SameCommand ==
  ASSUME NEW c \in Commands, NEW d \in Commands,
         c.idempotencyKey = d.idempotencyKey, SameContent(c, d)
  PROVE  c = d
  <1>1. /\ c = [idempotencyKey |-> c.idempotencyKey, operation |-> c.operation,
                orderId |-> c.orderId, sagaId |-> c.sagaId,
                content |-> c.content]
        /\ d = [idempotencyKey |-> d.idempotencyKey, operation |-> d.operation,
                orderId |-> d.orderId, sagaId |-> d.sagaId,
                content |-> d.content]
    BY ConstantsAssumption
  <1>2. /\ [c EXCEPT !.idempotencyKey = None].operation = c.operation
        /\ [c EXCEPT !.idempotencyKey = None].orderId = c.orderId
        /\ [c EXCEPT !.idempotencyKey = None].sagaId = c.sagaId
        /\ [c EXCEPT !.idempotencyKey = None].content = c.content
    BY <1>1
  <1>3. /\ [d EXCEPT !.idempotencyKey = None].operation = d.operation
        /\ [d EXCEPT !.idempotencyKey = None].orderId = d.orderId
        /\ [d EXCEPT !.idempotencyKey = None].sagaId = d.sagaId
        /\ [d EXCEPT !.idempotencyKey = None].content = d.content
    BY <1>1
  <1> QED
    BY <1>1, <1>2, <1>3 DEF SameContent

(* Sagas do not share orders, so a call is known by its key.                *)
LEMMA SameKeyEqual ==
  ASSUME IInv, NEW x \in calls, NEW y \in calls, SameKey(x, y)
  PROVE  x = y
  <1> DEFINE True(z) == CallTrue(z, shipments[z.orderId], cancellations[z.orderId])
  <1>1. /\ x \in Call /\ y \in Call /\ True(x) /\ True(y)
        /\ x.orderId \in Orders /\ y.orderId \in Orders
    BY DEF IInv, Shape, CallsOK, Call
  <1>2. ASSUME NEW z \in calls, True(z), z.orderId \in Orders
        PROVE  SagaOf(z.orderId, z.sagaId)
    <2>1. RowTrue(z.orderId, shipments[z.orderId], cancellations[z.orderId], requests)
      BY <1>2 DEF IInv, RowsOK
    <2> QED
      BY <1>2, <2>1 DEF RowTrue, CallTrue, CreateCall, CancelOf
  <1>3. x.orderId = y.orderId
    BY <1>1, <1>2, SagaAssumption DEF SameKey, SagaOf
  <1> QED
    BY <1>1, <1>3 DEF CallTrue, SameKey, CreateCall, CancelOf

LEMMA AnswerIsServed ==
  ASSUME IInv, NEW x \in calls, NEW result, ProviderAnswer(x, result)
  PROVE  Served(requests, x, result)
  <1>1. PICK r \in requests : /\ SameKey(r.call, x)
                              /\ result = IF r.call = x THEN r.result ELSE "IDEMPOTENCY_CONFLICT"
    BY DEF ProviderAnswer
  <1>2. r.call \in calls /\ r = [call |-> r.call, result |-> r.result]
    BY DEF IInv, ProviderOK, Shape
  <1>3. r.call = x
    BY <1>1, <1>2, SameKeyEqual
  <1> QED
    BY <1>1, <1>2, <1>3 DEF Served

LEMMA ServedOnce ==
  ASSUME IInv, NEW x, NEW a, NEW b, Served(requests, x, a), Served(requests, x, b)
  PROVE  a = b
  BY DEF IInv, ProviderOK, Served

-----------------------------------------------------------------------------
(* What holds of a row goes on to hold of what the row becomes.            *)

LEMMA CallKept ==
  ASSUME NEW p, NEW f, NEW q, NEW g, RowGrows(p, f, q, g), NEW x, CallTrue(x, p, f)
  PROVE  CallTrue(x, q, g)
  BY DEF RowGrows, CallTrue, CreateCall, CancelOf

LEMMA ParcelKept ==
  ASSUME NEW p, NEW f, NEW q, NEW g, RowGrows(p, f, q, g),
         NEW o, NEW a, NEW req, ParcelTrue(o, a, p, f, req)
  PROVE  ParcelTrue(o, a, q, g, req)
  <1>1. p.status # "ABSENT" => CreateCall(o, q) = CreateCall(o, p)
    BY DEF RowGrows, CreateCall
  <1>2. f.status # "ABSENT" => CancelOf(o, g) = CancelOf(o, f)
    BY DEF RowGrows, CancelOf
  <1> QED
    BY <1>1, <1>2 DEF RowGrows, ParcelTrue

LEMMA FitsKept ==
  ASSUME NEW p, NEW f, NEW q, NEW g, RowGrows(p, f, q, g),
         NEW c, NEW result, Fits(c, result, p, f)
  PROVE  Fits(c, result, q, g)
  BY DEF RowGrows, Fits, None

LEMMA ForeignKept ==
  ASSUME NEW p, NEW f, NEW q, NEW g, RowGrows(p, f, q, g), NEW c, ForeignTo(c, p, f)
  PROVE  ForeignTo(c, q, g)
  BY DEF RowGrows, ForeignTo

LEMMA RowGrowsItself ==
  ASSUME NEW p, NEW f
  PROVE  RowGrows(p, f, p, f)
  BY DEF RowGrows
-----------------------------------------------------------------------------
(* A step of an execution changes the rows of its order only, and hands    *)
(* out what its receipt or the rows vouch for.                             *)

OnItsOrder(s, e, q, g) ==
  /\ run' = [run EXCEPT ![s] = e]
  /\ shipments' = [shipments EXCEPT ![OrderOf(s)] = q]
  /\ cancellations' = [cancellations EXCEPT ![OrderOf(s)] = g]
  /\ UNCHANGED provider

RowsMove(s, q, g) ==
  /\ RowTrue(OrderOf(s), q, g, requests)
  /\ RowGrows(shipments[OrderOf(s)], cancellations[OrderOf(s)], q, g)

CallsGrow(s, q, g) ==
  /\ calls \subseteq calls' /\ calls' \subseteq Call
  /\ \A x \in calls' \ calls : x.orderId = OrderOf(s) /\ CallTrue(x, q, g)

Goes(s, e, q, g) ==
  \/ e = Idle
  \/ /\ receipts' = receipts
     /\ e.command = run[s].command
     /\ ExecutionTrue(e, q, g, calls')

Receipts(s, e, q, g) ==
  \/ receipts' = receipts
  \/ e = Idle /\ \E result \in Results :
       CompleteReceipt(s, result) /\ Fits(run[s].command, result, q, g)

AnswersGrow(s, q, g) ==
  \/ answers' = answers
  \/ \E a : /\ answers' = answers \cup {a}
           /\ a.command = run[s].command
           /\ AnswerTrue(a, receipts', q, g)

LEMMA RunFacts ==
  ASSUME IInv, NEW s \in Sessions, run[s] # Idle
  PROVE  /\ run[s] \in Execution /\ run[s].command \in Commands /\ OrderOf(s) \in Orders
         /\ shipments[OrderOf(s)] \in Shipment /\ cancellations[OrderOf(s)] \in Cancellation
         /\ RowTrue(OrderOf(s), shipments[OrderOf(s)], cancellations[OrderOf(s)], requests)
         /\ ExecutionTrue(run[s], shipments[OrderOf(s)], cancellations[OrderOf(s)], calls)
         /\ [command |-> run[s].command, result |-> None] \in receipts
         /\ ParcelTrue(OrderOf(s), parcels[OrderOf(s)], shipments[OrderOf(s)],
                        cancellations[OrderOf(s)], requests)
  <1>1. ExecutionTrue(run[s], shipments[OrderOf(s)], cancellations[OrderOf(s)], calls)
        /\ [command |-> run[s].command, result |-> None] \in receipts
    BY DEF IInv, ExecutionsOK
  <1>2. run[s] \in Execution
    BY <1>1 DEF ExecutionTrue
  <1>3. run[s].command \in Commands
    BY <1>2 DEF Execution
  <1>4. OrderOf(s) \in Orders
    BY <1>3, CommandFacts DEF OrderOf
  <1> QED
    BY <1>1, <1>2, <1>3, <1>4 DEF IInv, Shape, RowsOK, ProviderOK

(* The open receipt of a command is the only one that is completed.         *)
LEMMA CompletedReceipts ==
  ASSUME IInv, NEW s \in Sessions, run[s] # Idle, NEW result \in Results,
         CompleteReceipt(s, result)
  PROVE  /\ [command |-> run[s].command, result |-> result] \in receipts'
         /\ \A r \in receipts :
              r.command # run[s].command \/ r.result # None => r \in receipts'
         /\ \A r \in receipts : \E q \in receipts' : q.command = r.command
         /\ \A q \in receipts' :
              \/ q \in receipts
              \/ q = [command |-> run[s].command, result |-> result]
         /\ \A q, r \in receipts' :
              q.command.idempotencyKey = r.command.idempotencyKey => q = r
  <1> DEFINE open == [command |-> run[s].command, result |-> None]
             done == [command |-> run[s].command, result |-> result]
             Image(r) == IF r.command = run[s].command THEN [r EXCEPT !.result = result] ELSE r
  <1>1. open \in receipts
    BY RunFacts
  <1>2. /\ \A r \in receipts : r = [command |-> r.command, result |-> r.result]
        /\ \A q, r \in receipts :
             q.command.idempotencyKey = r.command.idempotencyKey => q = r
    BY DEF IInv, ReceiptsOK, ReceiptTrue, Receipt
  <1>3. \A r \in receipts : r.command = run[s].command => r = open
    BY <1>1, <1>2
  <1>4. \A r \in receipts : Image(r) = IF r.command = run[s].command THEN done ELSE r
    BY <1>3
  <1>5. receipts' = {Image(r) : r \in receipts}
    BY DEF CompleteReceipt
  <1>6. receipts' = (receipts \ {open}) \cup {done}
    BY <1>1, <1>3, <1>4, <1>5
  <1>7. \A r \in receipts : r.command # run[s].command \/ r.result # None => r # open
    OBVIOUS
  <1>8. \A q \in receipts' : \E r \in receipts : q.command = r.command /\ q = Image(r)
    BY <1>1, <1>4, <1>5
  <1>9. ASSUME NEW r \in receipts PROVE \E q \in receipts' : q.command = r.command
    <2>1. Image(r) \in receipts'
      BY <1>5
    <2>2. Image(r).command = r.command
      BY <1>4
    <2> QED
      BY <2>1, <2>2
  <1>10. \A q, r \in receipts' :
           q.command.idempotencyKey = r.command.idempotencyKey => q = r
    BY <1>2, <1>8
  <1> QED
    BY <1>6, <1>7, <1>9, <1>10

LEMMA AnswersKept ==
  ASSUME NEW a, NEW rs, NEW new, NEW p, NEW f, NEW q, NEW g,
         AnswerTrue(a, rs, p, f), RowGrows(p, f, q, g),
         \A r \in rs : r.result # None => r \in new,
         \A r \in rs : \E n \in new : n.command = r.command
  PROVE  AnswerTrue(a, new, q, g)
  <1>1. a \in Answer /\ a.result # None
    BY DEF AnswerTrue, Answer, Results, Refusals, TurnedDown, None
  <1>2. CASE [command |-> a.command, result |-> a.result] \in rs
    BY <1>1, <1>2 DEF AnswerTrue
  <1>3. CASE \E r \in rs : /\ r.command.idempotencyKey = a.command.idempotencyKey
                           /\ r.command # a.command
                           /\ a.result = "IDEMPOTENCY_CONFLICT"
    <2>1. PICK r \in rs : /\ r.command.idempotencyKey = a.command.idempotencyKey
                          /\ r.command # a.command
                          /\ a.result = "IDEMPOTENCY_CONFLICT"
      BY <1>3
    <2>2. PICK n \in new : n.command = r.command
      BY <2>1
    <2> QED
      BY <1>1, <2>1, <2>2 DEF AnswerTrue
  <1>4. CASE /\ a.result = "IDEMPOTENCY_CONFLICT"
             /\ a.command.operation = "CANCEL_SHIPMENT" /\ ForeignTo(a.command, p, f)
    BY <1>1, <1>4, ForeignKept DEF AnswerTrue
  <1>5. CASE a.command.operation = "CANCEL_SHIPMENT" /\ a.result = TurnedDown
    BY <1>1, <1>5 DEF AnswerTrue
  <1> QED
    BY <1>2, <1>3, <1>4, <1>5 DEF AnswerTrue

LEMMA ServiceStep ==
  ASSUME IInv, NEW s \in Sessions, run[s] # Idle, NEW e, NEW q, NEW g,
         OnItsOrder(s, e, q, g), RowsMove(s, q, g), CallsGrow(s, q, g),
         Goes(s, e, q, g), Receipts(s, e, q, g), AnswersGrow(s, q, g)
  PROVE  IInv'
  <1> DEFINE o == OrderOf(s)
             p == shipments[o]
             f == cancellations[o]
  <1>1. /\ run[s].command \in Commands /\ o \in Orders /\ run[s].command.orderId = o
        /\ RowTrue(o, p, f, requests) /\ RowGrows(p, f, q, g) /\ RowTrue(o, q, g, requests)
        /\ q \in Shipment /\ g \in Cancellation
    BY RunFacts DEF RowsMove, OrderOf, RowTrue
  <1>2. /\ shipments \in [Orders -> Shipment] /\ cancellations \in [Orders -> Cancellation]
        /\ DOMAIN run = Sessions
    BY DEF IInv, Shape
  <1>3. /\ shipments'[o] = q /\ cancellations'[o] = g
        /\ \A x \in Orders \ {o} :
             shipments'[x] = shipments[x] /\ cancellations'[x] = cancellations[x]
        /\ shipments' \in [Orders -> Shipment] /\ cancellations' \in [Orders -> Cancellation]
        /\ DOMAIN run' = Sessions /\ run'[s] = e
        /\ \A t \in Sessions \ {s} : run'[t] = run[t]
        /\ parcels' = parcels /\ requests' = requests
    BY <1>1, <1>2 DEF OnItsOrder, provider
  <1>4. \A x \in Orders : RowGrows(shipments[x], cancellations[x], shipments'[x], cancellations'[x])
    BY <1>1, <1>3, RowGrowsItself
  <1>5. e # Idle => e.command = run[s].command /\ receipts' = receipts
    BY DEF Goes
  <1>6. /\ \A r \in receipts :
             r.command # run[s].command \/ r.result # None => r \in receipts'
        /\ \A r \in receipts : \E n \in receipts' : n.command = r.command
        /\ \A n \in receipts' :
             \/ n \in receipts
             \/ n.command = run[s].command /\ n \in Receipt /\ Fits(n.command, n.result, q, g)
        /\ \A n, r \in receipts' :
             n.command.idempotencyKey = r.command.idempotencyKey => n = r
    <2>1. CASE receipts' = receipts
      BY <2>1 DEF IInv, ReceiptsOK
    <2>2. CASE \E result \in Results :
                 CompleteReceipt(s, result) /\ Fits(run[s].command, result, q, g)
      <3>1. PICK result \in Results :
               CompleteReceipt(s, result) /\ Fits(run[s].command, result, q, g)
        BY <2>2
      <3>2. [command |-> run[s].command, result |-> result] \in Receipt
        BY <1>1 DEF Receipt
      <3> QED
        BY <3>1, <3>2, CompletedReceipts
    <2> QED
      BY <2>1, <2>2 DEF Receipts
  <1>7. Shape'
    BY <1>3 DEF IInv, Shape, CallsGrow
  <1>8. RowsOK'
    BY <1>1, <1>3 DEF IInv, RowsOK
  <1>9. CallsOK'
    <2> SUFFICES ASSUME NEW x \in calls'
                 PROVE  CallTrue(x, shipments'[x.orderId], cancellations'[x.orderId])
      BY DEF CallsOK
    <2>1. CASE x \in calls
      <3>1. x.orderId \in Orders
        BY <2>1 DEF IInv, Shape, Call
      <3> QED
        BY <2>1, <3>1, <1>4, CallKept DEF IInv, CallsOK
    <2>2. CASE x \notin calls
      BY <2>2, <1>3 DEF CallsGrow
    <2> QED
      BY <2>1, <2>2
  <1>10. ProviderOK'
    <2>1. \A x \in Orders : ParcelTrue(x, parcels[x], shipments'[x], cancellations'[x], requests)
      BY <1>4, ParcelKept DEF IInv, ProviderOK
    <2> QED
      BY <2>1, <1>3 DEF IInv, ProviderOK, CallsGrow
  <1>11. LockOK'
    <2>1. \A t \in Sessions : run'[t] # Idle => run[t] # Idle /\ run'[t].command = run[t].command
      BY <1>3, <1>5
    <2> QED
      BY <2>1 DEF IInv, LockOK, OrderOf
  <1>12. ExecutionsOK'
    <2> SUFFICES ASSUME NEW t \in Sessions, run'[t] # Idle
                 PROVE  /\ ExecutionTrue(run'[t], shipments'[OrderOf(t)'],
                                         cancellations'[OrderOf(t)'], calls')
                        /\ [command |-> run'[t].command, result |-> None] \in receipts'
      BY DEF ExecutionsOK
    <2>1. CASE t = s
      <3>1. e # Idle /\ run'[t] = e /\ OrderOf(t)' = o
        BY <2>1, <1>3, <1>5 DEF OrderOf
      <3> QED
        BY <3>1, <1>3, <1>5, RunFacts DEF Goes
    <2>2. CASE t # s
      <3>1. run'[t] = run[t] /\ OrderOf(t)' = OrderOf(t) /\ OrderOf(t) # o
        BY <2>2, <1>3 DEF IInv, LockOK, OrderOf
      <3>2. /\ ExecutionTrue(run[t], shipments[OrderOf(t)], cancellations[OrderOf(t)], calls)
            /\ [command |-> run[t].command, result |-> None] \in receipts
            /\ OrderOf(t) \in Orders
        BY <3>1, RunFacts
      <3>3. /\ shipments'[OrderOf(t)] = shipments[OrderOf(t)]
            /\ cancellations'[OrderOf(t)] = cancellations[OrderOf(t)]
        BY <3>1, <3>2, <1>3
      <3>4. ExecutionTrue(run[t], shipments[OrderOf(t)], cancellations[OrderOf(t)], calls')
        BY <3>2 DEF ExecutionTrue, CallsGrow
      <3>5. run[t].command # run[s].command
        BY <3>1 DEF OrderOf
      <3> QED
        BY <3>1, <3>2, <3>3, <3>4, <3>5, <1>6
    <2> QED
      BY <2>1, <2>2
  <1>13. ReceiptsOK'
    <2>1. ASSUME NEW n \in receipts'
          PROVE  ReceiptTrue(n, shipments'[n.command.orderId], cancellations'[n.command.orderId])
      <3>1. CASE n \in receipts
        <4>1. ReceiptTrue(n, shipments[n.command.orderId], cancellations[n.command.orderId])
          BY <3>1 DEF IInv, ReceiptsOK
        <4>2. n.command.orderId \in Orders
          BY <4>1, CommandFacts DEF ReceiptTrue, Receipt
        <4> QED
          BY <4>1, <4>2, <1>4, FitsKept DEF ReceiptTrue
      <3>2. CASE n \notin receipts
        BY <3>2, <1>1, <1>3, <1>6 DEF ReceiptTrue
      <3> QED
        BY <3>1, <3>2
    <2> QED
      BY <2>1, <1>6 DEF ReceiptsOK
  <1>14. AnswersOK'
    <2> SUFFICES ASSUME NEW a \in answers'
                 PROVE  AnswerTrue(a, receipts', shipments'[a.command.orderId],
                                   cancellations'[a.command.orderId])
      BY DEF AnswersOK
    <2>1. CASE a \in answers
      <3>1. AnswerTrue(a, receipts, shipments[a.command.orderId], cancellations[a.command.orderId])
        BY <2>1 DEF IInv, AnswersOK
      <3>2. a.command.orderId \in Orders
        BY <3>1, CommandFacts DEF AnswerTrue, Answer
      <3> QED
        BY <3>1, <3>2, <1>4, <1>6, AnswersKept
    <2>2. CASE a \notin answers
      BY <2>2, <1>1, <1>3 DEF AnswersGrow
    <2> QED
      BY <2>1, <2>2
  <1> QED
    BY <1>7, <1>8, <1>9, <1>10, <1>11, <1>12, <1>13, <1>14 DEF IInv

(* An execution that answers by its receipt.                                *)
LEMMA ConcludeStep ==
  ASSUME IInv, NEW s \in Sessions, run[s] # Idle, NEW q, NEW g, NEW result \in Results,
         OnItsOrder(s, Idle, q, g), RowsMove(s, q, g), calls' = calls,
         CompleteReceipt(s, result), Fits(run[s].command, result, q, g),
         answers' = answers \cup {[command |-> run[s].command, result |-> result]}
  PROVE  IInv'
  <1> DEFINE a == [command |-> run[s].command, result |-> result]
  <1>1. a \in receipts' /\ a \in Answer
    BY CompletedReceipts, RunFacts DEF Answer
  <1>2. AnswerTrue(a, receipts', q, g)
    BY <1>1 DEF AnswerTrue
  <1>3. CallsGrow(s, q, g) /\ Goes(s, Idle, q, g) /\ Receipts(s, Idle, q, g) /\ AnswersGrow(s, q, g)
    BY <1>2 DEF CallsGrow, Goes, Receipts, AnswersGrow, IInv, Shape
  <1> QED
    BY <1>3, ServiceStep

LEMMA KeepRows ==
  ASSUME IInv, NEW s \in Sessions, run[s] # Idle, NEW e, run' = [run EXCEPT ![s] = e],
         UNCHANGED <<shipments, cancellations, provider>>
  PROVE  /\ OnItsOrder(s, e, shipments[OrderOf(s)], cancellations[OrderOf(s)])
         /\ RowsMove(s, shipments[OrderOf(s)], cancellations[OrderOf(s)])
  <1>1. /\ shipments' = [shipments EXCEPT ![OrderOf(s)] = shipments[OrderOf(s)]]
        /\ cancellations' = [cancellations EXCEPT ![OrderOf(s)] = cancellations[OrderOf(s)]]
    BY DEF IInv, Shape
  <1> QED
    BY <1>1, RunFacts, RowGrowsItself DEF OnItsOrder, RowsMove

LEMMA Working ==
  ASSUME NEW s, NEW phase, InPhase(s, phase), phase # "idle"
  PROVE  run[s] # Idle
  BY DEF InPhase, Idle

-----------------------------------------------------------------------------
(* Commands and their receipts.                                            *)

LEMMA BeginStep ==
  ASSUME IInv, NEW s \in Sessions, NEW c \in Commands, Begin(s, c)
  PROVE  IInv'
  <1> DEFINE o == c.orderId
             e == [phase |-> "read", command |-> c, shipment |-> shipments[o],
                   cancellation |-> cancellations[o], result |-> None]
             new == [command |-> c, result |-> None]
  <1>1. /\ o \in Orders /\ shipments[o] \in Shipment /\ cancellations[o] \in Cancellation
        /\ DOMAIN run = Sessions
    BY CommandFacts DEF IInv, Shape
  <1>2. /\ run' = [run EXCEPT ![s] = e] /\ receipts' = receipts \cup {new}
        /\ shipments' = shipments /\ cancellations' = cancellations
        /\ calls' = calls /\ answers' = answers
        /\ parcels' = parcels /\ requests' = requests
    BY DEF Begin, provider
  <1>3. e # Idle /\ e.command = c /\ e \in Execution
    BY <1>1 DEF Idle, Execution
  <1>4. /\ run'[s] = e
        /\ \A t \in Sessions \ {s} : run'[t] = run[t]
    BY <1>1, <1>2
  <1>5. ExecutionTrue(e, shipments[o], cancellations[o], calls)
    BY <1>3 DEF ExecutionTrue
  <1>6. \A r \in receipts : r.command.idempotencyKey = c.idempotencyKey => r = new
    <2> SUFFICES ASSUME NEW r \in receipts, r.command.idempotencyKey = c.idempotencyKey
                 PROVE  r = new
      OBVIOUS
    <2>1. r \in Receipt
      BY DEF IInv, ReceiptsOK, ReceiptTrue
    <2>2. r.command \in Commands /\ r = [command |-> r.command, result |-> r.result]
      BY <2>1 DEF Receipt
    <2>3. r.result = None /\ SameContent(r.command, c)
      BY DEF Begin, ReceiptsFor
    <2> QED
      BY <2>2, <2>3, SameCommand
  <1>7. /\ new \in Receipt /\ new.result = None
        /\ \A r \in receipts' : r \in receipts \/ r = new
    BY <1>2 DEF Receipt
  <1> HIDE DEF e, new
  <1>8. Shape' /\ RowsOK' /\ CallsOK' /\ ProviderOK'
    BY <1>2, <1>1 DEF IInv, Shape, RowsOK, CallsOK, ProviderOK
  <1>9. LockOK'
    <2>1. \A t \in Sessions : run[t] # Idle => run[t].command.orderId # o
      BY DEF Begin, OrderFree, OrderOf
    <2> QED
      BY <2>1, <1>3, <1>4 DEF IInv, LockOK, OrderOf
  <1>10. ExecutionsOK'
    <2> SUFFICES ASSUME NEW t \in Sessions, run'[t] # Idle
                 PROVE  /\ ExecutionTrue(run'[t], shipments'[OrderOf(t)'],
                                         cancellations'[OrderOf(t)'], calls')
                        /\ [command |-> run'[t].command, result |-> None] \in receipts'
      BY DEF ExecutionsOK
    <2>1. CASE t = s
      <3>1. run'[t] = e /\ OrderOf(t)' = o
        BY <2>1, <1>3, <1>4 DEF OrderOf
      <3> QED
        BY <3>1, <1>2, <1>3, <1>5 DEF new
    <2>2. CASE t # s
      <3>1. run'[t] = run[t] /\ OrderOf(t)' = OrderOf(t)
        BY <2>2, <1>4 DEF OrderOf
      <3> QED
        BY <3>1, <1>2, RunFacts
    <2> QED
      BY <2>1, <2>2
  <1>11. ReceiptsOK'
    BY <1>2, <1>6, <1>7 DEF IInv, ReceiptsOK, ReceiptTrue, new
  <1>12. AnswersOK'
    BY <1>2, RowGrowsItself, AnswersKept DEF IInv, AnswersOK
  <1> QED
    BY <1>8, <1>9, <1>10, <1>11, <1>12 DEF IInv

LEMMA ReplayReceiptStep ==
  ASSUME IInv, NEW s \in Sessions, NEW c \in Commands, ReplayReceipt(s, c)
  PROVE  IInv'
  <1>1. /\ shipments' = shipments /\ cancellations' = cancellations /\ receipts' = receipts
        /\ run' = run /\ calls' = calls /\ parcels' = parcels /\ requests' = requests
    BY DEF ReplayReceipt, service, provider
  <1>2. PICK r \in receipts :
          /\ r.command.idempotencyKey = c.idempotencyKey
          /\ ~SameContent(r.command, c) =>
               answers' = answers \cup {[command |-> c, result |-> "IDEMPOTENCY_CONFLICT"]}
          /\ SameContent(r.command, c) =>
               /\ r.result # None
               /\ answers' = answers \cup {[command |-> c, result |-> r.result]}
    BY DEF ReplayReceipt, ReceiptsFor
  <1>3. /\ r.command \in Commands /\ r.result \in Results \cup {None}
        /\ r = [command |-> r.command, result |-> r.result]
    BY DEF IInv, ReceiptsOK, ReceiptTrue, Receipt
  <1>4. \E a : /\ answers' = answers \cup {a}
               /\ AnswerTrue(a, receipts, shipments[a.command.orderId],
                             cancellations[a.command.orderId])
    <2>1. CASE ~SameContent(r.command, c)
      <3> DEFINE a == [command |-> c, result |-> "IDEMPOTENCY_CONFLICT"]
      <3>1. r.command # c
        BY <2>1 DEF SameContent
      <3>2. a \in Answer
        BY DEF Answer, Results, Refusals
      <3>3. AnswerTrue(a, receipts, shipments[a.command.orderId], cancellations[a.command.orderId])
        BY <3>1, <3>2, <1>2 DEF AnswerTrue
      <3> QED
        BY <3>3, <2>1, <1>2
    <2>2. CASE SameContent(r.command, c)
      <3> DEFINE a == [command |-> c, result |-> r.result]
      <3>1. r.command = c /\ r.result # None
        BY <2>2, <1>2, <1>3, SameCommand
      <3>2. a \in Answer /\ [command |-> a.command, result |-> a.result] \in receipts
        BY <3>1, <1>3 DEF Answer
      <3>3. AnswerTrue(a, receipts, shipments[a.command.orderId], cancellations[a.command.orderId])
        BY <3>2 DEF AnswerTrue
      <3> QED
        BY <3>3, <2>2, <1>2
    <2> QED
      BY <2>1, <2>2
  <1>5. AnswersOK'
    BY <1>1, <1>4 DEF IInv, AnswersOK
  <1> QED
    BY <1>1, <1>5 DEF IInv, Shape, RowsOK, CallsOK, ProviderOK, LockOK, ExecutionsOK, ReceiptsOK,
                      OrderOf

LEMMA AbandonStep ==
  ASSUME IInv, NEW s \in Sessions, Abandon(s)
  PROVE  IInv'
  <1> DEFINE p == shipments[OrderOf(s)]
             f == cancellations[OrderOf(s)]
  <1>1. run[s] # Idle /\ run' = [run EXCEPT ![s] = Idle]
    BY DEF Abandon
  <1>2. OnItsOrder(s, Idle, p, f) /\ RowsMove(s, p, f)
    BY <1>1, KeepRows DEF Abandon, service
  <1>3. CallsGrow(s, p, f) /\ Goes(s, Idle, p, f) /\ Receipts(s, Idle, p, f) /\ AnswersGrow(s, p, f)
    BY DEF Abandon, service, CallsGrow, Goes, Receipts, AnswersGrow, IInv, Shape
  <1> QED
    BY <1>1, <1>2, <1>3, ServiceStep

-----------------------------------------------------------------------------
(* Creating.                                                               *)

LEMMA ConcludeCreateStep ==
  ASSUME IInv, NEW s \in Sessions, run[s] # Idle, NEW result \in Results,
         ConcludeCreate(s, result),
         Fits(run[s].command, result, shipments[OrderOf(s)], cancellations[OrderOf(s)])
  PROVE  IInv'
  <1>1. /\ run' = [run EXCEPT ![s] = Idle] /\ CompleteReceipt(s, result)
        /\ answers' = answers \cup {[command |-> run[s].command, result |-> result]}
        /\ UNCHANGED <<shipments, cancellations, provider>> /\ calls' = calls
    BY DEF ConcludeCreate, CompleteReceipt, Respond
  <1> QED
    BY <1>1, KeepRows, ConcludeStep

LEMMA ReadFacts ==
  ASSUME IInv, NEW s \in Sessions, InPhase(s, "read")
  PROVE  /\ run[s] # Idle
         /\ run[s].shipment = shipments[OrderOf(s)]
         /\ run[s].cancellation = cancellations[OrderOf(s)]
         /\ run[s].result = None
  BY RunFacts, Working DEF ExecutionTrue, InPhase

LEMMA RefuseConflictStep ==
  ASSUME IInv, NEW s \in Sessions, RefuseConflict(s)
  PROVE  IInv'
  <1> DEFINE c == run[s].command
             p == shipments[OrderOf(s)]
             f == cancellations[OrderOf(s)]
  <1>1. InPhase(s, "read") /\ Conflicting(s)
    BY DEF RefuseConflict
  <1>2. run[s] # Idle /\ run[s].shipment = p /\ run[s].cancellation = f /\ c \in Commands
    BY <1>1, ReadFacts, RunFacts
  <1>3. "IDEMPOTENCY_CONFLICT" \in Results /\ "IDEMPOTENCY_CONFLICT" \in Refusals
        /\ "IDEMPOTENCY_CONFLICT" \notin {"CREATED", "SHIPPING_REJECTED"}
    BY DEF Results, Refusals
  <1>4. CASE For(s, "CREATE_SHIPMENT")
    <2>1. Fits(c, "IDEMPOTENCY_CONFLICT", p, f)
      BY <1>4, <1>3 DEF Fits, For
    <2> QED
      BY <1>2, <1>3, <1>4, <2>1, ConcludeCreateStep DEF RefuseConflict
  <1>5. CASE ~For(s, "CREATE_SHIPMENT")
    <2> DEFINE a == [command |-> c, result |-> "IDEMPOTENCY_CONFLICT"]
    <2>1. c.operation = "CANCEL_SHIPMENT"
      BY <1>2, <1>5, CommandFacts DEF For, Operations
    <2>2. ForeignTo(c, p, f)
      BY <1>1, <1>2, <1>5 DEF Conflicting, Changed, Foreign, ForeignTo
    <2>3. a \in Answer /\ a.command = c /\ AnswerTrue(a, receipts', p, f)
      BY <1>2, <1>3, <2>1, <2>2 DEF Answer, AnswerTrue
    <2>4. /\ run' = [run EXCEPT ![s] = Idle] /\ answers' = answers \cup {a}
          /\ UNCHANGED <<shipments, cancellations, provider>>
          /\ calls' = calls /\ receipts' = receipts
      BY <1>5 DEF RefuseConflict, LeaveOpen, Respond, service
    <2>5. OnItsOrder(s, Idle, p, f) /\ RowsMove(s, p, f)
      BY <1>2, <2>4, KeepRows
    <2>6. CallsGrow(s, p, f) /\ Goes(s, Idle, p, f) /\ Receipts(s, Idle, p, f)
          /\ AnswersGrow(s, p, f)
      BY <2>3, <2>4 DEF CallsGrow, Goes, Receipts, AnswersGrow, IInv, Shape
    <2> QED
      BY <1>2, <2>5, <2>6, ServiceStep
  <1> QED
    BY <1>4, <1>5

LEMMA RefuseCreateStep ==
  ASSUME IInv, NEW s \in Sessions, RefuseCreate(s)
  PROVE  IInv'
  <1>1. run[s] # Idle /\ For(s, "CREATE_SHIPMENT")
        /\ ConcludeCreate(s, "ALREADY_COMPENSATED")
    BY ReadFacts DEF RefuseCreate, Proceeds
  <1>2. "ALREADY_COMPENSATED" \in Results
        /\ Fits(run[s].command, "ALREADY_COMPENSATED", shipments[OrderOf(s)],
                cancellations[OrderOf(s)])
    BY <1>1 DEF Results, Refusals, Fits, For
  <1> QED
    BY <1>1, <1>2, ConcludeCreateStep

LEMMA ReplayCreateStep ==
  ASSUME IInv, NEW s \in Sessions, ReplayCreate(s)
  PROVE  IInv'
  <1> DEFINE p == shipments[OrderOf(s)]
             f == cancellations[OrderOf(s)]
  <1>1. run[s] # Idle /\ For(s, "CREATE_SHIPMENT") /\ p.createResult # None
        /\ ConcludeCreate(s, p.createResult)
    BY ReadFacts DEF ReplayCreate, Proceeds
  <1>2. p.createResult \in {"CREATED"} \cup Refusals
    BY <1>1, RunFacts DEF Shipment
  <1>3. p.createResult \in Results /\ Fits(run[s].command, p.createResult, p, f)
    BY <1>1, <1>2 DEF Results, Fits, For
  <1> QED
    BY <1>1, <1>3, ConcludeCreateStep

LEMMA FinishCreateStep ==
  ASSUME IInv, NEW s \in Sessions, FinishCreate(s)
  PROVE  IInv'
  <1> DEFINE p == shipments[OrderOf(s)]
             f == cancellations[OrderOf(s)]
  <1>1. InPhase(s, "created") /\ For(s, "CREATE_SHIPMENT") /\ ConcludeCreate(s, run[s].result)
    BY DEF FinishCreate
  <1>2. run[s] # Idle
    BY <1>1, Working
  <1>3. run[s].result # None /\ run[s].result = p.createResult
    BY <1>1, <1>2, RunFacts DEF ExecutionTrue, InPhase
  <1>4. p.createResult \in {"CREATED"} \cup Refusals
    BY <1>2, <1>3, RunFacts DEF Shipment
  <1>5. p.createResult \in Results /\ Fits(run[s].command, p.createResult, p, f)
    BY <1>1, <1>4 DEF Results, Fits, For
  <1> QED
    BY <1>1, <1>2, <1>3, <1>5, ConcludeCreateStep

LEMMA StartCreateStep ==
  ASSUME IInv, NEW s \in Sessions, StartCreate(s)
  PROVE  IInv'
  <1> DEFINE c == run[s].command
             o == OrderOf(s)
             p == shipments[o]
             f == cancellations[o]
             new == [NoShipment EXCEPT !.status = "PENDING", !.sagaId = c.sagaId,
                                       !.content = c.content]
             q == IF p.status = "ABSENT" THEN new ELSE p
             e == [run[s] EXCEPT !.phase = "creating"]
             x == CreateCall(o, q)
  <1>1. /\ InPhase(s, "read") /\ For(s, "CREATE_SHIPMENT") /\ ~Conflicting(s) /\ ~Cancelled(s)
        /\ run[s].shipment.createResult = None
    BY DEF StartCreate, Proceeds
  <1>2. /\ run[s] # Idle /\ run[s].shipment = p /\ run[s].cancellation = f /\ run[s].result = None
        /\ run[s] \in Execution /\ c \in Commands /\ o \in Orders /\ c.orderId = o
        /\ p \in Shipment /\ f \in Cancellation /\ RowTrue(o, p, f, requests)
    BY <1>1, ReadFacts, RunFacts DEF OrderOf
  <1>3. /\ c.sagaId \in Sagas /\ c.content \in Contents
        /\ SagaOf(o, c.sagaId) /\ c.operation = "CREATE_SHIPMENT"
    BY <1>1, <1>2, CommandFacts DEF For
  <1>4. /\ f.status = "ABSENT" /\ p.status \in {"ABSENT", "PENDING"}
        /\ p.status # "ABSENT" => p.sagaId = c.sagaId
    BY <1>1, <1>2 DEF Cancelled, Conflicting, Foreign, RowTrue
  <1>5. /\ new \in Shipment /\ new.status = "PENDING" /\ new.sagaId = c.sagaId
        /\ new.createResult = None
    BY <1>3 DEF NoShipment, Shipment
  <1>6. /\ q \in Shipment /\ q.status = "PENDING" /\ q.sagaId = c.sagaId
        /\ q.createResult = None
        /\ p.status # "ABSENT" => q = p
    BY <1>1, <1>2, <1>3, <1>4, <1>5
  <1>7. /\ shipments' = [shipments EXCEPT ![o] = q] /\ run' = [run EXCEPT ![s] = e]
        /\ calls' = calls \cup {x} /\ cancellations' = cancellations /\ receipts' = receipts
        /\ answers' = answers /\ UNCHANGED provider
    BY <1>2 DEF StartCreate, CallCreate, provider
  <1>8. e \in Execution /\ e.phase = "creating" /\ e.command = c /\ e.result = None
    BY <1>2 DEF Execution
  <1> HIDE DEF q, new, e
  <1>9. x \in Call /\ x.orderId = o /\ CallTrue(x, q, f)
    <2>1. q.sagaId \in Sagas /\ q.content \in Contents
      BY <1>3, <1>6 DEF Shipment
    <2> QED
      BY <2>1, <1>2, <1>6 DEF CreateCall, Call, CallTrue, Operations
  <1>10. OnItsOrder(s, e, q, f)
    BY <1>7 DEF OnItsOrder, IInv, Shape
  <1>11. RowsMove(s, q, f)
    <2>1. RowTrue(o, q, f, requests)
      BY <1>2, <1>3, <1>4, <1>6 DEF RowTrue, Refusals, None
    <2>2. RowGrows(p, f, q, f)
      BY <1>2, <1>4, <1>6 DEF RowGrows, RowTrue
    <2> QED
      BY <2>1, <2>2 DEF RowsMove
  <1>12. ExecutionTrue(e, q, f, calls')
    <2>1. CreateCall(c.orderId, q) \in calls'
      BY <1>2, <1>7
    <2> QED
      BY <2>1, <1>3, <1>4, <1>6, <1>8 DEF ExecutionTrue
  <1>13. CallsGrow(s, q, f) /\ Goes(s, e, q, f) /\ Receipts(s, e, q, f) /\ AnswersGrow(s, q, f)
    BY <1>7, <1>8, <1>9, <1>12 DEF CallsGrow, Goes, Receipts, AnswersGrow, IInv, Shape
  <1> QED
    BY <1>2, <1>10, <1>11, <1>13, ServiceStep

(* The provider's result for the one creation that the row asks for.        *)
LEMMA CreateAnsweredStep ==
  ASSUME IInv, NEW s \in Sessions, CreateAnswered(s)
  PROVE  IInv'
  <1> DEFINE c == run[s].command
             o == OrderOf(s)
             p == shipments[o]
             f == cancellations[o]
             x == CreateCall(o, p)
  <1>1. /\ InPhase(s, "creating")
        /\ UNCHANGED <<cancellations, receipts, calls, provider, answers>>
    BY DEF CreateAnswered
  <1>2. PICK result \in Results :
          /\ ProviderAnswer(x, result)
          /\ shipments' = [shipments EXCEPT ![o].status = CreateStatus(result),
                                          ![o].createResult = result]
          /\ run' = [run EXCEPT ![s].phase = "created", ![s].result = result]
    BY DEF CreateAnswered, CreateStatus
  <1> DEFINE q == [p EXCEPT !.status = CreateStatus(result), !.createResult = result]
             e == [run[s] EXCEPT !.phase = "created", !.result = result]
  <1>3. /\ run[s] # Idle /\ run[s].phase = "creating"
        /\ run[s] \in Execution /\ c \in Commands /\ o \in Orders /\ c.orderId = o
        /\ p \in Shipment /\ f \in Cancellation /\ RowTrue(o, p, f, requests)
        /\ ParcelTrue(o, parcels[o], p, f, requests)
        /\ ExecutionTrue(run[s], p, f, calls)
    BY <1>1, Working, RunFacts DEF OrderOf, InPhase
  <1>4. p.status = "PENDING" /\ x \in calls /\ run[s].result = None
    BY <1>3 DEF ExecutionTrue
  <1>5. Served(requests, x, result)
    BY <1>2, <1>4, AnswerIsServed
  <1>6. result \in {"CREATED", "SHIPPING_REJECTED", "ALREADY_COMPENSATED"}
    <2>1. [call |-> x, result |-> result].call.orderId = o
          /\ [call |-> x, result |-> result].call.operation = "CREATE_SHIPMENT"
      BY DEF CreateCall
    <2> QED
      BY <1>3, <1>5, <2>1 DEF ParcelTrue, Served
  <1>7. /\ shipments' = [shipments EXCEPT ![o] = q] /\ run' = [run EXCEPT ![s] = e]
    BY <1>2, <1>3 DEF IInv, Shape
  <1>8. /\ result \in {"CREATED"} \cup Refusals /\ result # None
        /\ result = "CREATED" \/ result \in Refusals
        /\ "CREATED" \notin Refusals
    BY <1>6 DEF Refusals, None
  <1>9. /\ CreateStatus(result) \in {"FAILED", "CREATED"}
        /\ CreateStatus(result) = "FAILED" <=> result \in Refusals
    BY <1>8 DEF CreateStatus
  <1>10. /\ q \in Shipment /\ q.status = CreateStatus(result) /\ q.createResult = result
         /\ q.sagaId = p.sagaId /\ q.content = p.content
    BY <1>3, <1>8, <1>9 DEF Shipment
  <1>11. /\ e \in Execution /\ e.phase = "created" /\ e.command = c /\ e.result = result
         /\ e.shipment = run[s].shipment /\ e.cancellation = run[s].cancellation
    BY <1>3 DEF Execution
  <1>12. CreateCall(o, q) = x
    BY <1>10 DEF CreateCall
  <1> HIDE DEF q, e
  <1>13. OnItsOrder(s, e, q, f)
    BY <1>1, <1>7 DEF OnItsOrder, IInv, Shape
  <1>14. RowsMove(s, q, f)
    <2>1. f.status \in {"ABSENT", "PENDING"}
      BY <1>3 DEF ExecutionTrue, Execution, Operations, RowTrue, Cancellation, NoCancellation,
                  IInv, Shape
    <2>2. RowTrue(o, q, f, requests)
      BY <2>1, <1>3, <1>4, <1>5, <1>8, <1>9, <1>10, <1>12 DEF RowTrue
    <2>3. RowGrows(p, f, q, f)
      BY <2>1, <1>3, <1>4, <1>9, <1>10 DEF RowGrows, RowTrue
    <2> QED
      BY <2>2, <2>3 DEF RowsMove
  <1>15. ExecutionTrue(e, q, f, calls)
    BY <1>3, <1>4, <1>8, <1>9, <1>10, <1>11, <1>12 DEF ExecutionTrue
  <1>16. CallsGrow(s, q, f) /\ Goes(s, e, q, f) /\ Receipts(s, e, q, f) /\ AnswersGrow(s, q, f)
    BY <1>1, <1>11, <1>15 DEF CallsGrow, Goes, Receipts, AnswersGrow, IInv, Shape
  <1> QED
    BY <1>3, <1>13, <1>14, <1>16, ServiceStep

-----------------------------------------------------------------------------
(* Cancelling.                                                             *)

LEMMA RequestCancelStep ==
  ASSUME IInv, NEW s \in Sessions, RequestCancel(s)
  PROVE  IInv'
  <1> DEFINE c == run[s].command
             o == OrderOf(s)
             p == shipments[o]
             f == cancellations[o]
             new == [status |-> "PENDING", sagaId |-> c.sagaId,
                     linked |-> p.status # "ABSENT"]
             g == IF f = NoCancellation THEN new ELSE f
             e == [run[s] EXCEPT !.phase = "cancel"]
  <1>1. /\ InPhase(s, "read") /\ For(s, "CANCEL_SHIPMENT") /\ ~Conflicting(s)
        /\ run' = [run EXCEPT ![s].phase = "cancel"]
        /\ UNCHANGED <<shipments, receipts, calls, provider, answers>>
    BY DEF RequestCancel, Proceeds
  <1>2. /\ run[s] # Idle /\ run[s].shipment = p /\ run[s].cancellation = f /\ run[s].result = None
        /\ run[s] \in Execution /\ c \in Commands /\ o \in Orders /\ c.orderId = o
        /\ p \in Shipment /\ f \in Cancellation /\ RowTrue(o, p, f, requests)
    BY <1>1, ReadFacts, RunFacts DEF OrderOf
  <1>3. c.sagaId \in Sagas /\ SagaOf(o, c.sagaId) /\ c.operation = "CANCEL_SHIPMENT"
    BY <1>1, <1>2, CommandFacts DEF For
  <1>4. /\ p.status # "ABSENT" => p.sagaId = c.sagaId
        /\ f.status # "ABSENT" => f.sagaId = c.sagaId
        /\ f.status = "ABSENT" <=> f = NoCancellation
    BY <1>1, <1>2 DEF Conflicting, Foreign, RowTrue, NoCancellation
  <1>5. /\ g \in Cancellation /\ g.status # "ABSENT" /\ g.sagaId = c.sagaId
        /\ f.status # "ABSENT" => g = f
        /\ f.status = "ABSENT" =>
             g.status = "PENDING" /\ f = NoCancellation /\ (g.linked <=> p.status # "ABSENT")
    BY <1>2, <1>3, <1>4 DEF Cancellation
  <1>6. cancellations' = [cancellations EXCEPT ![o] = g] /\ run' = [run EXCEPT ![s] = e]
    BY <1>1, <1>2 DEF RequestCancel, CancelRequest, IInv, Shape
  <1>7. /\ e \in Execution /\ e.phase = "cancel" /\ e.command = c /\ e.result = None
        /\ e.shipment = p /\ e.cancellation = f
    BY <1>2 DEF Execution
  <1> HIDE DEF g, e, new
  <1>8. OnItsOrder(s, e, p, g)
    BY <1>1, <1>6 DEF OnItsOrder, IInv, Shape
  <1>9. RowsMove(s, p, g)
    <2>1. /\ f.status = "ABSENT" => p.status # "CANCELLED"
          /\ g.status = "CANCELLED" => g = f
          /\ g.status = "NOOP" => g = f
      BY <1>2, <1>5 DEF RowTrue
    <2>2. RowTrue(o, p, g, requests)
      BY <2>1, <1>2, <1>3, <1>4, <1>5 DEF RowTrue
    <2>3. RowGrows(p, f, p, g)
      BY <1>4, <1>5 DEF RowGrows
    <2> QED
      BY <2>2, <2>3 DEF RowsMove
  <1>10. ExecutionTrue(e, p, g, calls)
    BY <1>3, <1>4, <1>5, <1>7 DEF ExecutionTrue
  <1>11. CallsGrow(s, p, g) /\ Goes(s, e, p, g) /\ Receipts(s, e, p, g) /\ AnswersGrow(s, p, g)
    BY <1>1, <1>7, <1>10 DEF CallsGrow, Goes, Receipts, AnswersGrow, IInv, Shape
  <1> QED
    BY <1>2, <1>8, <1>9, <1>11, ServiceStep

(* The last transaction of a cancellation marks what the provider answered.*)
(* The shipment is marked with it only if it was there to be read when the *)
(* execution began and has the provider's id by now.                       *)
LEMMA ConcludeCancelStep ==
  ASSUME IInv, NEW s \in Sessions, run[s] # Idle, run[s].command.operation = "CANCEL_SHIPMENT",
         NEW result \in {"CANCELLED", "NOOP"}, ConcludeCancel(s, result),
         NEW q, NEW g,
         q = IF run[s].shipment.status # "ABSENT" /\ shipments[OrderOf(s)].createResult = "CREATED"
             THEN [shipments[OrderOf(s)] EXCEPT !.status = "CANCELLED"] ELSE shipments[OrderOf(s)],
         g = [cancellations[OrderOf(s)] EXCEPT !.status = result],
         RowsMove(s, q, g), g.sagaId = run[s].command.sagaId,
         q.status # "ABSENT" => q.sagaId = run[s].command.sagaId
  PROVE  IInv'
  <1>1. /\ run' = [run EXCEPT ![s] = Idle] /\ CompleteReceipt(s, result)
        /\ answers' = answers \cup {[command |-> run[s].command, result |-> result]}
        /\ calls' = calls /\ UNCHANGED provider
    BY DEF ConcludeCancel, CompleteReceipt, Respond
  <1>2. /\ shipments' = [shipments EXCEPT ![OrderOf(s)] = q]
        /\ cancellations' = [cancellations EXCEPT ![OrderOf(s)] = g]
    BY DEF ConcludeCancel, IInv, Shape
  <1>3. OnItsOrder(s, Idle, q, g)
    BY <1>1, <1>2 DEF OnItsOrder
  <1>4. g.status = result
    BY RunFacts DEF Cancellation
  <1>5. Fits(run[s].command, result, q, g) /\ result \in Results
    BY <1>4 DEF Fits, Results
  <1> QED
    BY <1>1, <1>3, <1>5, ConcludeStep

(* What an execution of a cancellation that was requested knows of its     *)
(* order.                                                                  *)
LEMMA CancellingFacts ==
  ASSUME IInv, NEW s \in Sessions, NEW phase \in {"cancel", "created", "cancelling"},
         InPhase(s, phase), phase # "cancel" => For(s, "CANCEL_SHIPMENT")
  PROVE  /\ run[s] # Idle /\ run[s] \in Execution /\ run[s].command \in Commands
         /\ OrderOf(s) \in Orders /\ run[s].command.orderId = OrderOf(s)
         /\ run[s].command.operation = "CANCEL_SHIPMENT"
         /\ shipments[OrderOf(s)] \in Shipment /\ cancellations[OrderOf(s)] \in Cancellation
         /\ RowTrue(OrderOf(s), shipments[OrderOf(s)], cancellations[OrderOf(s)], requests)
         /\ cancellations[OrderOf(s)].status # "ABSENT"
         /\ cancellations[OrderOf(s)].sagaId = run[s].command.sagaId
         /\ shipments[OrderOf(s)].status # "ABSENT"
              => shipments[OrderOf(s)].sagaId = run[s].command.sagaId
         /\ \/ run[s].cancellation = cancellations[OrderOf(s)]
            \/ run[s].cancellation = NoCancellation /\ cancellations[OrderOf(s)].status = "PENDING"
         /\ phase = "cancel" => run[s].shipment = shipments[OrderOf(s)] /\ run[s].result = None
         /\ phase # "cancel" => cancellations[OrderOf(s)].status = "PENDING"
         /\ phase = "created" =>
              /\ run[s].shipment.status = "PENDING" /\ run[s].result # None
              /\ run[s].result = shipments[OrderOf(s)].createResult
              /\ shipments[OrderOf(s)].status = CreateStatus(run[s].result)
  <1>1. run[s].phase = phase /\ run[s] # Idle
    BY Working DEF InPhase
  <1>2. run[s].command.operation = "CANCEL_SHIPMENT"
    BY <1>1, RunFacts DEF ExecutionTrue, For
  <1> QED
    BY <1>1, <1>2, RunFacts DEF ExecutionTrue, OrderOf

LEMMA ReplayCancelStep ==
  ASSUME IInv, NEW s \in Sessions, ReplayCancel(s)
  PROVE  IInv'
  <1> DEFINE p == shipments[OrderOf(s)]
             f == cancellations[OrderOf(s)]
  <1>1. InPhase(s, "cancel") /\ Settled(s) /\ ConcludeCancel(s, run[s].cancellation.status)
    BY DEF ReplayCancel
  <1>2. /\ run[s].cancellation = f /\ f.status \in {"CANCELLED", "NOOP"}
    BY <1>1, CancellingFacts DEF Settled, NoCancellation
  <1>3. [f EXCEPT !.status = f.status] = f
    BY <1>1, CancellingFacts DEF Cancellation
  <1>4. p.createResult = "CREATED" => [p EXCEPT !.status = "CANCELLED"] = p
    <2>1. /\ p \in Shipment /\ RowTrue(OrderOf(s), p, f, requests)
          /\ "CREATED" \notin Refusals /\ "CREATED" # None
      BY <1>1, CancellingFacts DEF Refusals, None
    <2>2. p.createResult = "CREATED" => p.status = "CANCELLED"
      BY <2>1, <1>2 DEF RowTrue
    <2> QED
      BY <2>1, <2>2 DEF Shipment
  <1>5. RowsMove(s, p, f)
    BY <1>1, CancellingFacts, RowGrowsItself DEF RowsMove
  <1>6. p = IF run[s].shipment.status # "ABSENT" /\ p.createResult = "CREATED"
            THEN [p EXCEPT !.status = "CANCELLED"] ELSE p
    BY <1>4
  <1> HIDE DEF p, f
  <1>7. /\ run[s] # Idle /\ run[s].command.operation = "CANCEL_SHIPMENT"
        /\ ConcludeCancel(s, f.status) /\ f.sagaId = run[s].command.sagaId
        /\ p.status # "ABSENT" => p.sagaId = run[s].command.sagaId
    BY <1>1, <1>2, CancellingFacts DEF p, f
  <1> QED
    BY <1>2, <1>3, <1>5, <1>6, <1>7, ConcludeCancelStep DEF p, f

LEMMA ResolveCreateStep ==
  ASSUME IInv, NEW s \in Sessions, ResolveCreate(s)
  PROVE  IInv'
  <1> DEFINE o == OrderOf(s)
             p == shipments[o]
             f == cancellations[o]
             e == [run[s] EXCEPT !.phase = "creating"]
             x == CreateCall(o, p)
  <1>1. /\ InPhase(s, "cancel") /\ ~Settled(s) /\ run[s].shipment.status = "PENDING"
        /\ run' = [run EXCEPT ![s].phase = "creating"]
        /\ calls' = calls \cup {CreateCall(o, run[s].shipment)}
        /\ UNCHANGED <<service, provider, answers>>
    BY DEF ResolveCreate, CallCreate
  <1>2. /\ run[s] # Idle /\ run[s] \in Execution /\ run[s].command \in Commands /\ o \in Orders
        /\ run[s].command.orderId = o /\ run[s].command.operation = "CANCEL_SHIPMENT"
        /\ p \in Shipment /\ f \in Cancellation /\ RowTrue(o, p, f, requests)
        /\ f.status # "ABSENT" /\ f.sagaId = run[s].command.sagaId
        /\ p.status # "ABSENT" => p.sagaId = run[s].command.sagaId
        /\ run[s].cancellation = f \/ (run[s].cancellation = NoCancellation /\ f.status = "PENDING")
        /\ run[s].shipment = p /\ run[s].result = None
    BY <1>1, CancellingFacts
  <1>3. p.status = "PENDING" /\ f.status = "PENDING"
    BY <1>1, <1>2 DEF Settled, Cancellation
  <1>4. /\ run' = [run EXCEPT ![s] = e] /\ calls' = calls \cup {x}
    BY <1>1, <1>2
  <1>5. /\ e \in Execution /\ e.phase = "creating" /\ e.command = run[s].command
        /\ e.result = None /\ e.shipment = p /\ e.cancellation = run[s].cancellation
    BY <1>2 DEF Execution
  <1> HIDE DEF e
  <1>6. x \in Call /\ x.orderId = o /\ CallTrue(x, p, f)
    <2>1. p.sagaId \in Sagas /\ p.content \in Contents
      <3>1. SagaOf(o, p.sagaId) /\ p.content \in Contents
        BY <1>2, <1>3 DEF RowTrue, Shipment
      <3> QED
        BY <3>1 DEF SagaOf, Sagas
    <2> QED
      BY <2>1, <1>2, <1>3 DEF CreateCall, Call, CallTrue, Operations
  <1>7. OnItsOrder(s, e, p, f) /\ RowsMove(s, p, f)
    BY <1>1, <1>2, <1>4, KeepRows DEF service
  <1>8. ExecutionTrue(e, p, f, calls')
    BY <1>2, <1>3, <1>4, <1>5 DEF ExecutionTrue
  <1>9. CallsGrow(s, p, f) /\ Goes(s, e, p, f) /\ Receipts(s, e, p, f) /\ AnswersGrow(s, p, f)
    BY <1>1, <1>4, <1>5, <1>6, <1>8
       DEF service, CallsGrow, Goes, Receipts, AnswersGrow, IInv, Shape
  <1> QED
    BY <1>2, <1>7, <1>9, ServiceStep

(* What a cancellation has found out when it decides whether there is a    *)
(* parcel to cancel.                                                       *)
LEMMA ReadyFacts ==
  ASSUME IInv, NEW s \in Sessions, ReadyToCancel(s)
  PROVE  /\ cancellations[OrderOf(s)].status = "PENDING"
         /\ NothingToCancel(s)
              => shipments[OrderOf(s)].status \in {"ABSENT", "FAILED"}
         /\ ~NothingToCancel(s) =>
              /\ shipments[OrderOf(s)].createResult = "CREATED"
              /\ run[s].shipment.status # "ABSENT"
         /\ \E phase \in {"cancel", "created"} :
              InPhase(s, phase) /\ (phase = "created" => For(s, "CANCEL_SHIPMENT"))
  <1> DEFINE p == shipments[OrderOf(s)]
             f == cancellations[OrderOf(s)]
  <1>1. CASE InPhase(s, "cancel") /\ ~Settled(s) /\ run[s].shipment.status # "PENDING"
    <2>1. /\ run[s].shipment = p /\ run[s].result = None /\ p.status # "PENDING"
          /\ f \in Cancellation /\ f.status # "ABSENT" /\ p \in Shipment
          /\ \/ run[s].cancellation = f
             \/ run[s].cancellation = NoCancellation /\ f.status = "PENDING"
          /\ RowTrue(OrderOf(s), p, f, requests)
      BY <1>1, CancellingFacts
    <2>2. f.status = "PENDING"
      BY <2>1, <1>1 DEF Settled, Cancellation
    <2>3. None \notin Refusals
      BY DEF None, Refusals
    <2>4. p.status # "CANCELLED"
      BY <2>1, <2>2 DEF RowTrue
    <2>5. NothingToCancel(s) <=> p.status \in {"ABSENT", "FAILED"}
      BY <2>1, <2>3 DEF NothingToCancel
    <2>6. p.status = "CREATED" => p.createResult = "CREATED"
      BY <2>1 DEF RowTrue, Shipment
    <2>7. p.status \in {"ABSENT", "PENDING", "CREATED", "CANCELLED", "FAILED"}
      BY <2>1 DEF Shipment
    <2> QED
      BY <2>1, <2>2, <2>4, <2>5, <2>6, <2>7, <1>1
  <1>2. CASE InPhase(s, "created") /\ For(s, "CANCEL_SHIPMENT")
    <2>1. /\ f.status = "PENDING" /\ run[s].shipment.status = "PENDING" /\ run[s].result # None
          /\ run[s].result = p.createResult /\ p.status = CreateStatus(run[s].result)
          /\ p \in Shipment
      BY <1>2, CancellingFacts
    <2>2. p.createResult \in {"CREATED"} \cup Refusals /\ "CREATED" \notin Refusals
      BY <2>1 DEF Shipment, Refusals
    <2>3. NothingToCancel(s) <=> p.createResult \in Refusals
      BY <2>1 DEF NothingToCancel
    <2>4. p.createResult \in Refusals => p.status = "FAILED"
      BY <2>1, <2>2 DEF CreateStatus
    <2> QED
      BY <2>1, <2>2, <2>3, <2>4, <1>2
  <1> QED
    BY <1>1, <1>2 DEF ReadyToCancel

LEMMA SkipCancelStep ==
  ASSUME IInv, NEW s \in Sessions, SkipCancel(s)
  PROVE  IInv'
  <1> DEFINE p == shipments[OrderOf(s)]
             f == cancellations[OrderOf(s)]
             g == [f EXCEPT !.status = "NOOP"]
  <1>1. ReadyToCancel(s) /\ NothingToCancel(s) /\ ConcludeCancel(s, "NOOP")
    BY DEF SkipCancel
  <1>2. f.status = "PENDING" /\ p.status \in {"ABSENT", "FAILED"}
    BY <1>1, ReadyFacts
  <1>3. PICK phase \in {"cancel", "created"} :
          InPhase(s, phase) /\ (phase = "created" => For(s, "CANCEL_SHIPMENT"))
    BY <1>1, ReadyFacts
  <1>4. /\ run[s] # Idle /\ run[s].command.operation = "CANCEL_SHIPMENT"
        /\ p \in Shipment /\ f \in Cancellation /\ RowTrue(OrderOf(s), p, f, requests)
        /\ f.sagaId = run[s].command.sagaId
        /\ p.status # "ABSENT" => p.sagaId = run[s].command.sagaId
    BY <1>3, CancellingFacts
  <1>5. g \in Cancellation /\ g.status = "NOOP" /\ g.sagaId = f.sagaId /\ g.linked = f.linked
    BY <1>4 DEF Cancellation
  <1> HIDE DEF g
  <1>6. RowsMove(s, p, g)
    <2>1. RowTrue(OrderOf(s), p, g, requests)
      BY <1>2, <1>4, <1>5 DEF RowTrue
    <2>2. RowGrows(p, f, p, g)
      BY <1>2, <1>5 DEF RowGrows
    <2> QED
      BY <2>1, <2>2 DEF RowsMove
  <1>7. p = IF run[s].shipment.status # "ABSENT" /\ p.createResult = "CREATED"
            THEN [p EXCEPT !.status = "CANCELLED"] ELSE p
    <2>1. p.createResult # "CREATED"
      BY <1>2, <1>4 DEF RowTrue, Refusals, None
    <2> QED
      BY <2>1
  <1>8. g = [f EXCEPT !.status = "NOOP"]
    BY DEF g
  <1> HIDE DEF p, f
  <1> QED
    BY <1>1, <1>4, <1>5, <1>6, <1>7, <1>8, ConcludeCancelStep DEF p, f

LEMMA StartCancelStep ==
  ASSUME IInv, NEW s \in Sessions, StartCancel(s)
  PROVE  IInv'
  <1> DEFINE c == run[s].command
             o == OrderOf(s)
             p == shipments[o]
             f == cancellations[o]
             e == [run[s] EXCEPT !.phase = "cancelling"]
             x == CancelCall(c)
  <1>1. /\ ReadyToCancel(s) /\ ~NothingToCancel(s)
        /\ run' = [run EXCEPT ![s].phase = "cancelling"] /\ calls' = calls \cup {x}
        /\ UNCHANGED <<service, provider, answers>>
    BY DEF StartCancel
  <1>2. f.status = "PENDING" /\ p.createResult = "CREATED" /\ run[s].shipment.status # "ABSENT"
    BY <1>1, ReadyFacts
  <1>3. PICK phase \in {"cancel", "created"} :
          InPhase(s, phase) /\ (phase = "created" => For(s, "CANCEL_SHIPMENT"))
    BY <1>1, ReadyFacts
  <1>4. /\ run[s] # Idle /\ run[s] \in Execution /\ c \in Commands
        /\ o \in Orders /\ c.orderId = o /\ c.operation = "CANCEL_SHIPMENT"
        /\ f.sagaId = c.sagaId
        /\ p.status # "ABSENT" => p.sagaId = c.sagaId
        /\ run[s].cancellation = f \/ run[s].cancellation = NoCancellation
    BY <1>3, CancellingFacts
  <1>5. run' = [run EXCEPT ![s] = e]
    BY <1>1
  <1>6. /\ e \in Execution /\ e.phase = "cancelling" /\ e.command = c
        /\ e.cancellation = run[s].cancellation /\ e.shipment = run[s].shipment
    BY <1>4 DEF Execution
  <1> HIDE DEF e
  <1>7. x \in Call /\ x.orderId = o /\ CallTrue(x, p, f)
    <2>1. c.sagaId \in Sagas /\ None \in Contents
      BY <1>4, CommandFacts DEF Contents
    <2> QED
      BY <2>1, <1>2, <1>4 DEF CancelCall, CancelOf, Call, CallTrue, Operations
  <1>8. OnItsOrder(s, e, p, f) /\ RowsMove(s, p, f)
    BY <1>1, <1>4, <1>5, KeepRows DEF service
  <1>9. ExecutionTrue(e, p, f, calls')
    BY <1>1, <1>2, <1>4, <1>6 DEF ExecutionTrue
  <1>10. CallsGrow(s, p, f) /\ Goes(s, e, p, f) /\ Receipts(s, e, p, f) /\ AnswersGrow(s, p, f)
    BY <1>1, <1>6, <1>7, <1>9
       DEF service, CallsGrow, Goes, Receipts, AnswersGrow, IInv, Shape
  <1> QED
    BY <1>4, <1>8, <1>10, ServiceStep

(* The provider has the parcel, so its answer can only be that it cancelled *)
(* it.                                                                      *)
LEMMA CancelAnsweredStep ==
  ASSUME IInv, NEW s \in Sessions, CancelAnswered(s)
  PROVE  IInv'
  <1> DEFINE c == run[s].command
             o == OrderOf(s)
             p == shipments[o]
             f == cancellations[o]
             x == CancelCall(c)
             q == [p EXCEPT !.status = "CANCELLED"]
             g == [f EXCEPT !.status = "CANCELLED"]
  <1>1. PICK result \in Results :
          /\ InPhase(s, "cancelling")
          /\ ProviderAnswer(x, result)
          /\ IF result \in Refusals THEN LeaveOpen(s, result) ELSE ConcludeCancel(s, result)
    BY DEF CancelAnswered
  <1>2. run[s] # Idle /\ run[s].phase = "cancelling"
    BY <1>1, Working DEF InPhase
  <1>3. /\ run[s] # Idle /\ c \in Commands /\ o \in Orders /\ c.orderId = o
        /\ p \in Shipment /\ f \in Cancellation /\ RowTrue(o, p, f, requests)
        /\ ParcelTrue(o, parcels[o], p, f, requests)
    BY <1>2, RunFacts DEF OrderOf
  <1>4. /\ c.operation = "CANCEL_SHIPMENT" /\ p.createResult = "CREATED"
        /\ f.status = "PENDING" /\ x \in calls /\ run[s].shipment.status # "ABSENT"
        /\ p.status # "ABSENT" => p.sagaId = c.sagaId
        /\ f.sagaId = c.sagaId
    BY <1>2, RunFacts DEF ExecutionTrue, Execution
  <1>5. Served(requests, x, result) /\ x = CancelOf(o, f)
    BY <1>1, <1>3, <1>4, AnswerIsServed DEF CancelCall, CancelOf
  <1>6. parcels[o].status \in {"CREATED", "CANCELLED"}
    <2>1. Served(requests, CreateCall(o, p), "CREATED")
      BY <1>3, <1>4 DEF RowTrue, None
    <2>2. /\ [call |-> CreateCall(o, p), result |-> "CREATED"].call.orderId = o
          /\ [call |-> CreateCall(o, p), result |-> "CREATED"].call.operation = "CREATE_SHIPMENT"
          /\ [call |-> CreateCall(o, p), result |-> "CREATED"].result = "CREATED"
      BY DEF CreateCall
    <2> QED
      BY <1>3, <2>1, <2>2 DEF ParcelTrue, Served
  <1>7. result = "CANCELLED"
    <2>1. /\ [call |-> x, result |-> result].call.orderId = o
          /\ [call |-> x, result |-> result].call.operation = "CANCEL_SHIPMENT"
          /\ [call |-> x, result |-> result].result = result
      BY <1>3 DEF CancelCall
    <2> QED
      BY <1>3, <1>5, <1>6, <2>1 DEF ParcelTrue, Served
  <1>8. ConcludeCancel(s, "CANCELLED")
    BY <1>1, <1>7 DEF Refusals
  <1>9. /\ q \in Shipment /\ q.status = "CANCELLED" /\ q.sagaId = p.sagaId
        /\ q.content = p.content /\ q.createResult = p.createResult
        /\ g \in Cancellation /\ g.status = "CANCELLED" /\ g.sagaId = f.sagaId
        /\ g.linked = f.linked
    BY <1>3 DEF Shipment, Cancellation
  <1>10. q = (IF run[s].shipment.status # "ABSENT" /\ p.createResult = "CREATED"
              THEN [p EXCEPT !.status = "CANCELLED"] ELSE p)
         /\ g = [f EXCEPT !.status = "CANCELLED"]
    BY <1>4
  <1>11. p.status # "ABSENT"
    BY <1>3, <1>4 DEF RowTrue, None
  <1>12. CreateCall(o, q) = CreateCall(o, p) /\ CancelOf(o, g) = x
    BY <1>5, <1>9 DEF CreateCall, CancelOf
  <1> HIDE DEF q, g
  <1>13. RowsMove(s, q, g)
    <2>1. RowTrue(o, q, g, requests)
      BY <1>3, <1>4, <1>5, <1>7, <1>9, <1>11, <1>12 DEF RowTrue, Refusals, None
    <2>2. RowGrows(p, f, q, g)
      BY <1>4, <1>9, <1>11 DEF RowGrows
    <2> QED
      BY <2>1, <2>2 DEF RowsMove
  <1> HIDE DEF p, f
  <1>14. /\ g.sagaId = c.sagaId
         /\ q.status # "ABSENT" => q.sagaId = c.sagaId
    BY <1>4, <1>9, <1>11
  <1> QED
    BY <1>3, <1>4, <1>8, <1>10, <1>13, <1>14, ConcludeCancelStep DEF p, f

LEMMA CancelTurnedDownStep ==
  ASSUME IInv, NEW s \in Sessions, CancelTurnedDown(s)
  PROVE  IInv'
  <1> DEFINE c == run[s].command
             p == shipments[OrderOf(s)]
             f == cancellations[OrderOf(s)]
             a == [command |-> c, result |-> TurnedDown]
  <1>1. InPhase(s, "cancelling")
    BY DEF CancelTurnedDown
  <1>2. run[s] # Idle /\ c \in Commands /\ c.operation = "CANCEL_SHIPMENT"
    BY <1>1, Working, RunFacts DEF InPhase, ExecutionTrue
  <1>3. a \in Answer /\ a.command = c /\ AnswerTrue(a, receipts', p, f)
    BY <1>2 DEF Answer, AnswerTrue
  <1>4. /\ run' = [run EXCEPT ![s] = Idle] /\ answers' = answers \cup {a}
        /\ UNCHANGED <<shipments, cancellations, provider>> /\ calls' = calls /\ receipts' = receipts
    BY DEF CancelTurnedDown, LeaveOpen, Respond, service
  <1>5. OnItsOrder(s, Idle, p, f) /\ RowsMove(s, p, f)
    BY <1>2, <1>4, KeepRows
  <1>6. CallsGrow(s, p, f) /\ Goes(s, Idle, p, f) /\ Receipts(s, Idle, p, f)
        /\ AnswersGrow(s, p, f)
    BY <1>3, <1>4 DEF CallsGrow, Goes, Receipts, AnswersGrow, IInv, Shape
  <1> QED
    BY <1>2, <1>5, <1>6, ServiceStep

-----------------------------------------------------------------------------
(* The provider.                                                           *)

(* A call that it has not executed, and the parcel and rows of its order.  *)
LEMMA CallFacts ==
  ASSUME IInv, NEW x \in calls, \A r \in requests : ~SameKey(r.call, x)
  PROVE  /\ x \in Call /\ x.orderId \in Orders
         /\ CallTrue(x, shipments[x.orderId], cancellations[x.orderId])
         /\ RowTrue(x.orderId, shipments[x.orderId], cancellations[x.orderId], requests)
         /\ ParcelTrue(x.orderId, parcels[x.orderId], shipments[x.orderId],
                        cancellations[x.orderId], requests)
         /\ parcels[x.orderId] \in Parcel
         /\ \A result : ~Served(requests, x, result)
         /\ \A r \in requests : r.call.orderId = x.orderId => r.call.operation # x.operation
         /\ Owns(x, parcels[x.orderId])
  <1> DEFINE o == x.orderId
             p == shipments[o]
             f == cancellations[o]
             a == parcels[o]
  <1>1. x \in Call /\ o \in Orders
    BY DEF IInv, Shape, Call
  <1>2. /\ CallTrue(x, p, f) /\ RowTrue(o, p, f, requests) /\ ParcelTrue(o, a, p, f, requests)
    BY <1>1 DEF IInv, CallsOK, RowsOK, ProviderOK
  <1>3. \A result : ~Served(requests, x, result)
    <2> SUFFICES ASSUME NEW result, Served(requests, x, result) PROVE FALSE
      OBVIOUS
    <2>1. [call |-> x, result |-> result].call = x
      OBVIOUS
    <2> QED
      BY <2>1 DEF Served, SameKey
  <1>4. ASSUME NEW r \in requests, r.call.orderId = o, r.call.operation = x.operation
        PROVE  FALSE
    <2>1. r.call \in calls
      BY DEF IInv, ProviderOK
    <2>2. CallTrue(r.call, p, f)
      BY <2>1, <1>4 DEF IInv, CallsOK
    <2>3. r.call.sagaId = x.sagaId
      BY <2>2, <1>2, <1>4 DEF CallTrue, CreateCall, CancelOf
    <2> QED
      BY <2>3, <1>4 DEF SameKey
  <1>5. Owns(x, a)
    <2>1. a.status \in {"ABSENT", "CREATED", "CANCELLED", "NOOP"}
      BY <1>2 DEF ParcelTrue, Parcel
    <2>2. \/ p.status # "ABSENT" /\ x.sagaId = p.sagaId
          \/ f.status # "ABSENT" /\ x.sagaId = f.sagaId
      BY <1>2 DEF CallTrue, CreateCall, CancelOf
    <2> QED
      BY <1>2, <2>1, <2>2 DEF Owns, ParcelTrue, RowTrue
  <1> QED
    BY <1>1, <1>2, <1>3, <1>4, <1>5 DEF ParcelTrue

(* What is to be shown of an executed call: the parcel and its order.      *)
LEMMA ExecutesStep ==
  ASSUME IInv, NEW x \in calls, NEW result \in Results, NEW a \in Parcel,
         Executes(x, result, a),
         ParcelTrue(x.orderId, a, shipments[x.orderId], cancellations[x.orderId],
                     requests \cup {[call |-> x, result |-> result]})
  PROVE  IInv'
  <1> DEFINE r == [call |-> x, result |-> result]
             o == x.orderId
  <1>1. /\ requests' = requests \cup {r} /\ parcels' = [parcels EXCEPT ![o] = a]
        /\ shipments' = shipments /\ cancellations' = cancellations /\ receipts' = receipts
        /\ run' = run /\ calls' = calls /\ answers' = answers
        /\ \A q \in requests : ~SameKey(q.call, x)
    BY DEF Executes, service
  <1>2. /\ x \in Call /\ o \in Orders /\ \A d : ~Served(requests, x, d)
    BY <1>1, CallFacts
  <1>3. r.call = x /\ r.result = result /\ r \in [call : Call, result : Results]
    BY <1>2
  <1>4. \A y, d : Served(requests, y, d) => Served(requests', y, d)
    BY <1>1 DEF Served
  <1>5. \A q \in requests : q.call # x
    BY <1>1 DEF SameKey
  <1>6. /\ parcels'[o] = a /\ parcels' \in [Orders -> Parcel]
        /\ \A y \in Orders \ {o} : parcels'[y] = parcels[y]
    BY <1>1, <1>2 DEF IInv, Shape
  <1> HIDE DEF r
  <1>7. Shape'
    BY <1>1, <1>3, <1>6 DEF IInv, Shape
  <1>8. RowsOK'
    BY <1>1, <1>4 DEF IInv, RowsOK, RowTrue
  <1>9. ProviderOK'
    <2>1. /\ \A q \in requests' : q.call \in calls'
          /\ \A q, n \in requests' : q.call = n.call => q = n
      BY <1>1, <1>3, <1>5 DEF IInv, ProviderOK
    <2>2. ASSUME NEW y \in Orders
          PROVE  ParcelTrue(y, parcels'[y], shipments'[y], cancellations'[y], requests')
      <3>1. CASE y = o
        BY <3>1, <1>1, <1>6 DEF r
      <3>2. CASE y # o
        <4>1. ParcelTrue(y, parcels[y], shipments[y], cancellations[y], requests)
          BY DEF IInv, ProviderOK
        <4>2. \A q \in requests' : q.call.orderId = y => q \in requests
          BY <3>2, <1>1, <1>3
        <4>3. ParcelTrue(y, parcels[y], shipments[y], cancellations[y], requests')
          BY <4>1, <4>2, <1>4 DEF ParcelTrue
        <4> QED
          BY <4>3, <3>2, <1>1, <1>6
      <3> QED
        BY <3>1, <3>2
    <2> QED
      BY <2>1, <2>2 DEF ProviderOK
  <1> QED
    BY <1>1, <1>7, <1>8, <1>9
       DEF IInv, CallsOK, LockOK, ExecutionsOK, ReceiptsOK, AnswersOK, OrderOf

LEMMA ProviderRefuseStep ==
  ASSUME IInv, NEW x \in calls, ProviderRefuse(x)
  PROVE  IInv'
  <1> DEFINE o == x.orderId
             p == shipments[o]
             f == cancellations[o]
             a == parcels[o]
  <1>1. PICK result \in Refused(x, a) : Executes(x, result, a)
    BY DEF ProviderRefuse
  <1>2. \A r \in requests : ~SameKey(r.call, x)
    BY <1>1 DEF Executes
  <1>3. x.operation = "CREATE_SHIPMENT" /\ x = CreateCall(o, p)
    BY <1>1, <1>2, CallFacts DEF Refused, CallTrue, CancelOf, CreateCall
  <1>4. /\ a \in Parcel /\ ParcelTrue(o, a, p, f, requests)
        /\ \A d : ~Served(requests, x, d) /\ Owns(x, a)
    BY <1>2, CallFacts
  <1>5. a.status \in {"ABSENT", "NOOP"}
    BY <1>3, <1>4 DEF ParcelTrue, Parcel
  <1>6. result \in {"ALREADY_COMPENSATED", "SHIPPING_REJECTED"}
    BY <1>1, <1>3, <1>4, <1>5 DEF Refused
  <1> DEFINE r == [call |-> x, result |-> result]
  <1>7. r.call.operation = "CREATE_SHIPMENT" /\ r.result = result
    BY <1>3
  <1> HIDE DEF r
  <1>8. ParcelTrue(o, a, p, f, requests \cup {r})
    BY <1>4, <1>5, <1>6, <1>7 DEF ParcelTrue, Served
  <1> QED
    BY <1>1, <1>4, <1>6, <1>8, ExecutesStep DEF r, Results, Refusals

LEMMA ProviderCreateStep ==
  ASSUME IInv, NEW x \in calls, ProviderCreate(x)
  PROVE  /\ IInv'
         /\ parcels[x.orderId].status = "ABSENT"
         /\ x = CreateCall(x.orderId, shipments[x.orderId])
         /\ shipments[x.orderId].status # "ABSENT"
  <1> DEFINE o == x.orderId
             p == shipments[o]
             f == cancellations[o]
             a == parcels[o]
             new == [status |-> "CREATED", sagaId |-> x.sagaId, content |-> x.content]
             r == [call |-> x, result |-> "CREATED"]
  <1>1. x.operation = "CREATE_SHIPMENT" /\ Refused(x, a) = {"SHIPPING_REJECTED"}
        /\ Executes(x, "CREATED", new)
    BY DEF ProviderCreate
  <1>2. \A q \in requests : ~SameKey(q.call, x)
    BY <1>1 DEF Executes
  <1>3. /\ a \in Parcel /\ ParcelTrue(o, a, p, f, requests) /\ Owns(x, a) /\ x \in Call
        /\ \A d : ~Served(requests, x, d)
        /\ \A q \in requests : q.call.orderId = o => q.call.operation # "CREATE_SHIPMENT"
    BY <1>1, <1>2, CallFacts
  <1>4. x = CreateCall(o, p) /\ p.status # "ABSENT"
    BY <1>1, <1>2, CallFacts DEF CallTrue, CancelOf
  <1>5. a.status = "ABSENT"
    <2>1. a.status \notin {"CANCELLED", "NOOP"}
      <3>1. SUFFICES ASSUME a.status \in {"CANCELLED", "NOOP"} PROVE FALSE
        OBVIOUS
      <3>2. Refused(x, a) = {"ALREADY_COMPENSATED"}
        BY <1>1, <1>3, <3>1 DEF Refused
      <3> QED
        BY <1>1, <3>2
    <2> QED
      BY <2>1, <1>3, <1>4 DEF ParcelTrue, Parcel
  <1>6. /\ new \in Parcel /\ new.status = "CREATED"
        /\ new.sagaId = p.sagaId /\ new.content = p.content
    BY <1>3, <1>4 DEF Parcel, Call, CreateCall
  <1>7. r.call = x /\ r.result = "CREATED"
    OBVIOUS
  <1> HIDE DEF new, r
  <1>8. Served(requests \cup {r}, CreateCall(o, p), "CREATED")
    BY <1>4 DEF Served, r
  <1>9. ParcelTrue(o, new, p, f, requests \cup {r})
    BY <1>1, <1>3, <1>4, <1>5, <1>6, <1>7, <1>8 DEF ParcelTrue
  <1>10. IInv'
    BY <1>1, <1>6, <1>9, ExecutesStep DEF Results, new, r
  <1> QED
    BY <1>4, <1>5, <1>10

LEMMA ProviderCancelStep ==
  ASSUME IInv, NEW x \in calls, ProviderCancel(x)
  PROVE  /\ IInv'
         /\ parcels[x.orderId].status \in {"ABSENT", "CREATED"}
         /\ parcels'[x.orderId].status
              = IF parcels[x.orderId].status = "CREATED" THEN "CANCELLED" ELSE "NOOP"
  <1> DEFINE o == x.orderId
             p == shipments[o]
             f == cancellations[o]
             a == parcels[o]
             status == IF a.status \in {"ABSENT", "NOOP"} THEN "NOOP" ELSE "CANCELLED"
             result == IF a.status = "CREATED" THEN "CANCELLED" ELSE "NOOP"
             new == [a EXCEPT !.status = status, !.sagaId = x.sagaId]
             r == [call |-> x, result |-> result]
  <1>1. x.operation = "CANCEL_SHIPMENT" /\ Executes(x, result, new)
    BY DEF ProviderCancel
  <1>2. \A q \in requests : ~SameKey(q.call, x)
    BY <1>1 DEF Executes
  <1>3. /\ a \in Parcel /\ ParcelTrue(o, a, p, f, requests) /\ x \in Call /\ o \in Orders
        /\ RowTrue(o, p, f, requests) /\ \A d : ~Served(requests, x, d)
        /\ \A q \in requests : q.call.orderId = o => q.call.operation # "CANCEL_SHIPMENT"
    BY <1>1, <1>2, CallFacts
  <1>4. x = CancelOf(o, f) /\ f.status # "ABSENT" /\ x.sagaId = f.sagaId
    BY <1>1, <1>2, CallFacts DEF CallTrue, CreateCall, CancelOf
  <1>5. a.status \in {"ABSENT", "CREATED"}
    BY <1>3, <1>4 DEF ParcelTrue, Parcel
  <1>6. /\ new \in Parcel /\ new.sagaId = f.sagaId /\ new.content = a.content
        /\ new.status = IF a.status = "CREATED" THEN "CANCELLED" ELSE "NOOP"
        /\ new.status = result
    BY <1>3, <1>4, <1>5 DEF Parcel, Call
  <1>7. r.call = x /\ r.result = result
    OBVIOUS
  <1>8. result \in {"CANCELLED", "NOOP"} /\ (result = "CANCELLED" <=> a.status = "CREATED")
    OBVIOUS
  <1> HIDE DEF new, r, result, status
  <1>9. Served(requests \cup {r}, CancelOf(o, f), result)
    BY <1>4 DEF Served, r
  <1>10. ParcelTrue(o, new, p, f, requests \cup {r})
    <2>1. ASSUME new.status \in {"CREATED", "CANCELLED"}
          PROVE  /\ Served(requests \cup {r}, CreateCall(o, p), "CREATED")
                 /\ new.sagaId = p.sagaId /\ new.content = p.content /\ p.status # "ABSENT"
      <3>1. a.status = "CREATED"
        BY <2>1, <1>5, <1>6
      <3> QED
        BY <3>1, <1>3, <1>4, <1>6 DEF ParcelTrue, Served, RowTrue
    <2>2. ASSUME NEW q \in requests \cup {r}, q.call.orderId = o
          PROVE  IF q.call.operation = "CREATE_SHIPMENT"
                 THEN /\ q.result \in {"CREATED", "SHIPPING_REJECTED", "ALREADY_COMPENSATED"}
                      /\ q.result = "CREATED" <=> new.status \in {"CREATED", "CANCELLED"}
                 ELSE q.result \in {"CANCELLED", "NOOP"} /\ new.status = q.result
      <3>1. CASE q = r
        BY <3>1, <1>1, <1>6, <1>7, <1>8
      <3>2. CASE q \in requests
        <4>1. q.call.operation # "CANCEL_SHIPMENT" /\ q.call.operation \in Operations
          BY <3>2, <2>2, <1>3 DEF IInv, Shape, Call
        <4>2. q.call.operation = "CREATE_SHIPMENT"
          BY <4>1 DEF Operations
        <4>3. /\ q.result \in {"CREATED", "SHIPPING_REJECTED", "ALREADY_COMPENSATED"}
              /\ q.result = "CREATED" <=> a.status \in {"CREATED", "CANCELLED"}
          BY <4>2, <3>2, <2>2, <1>3 DEF ParcelTrue
        <4> QED
          BY <4>2, <4>3, <1>5, <1>6
      <3> QED
        BY <3>1, <3>2
    <2>3. new.status \in {"CANCELLED", "NOOP"}
      BY <1>6, <1>8
    <2> QED
      BY <2>1, <2>2, <2>3, <1>4, <1>6, <1>9 DEF ParcelTrue
  <1>11. IInv'
    BY <1>1, <1>6, <1>8, <1>10, ExecutesStep DEF Results, r
  <1>12. parcels'[o] = new
    BY <1>1, <1>3 DEF Executes, IInv, Shape
  <1> QED
    BY <1>5, <1>6, <1>11, <1>12

-----------------------------------------------------------------------------
(* The invariant.                                                          *)

LEMMA InitInv == Init => IInv
  <1> SUFFICES ASSUME Init PROVE IInv
    OBVIOUS
  <1>1. NoShipment \in Shipment /\ NoCancellation \in Cancellation
    BY DEF NoShipment, NoCancellation, Shipment, Cancellation, Contents
  <1>2. NoParcel \in Parcel
    BY DEF NoParcel, Parcel, Contents
  <1>3. Shape
    BY <1>1, <1>2 DEF Init, Shape
  <1>4. RowsOK
    <2> SUFFICES ASSUME NEW o \in Orders
                 PROVE  RowTrue(o, NoShipment, NoCancellation, requests)
      BY DEF Init, RowsOK
    <2> QED
      BY <1>1 DEF RowTrue, NoShipment, NoCancellation, Refusals, None
  <1>5. ProviderOK
    <2>1. \A o \in Orders : ParcelTrue(o, NoParcel, NoShipment, NoCancellation, {})
      BY <1>2 DEF ParcelTrue, NoParcel
    <2> QED
      BY <2>1 DEF Init, ProviderOK
  <1> QED
    BY <1>3, <1>4, <1>5 DEF Init, IInv, CallsOK, LockOK, ExecutionsOK, ReceiptsOK, AnswersOK

LEMMA NextInv == IInv /\ [Next]_vars => IInv'
  <1> SUFFICES ASSUME IInv, [Next]_vars PROVE IInv'
    OBVIOUS
  <1>1. ASSUME NEW s \in Sessions, NEW c \in Commands, Begin(s, c) \/ ReplayReceipt(s, c)
        PROVE  IInv'
    BY <1>1, BeginStep, ReplayReceiptStep
  <1>2. ASSUME NEW s \in Sessions,
               \/ RefuseConflict(s) \/ RefuseCreate(s) \/ ReplayCreate(s)
               \/ StartCreate(s) \/ CreateAnswered(s) \/ FinishCreate(s)
        PROVE  IInv'
    BY <1>2, RefuseConflictStep, RefuseCreateStep, ReplayCreateStep, StartCreateStep,
       CreateAnsweredStep, FinishCreateStep
  <1>3. ASSUME NEW s \in Sessions,
               \/ RequestCancel(s) \/ ReplayCancel(s) \/ ResolveCreate(s) \/ SkipCancel(s)
               \/ StartCancel(s) \/ CancelAnswered(s) \/ CancelTurnedDown(s) \/ Abandon(s)
        PROVE  IInv'
    BY <1>3, RequestCancelStep, ReplayCancelStep, ResolveCreateStep, SkipCancelStep,
       StartCancelStep, CancelAnsweredStep, CancelTurnedDownStep, AbandonStep
  <1>4. ASSUME NEW x \in calls, ProviderRefuse(x) \/ ProviderCreate(x) \/ ProviderCancel(x)
        PROVE  IInv'
    BY <1>4, ProviderRefuseStep, ProviderCreateStep, ProviderCancelStep
  <1>5. CASE UNCHANGED vars
    BY <1>5 DEF vars, IInv, Shape, RowsOK, CallsOK, ProviderOK, LockOK, ExecutionsOK, ReceiptsOK,
                AnswersOK, OrderOf
  <1> QED
    BY <1>1, <1>2, <1>3, <1>4, <1>5 DEF Next

(* Rows, calls, provider, executions, receipts and answers agree after      *)
(* every commit, whichever executions stopped.                              *)
THEOREM Invariance == Spec => []IInv
  <1> QED
    BY InitInv, NextInv, PTL DEF Spec

-----------------------------------------------------------------------------
(* The properties.                                                         *)

(* The provider has executed the creation of the row, and with one result.  *)
LEMMA CreatedFacts ==
  ASSUME IInv, NEW o \in Orders
  PROVE  /\ shipments[o].createResult = "CREATED"
              => parcels[o].status \in {"CREATED", "CANCELLED"}
         /\ parcels[o].status \in {"CREATED", "CANCELLED"}
              => /\ shipments[o].status \notin {"ABSENT", "FAILED"}
                 /\ shipments[o].createResult \notin Refusals
                 /\ parcels[o].content = shipments[o].content
         /\ cancellations[o].status = "CANCELLED" => parcels[o].status = "CANCELLED"
  <1> DEFINE p == shipments[o]
             f == cancellations[o]
             a == parcels[o]
  <1>1. RowTrue(o, p, f, requests) /\ ParcelTrue(o, a, p, f, requests)
    BY DEF IInv, RowsOK, ProviderOK
  <1>2. ASSUME p.createResult = "CREATED" PROVE a.status \in {"CREATED", "CANCELLED"}
    <2> DEFINE r == [call |-> CreateCall(o, p), result |-> "CREATED"]
    <2>1. r \in requests
      BY <1>1, <1>2 DEF RowTrue, Served, None
    <2>2. /\ r.call.orderId = o /\ r.call.operation = "CREATE_SHIPMENT" /\ r.result = "CREATED"
      BY DEF CreateCall
    <2> QED
      BY <1>1, <2>1, <2>2 DEF ParcelTrue
  <1>3. ASSUME a.status \in {"CREATED", "CANCELLED"}
        PROVE  /\ p.status \notin {"ABSENT", "FAILED"} /\ p.createResult \notin Refusals
               /\ a.content = p.content
    <2>1. Served(requests, CreateCall(o, p), "CREATED") /\ p.status # "ABSENT"
          /\ a.content = p.content
      BY <1>1, <1>3 DEF ParcelTrue
    <2>2. p.createResult # None => p.createResult = "CREATED"
      BY <1>1, <2>1, ServedOnce DEF RowTrue
    <2>3. "CREATED" \notin Refusals /\ None \notin Refusals
      BY DEF Refusals, None
    <2>4. p.status = "FAILED" <=> p.createResult \in Refusals
      BY <1>1 DEF RowTrue
    <2>5. p.createResult \notin Refusals
      BY <2>2, <2>3
    <2> QED
      BY <2>1, <2>4, <2>5
  <1>4. ASSUME f.status = "CANCELLED" PROVE a.status = "CANCELLED"
    <2> DEFINE r == [call |-> CancelOf(o, f), result |-> "CANCELLED"]
    <2>1. r \in requests
      BY <1>1, <1>4 DEF RowTrue, Served
    <2>2. /\ r.call.orderId = o /\ r.call.operation = "CANCEL_SHIPMENT" /\ r.result = "CANCELLED"
      BY DEF CancelOf
    <2> QED
      BY <1>1, <2>1, <2>2 DEF ParcelTrue
  <1> QED
    BY <1>2, <1>3, <1>4

(* The final answer of a command is in its receipt, unless its key belongs  *)
(* to another command.                                                      *)
LEMMA FinalAnswers ==
  ASSUME IInv, NEW a \in answers, Final(a)
  PROVE  /\ a.command \in Commands /\ a.result # None
         /\ \/ [command |-> a.command, result |-> a.result] \in receipts
            \/ /\ a.result = "IDEMPOTENCY_CONFLICT"
               /\ \E r \in receipts : /\ r.command.idempotencyKey = a.command.idempotencyKey
                                     /\ r.command # a.command
  <1>1. AnswerTrue(a, receipts, shipments[a.command.orderId], cancellations[a.command.orderId])
    BY DEF IInv, AnswersOK
  <1>2. a.command \in Commands /\ a.result # None
    BY <1>1 DEF AnswerTrue, Answer, Results, Refusals, TurnedDown, None
  <1> QED
    BY <1>1, <1>2 DEF AnswerTrue, Final, TurnedDown

(* A command that was answered for good is not executed again, after a lost *)
(* answer, a crash or under a key already used, nor answered otherwise; a   *)
(* cancellation that failed is in no receipt, and may be tried again.       *)
THEOREM FinalAnswersAgree == Spec => []OneFinalAnswer
  <1>1. ASSUME IInv, NEW a \in answers, NEW b \in answers, a.command = b.command,
               Final(a), Final(b)
        PROVE  a.result = b.result
    <2> DEFINE c == a.command
               Kept(result) == [command |-> c, result |-> result]
               Taken == \E r \in receipts : /\ r.command.idempotencyKey = c.idempotencyKey
                                            /\ r.command # c
    <2>1. ASSUME NEW result, Kept(result) \in receipts
          PROVE  ~Taken /\ \A other : Kept(other) \in receipts => other = result
      <3>1. \A r \in receipts : r.command.idempotencyKey = c.idempotencyKey => r = Kept(result)
        BY <1>1, <2>1 DEF IInv, ReceiptsOK
      <3>2. \A other : Kept(other).command = c /\ Kept(other).result = other
        OBVIOUS
      <3> QED
        BY <3>1, <3>2
    <2>2. Kept(a.result) \in receipts \/ (a.result = "IDEMPOTENCY_CONFLICT" /\ Taken)
      BY <1>1, FinalAnswers
    <2>3. Kept(b.result) \in receipts \/ (b.result = "IDEMPOTENCY_CONFLICT" /\ Taken)
      BY <1>1, FinalAnswers
    <2> HIDE DEF Kept, Taken
    <2> QED
      BY <2>1, <2>2, <2>3
  <1>2. ASSUME IInv, NEW a \in answers, NEW s \in Sessions, Final(a), run[s] # Idle,
               run[s].command = a.command
        PROVE  FALSE
    <2> DEFINE open == [command |-> a.command, result |-> None]
    <2>1. open \in receipts
      BY <1>2, RunFacts
    <2>2. \A r \in receipts : r.command.idempotencyKey = a.command.idempotencyKey => r = open
      BY <1>2, <2>1 DEF IInv, ReceiptsOK
    <2>3. PICK r \in receipts : /\ r.command.idempotencyKey = a.command.idempotencyKey
                                /\ r.command # a.command \/ r.result # None
      BY <1>2, FinalAnswers
    <2> QED
      BY <2>2, <2>3
  <1>3. ASSUME IInv, NEW r \in receipts, r.result # None
        PROVE  Final(r)
    <2>1. Fits(r.command, r.result, shipments[r.command.orderId], cancellations[r.command.orderId])
      BY <1>3 DEF IInv, ReceiptsOK, ReceiptTrue
    <2> QED
      BY <2>1 DEF Fits, Final
  <1>4. IInv => OneFinalAnswer
    BY <1>1, <1>2, <1>3 DEF OneFinalAnswer
  <1> QED
    BY <1>4, Invariance, PTL

(* The rows agree with each other and with what the provider did, for any   *)
(* number of connections and any commands in which a saga has one order.   *)
THEOREM RecordsAreTrue == Spec => []ShipmentRecordTrue
  <1>1. IInv => ShipmentRecordTrue
    <2> SUFFICES ASSUME IInv PROVE ShipmentRecordTrue
      OBVIOUS
    <2>1. ASSUME NEW o \in Orders
          PROVE  /\ shipments[o].status \in {"ABSENT", "PENDING"}
                      <=> shipments[o].createResult = None
                 /\ shipments[o].status \in {"CREATED", "CANCELLED"}
                      <=> shipments[o].createResult = "CREATED"
                 /\ cancellations[o].status = "CANCELLED" => cancellations[o].linked
                 /\ cancellations[o].status = "CANCELLED" <=> shipments[o].status = "CANCELLED"
      <3> DEFINE p == shipments[o]
                 f == cancellations[o]
      <3>1. RowTrue(o, p, f, requests)
        BY DEF IInv, RowsOK
      <3>2. /\ p.status \in {"ABSENT", "PENDING", "CREATED", "CANCELLED", "FAILED"}
            /\ f.linked \in BOOLEAN
            /\ p.createResult \in {None, "CREATED"} \cup Refusals
            /\ "CREATED" \notin Refusals /\ "CREATED" # None /\ None \notin Refusals
        BY <3>1 DEF RowTrue, Shipment, Cancellation, Refusals, None
      <3>3. /\ p.status \in {"ABSENT", "PENDING"} <=> p.createResult = None
            /\ p.status = "FAILED" <=> p.createResult \in Refusals
            /\ f.status = "CANCELLED" <=> p.status = "CANCELLED"
            /\ f.status # "ABSENT" /\ p.status # "ABSENT" => f.linked
        BY <3>1 DEF RowTrue
      <3> HIDE DEF p, f
      <3>4. /\ p.status \in {"CREATED", "CANCELLED"} <=> p.createResult = "CREATED"
            /\ f.status = "CANCELLED" => f.linked
        BY <3>2, <3>3
      <3> QED
        BY <3>3, <3>4 DEF p, f
    <2>2. \A s \in Sessions : ExecutionOK(run[s])
      <3> SUFFICES ASSUME NEW s \in Sessions, run[s] # Idle PROVE ExecutionOK(run[s])
        BY DEF ExecutionOK
      <3> QED
        BY RunFacts DEF ExecutionTrue, ExecutionOK, Execution
    <2>3. TypeOK
      <3>1. answers \subseteq Answer
        BY DEF IInv, AnswersOK, AnswerTrue
      <3> QED
        BY <2>1, <2>2, <3>1 DEF IInv, Shape, ReceiptsOK, ReceiptTrue, TypeOK
    <2> QED
      BY <2>1, <2>3, CreatedFacts DEF ShipmentRecordTrue
  <1> QED
    BY <1>1, Invariance, PTL

-----------------------------------------------------------------------------
(* The promise to the saga.                                                *)

Told(o) == UNION {Telling(a) : a \in {b \in answers : b.command.orderId = o}}

TellingsTrue == \A o \in Orders : Told(o) \subseteq Promise!TrueOf[StepEffect(o)]

Effects == {"none", "void", "done", "undone"}

LEMMA EffectFacts ==
  ASSUME NEW o \in Orders, parcels \in [Orders -> Parcel]
  PROVE  /\ StepEffect(o) \in Effects
         /\ parcels[o].status = "CREATED" => StepEffect(o) = "done"
         /\ parcels[o].status = "CANCELLED" => StepEffect(o) = "undone"
         /\ parcels[o].status = "NOOP" => StepEffect(o) = "void"
         /\ parcels[o].status = "ABSENT" =>
              StepEffect(o) = IF CancelAnsweredFor(o) THEN "void" ELSE "none"
  <1>1. parcels[o].status \in {"ABSENT", "CREATED", "CANCELLED", "NOOP"}
    BY DEF Parcel
  <1> QED
    BY <1>1 DEF StepEffect, Effects

LEMMA CancelledFacts ==
  ASSUME IInv, NEW o \in Orders, CancelAnsweredFor(o)
  PROVE  cancellations[o].status \in {"CANCELLED", "NOOP"}
  <1>1. PICK a \in answers : a.command.orderId = o /\ a.result \in {"CANCELLED", "NOOP"}
    BY DEF CancelAnsweredFor
  <1>2. a.command \in Commands /\ [command |-> a.command, result |-> a.result] \in receipts
    BY <1>1 DEF IInv, AnswersOK, AnswerTrue, Answer, TurnedDown
  <1>3. Fits(a.command, a.result, shipments[o], cancellations[o])
    BY <1>1, <1>2 DEF IInv, ReceiptsOK, ReceiptTrue, None
  <1>4. a.command.operation = "CANCEL_SHIPMENT"
    BY <1>1, <1>2, <1>3, CommandFacts DEF Fits, Refusals, Operations
  <1> QED
    BY <1>1, <1>3, <1>4 DEF Fits

(* Whatever was told is true of where the step stands now.                  *)
LEMMA TellingsAreTrue == IInv => TellingsTrue
  <1> SUFFICES ASSUME IInv, NEW o \in Orders, NEW a \in answers, a.command.orderId = o,
                      NEW t \in Telling(a)
               PROVE  t \in Promise!TrueOf[StepEffect(o)]
    BY DEF TellingsTrue, Told
  <1> DEFINE c == a.command
             p == shipments[o]
             f == cancellations[o]
             parcel == parcels[o]
  <1>1. AnswerTrue(a, receipts, p, f) /\ RowTrue(o, p, f, requests)
    BY DEF IInv, AnswersOK, RowsOK
  <1>2. c \in Commands /\ a.result \in Results \cup {TurnedDown}
    BY <1>1 DEF AnswerTrue, Answer
  <1>3. parcels \in [Orders -> Parcel]
    BY DEF IInv, Shape
  <1>4. parcel.status \in {"ABSENT", "CREATED", "CANCELLED", "NOOP"}
    BY <1>3 DEF Parcel
  <1>5. a.result \notin {"IDEMPOTENCY_CONFLICT", TurnedDown}
    BY DEF Telling, TurnedDown
  <1>6. [command |-> c, result |-> a.result] \in receipts
    BY <1>1, <1>5 DEF AnswerTrue
  <1>7. Fits(c, a.result, p, f)
    <2>1. a.result # None
      BY <1>2 DEF Results, Refusals, TurnedDown, None
    <2> QED
      BY <1>6, <2>1 DEF IInv, ReceiptsOK, ReceiptTrue
  <1>8. c.operation \in {"CREATE_SHIPMENT", "CANCEL_SHIPMENT"}
    BY <1>2, CommandFacts DEF Operations
  <1>9. CASE a.result = "CREATED"
    <2>1. p.createResult = "CREATED"
      BY <1>7, <1>8, <1>9 DEF Fits
    <2>2. parcel.status \in {"CREATED", "CANCELLED"}
      BY <2>1, CreatedFacts
    <2>3. StepEffect(o) \in {"done", "undone"}
      BY <2>2, <1>3, EffectFacts
    <2> QED
      BY <2>3, <1>9 DEF Telling, Promise!TrueOf
  <1>10. CASE a.result = "SHIPPING_REJECTED"
    <2>1. p.createResult = "SHIPPING_REJECTED"
      BY <1>7, <1>8, <1>10 DEF Fits
    <2>2. parcel.status \in {"ABSENT", "NOOP"}
      BY <2>1, <1>4, CreatedFacts DEF Refusals
    <2>3. StepEffect(o) \in {"none", "void"}
      BY <2>2, <1>3, EffectFacts
    <2> QED
      BY <2>3, <1>10 DEF Telling, Promise!TrueOf
  <1>11. CASE a.result \in {"CANCELLED", "NOOP"}
    <2>1. c.operation = "CANCEL_SHIPMENT" /\ f.status = a.result
      BY <1>7, <1>8, <1>11 DEF Fits, Refusals
    <2>2. CancelAnsweredFor(o)
      BY <2>1, <1>11 DEF CancelAnsweredFor
    <2>3. parcel.status # "CREATED"
      <3>1. parcel.status = "CREATED" =>
              p.status \notin {"ABSENT", "FAILED"} /\ f.status # "CANCELLED"
        BY CreatedFacts
      <3> QED
        BY <3>1, <2>1, <1>1, <1>11 DEF RowTrue
    <2>4. StepEffect(o) \in {"void", "undone"}
      BY <2>2, <2>3, <1>3, <1>4, EffectFacts
    <2> QED
      BY <2>4, <1>11 DEF Telling, Promise!TrueOf
  <1>12. Telling(a) # {} =>
           a.result \in {"CREATED", "SHIPPING_REJECTED", "CANCELLED", "NOOP"}
    BY DEF Telling
  <1> QED
    BY <1>9, <1>10, <1>11, <1>12

(* A step that moves the step of one order the way it may go, and forgets   *)
(* nothing that was told, is the participant's.                             *)
LEMMA OneOrderMoves ==
  ASSUME IInv, IInv', NEW o \in Orders,
         StepEffect(o)' \in Promise!Follows[StepEffect(o)],
         Told(o) \subseteq Told(o)',
         \A x \in Orders \ {o} : StepEffect(x)' = StepEffect(x) /\ Told(x)' = Told(x)
  PROVE  Promise!Next
  <1> DEFINE effect == [x \in Orders |-> StepEffect(x)]
             told == [x \in Orders |-> Told(x)]
             next == StepEffect(o)'
             results == Told(o)'
  <1>1. TellingsTrue'
    BY TellingsAreTrue, PTL
  <1>2. next = StepEffect(o)' /\ results = Told(o)'
    OBVIOUS
  <1>3. results \subseteq Promise!TrueOf[next] /\ Told(o) \subseteq results
    BY <1>1 DEF TellingsTrue
  <1>4. next = "done" => "REFUSED" \notin Told(o)
    BY <1>3 DEF Promise!TrueOf
  <1>5. effect' = [effect EXCEPT ![o] = next]
    OBVIOUS
  <1>6. told' = [told EXCEPT ![o] = @ \cup results]
    BY <1>3
  <1> HIDE DEF next, results
  <1>7. effect'[o] = next /\ effect[o] = StepEffect(o) /\ told[o] = Told(o)
    BY <1>5
  <1>8. Promise!Step(o)
    BY <1>3, <1>4, <1>5, <1>6, <1>7 DEF Promise!Step, Told
  <1> QED
    BY <1>8 DEF Promise!Next

EffectKnown ==
  \A o \in Orders :
    /\ StepEffect(o) \in Effects
    /\ parcels[o].status = "CREATED" => StepEffect(o) = "done"
    /\ parcels[o].status = "CANCELLED" => StepEffect(o) = "undone"
    /\ parcels[o].status = "NOOP" => StepEffect(o) = "void"
    /\ parcels[o].status = "ABSENT" =>
         StepEffect(o) = IF CancelAnsweredFor(o) THEN "void" ELSE "none"
    /\ parcels[o].status \in {"ABSENT", "CREATED", "CANCELLED", "NOOP"}

LEMMA EffectIsKnown == IInv => EffectKnown
  <1> SUFFICES ASSUME IInv PROVE EffectKnown
    OBVIOUS
  <1>1. parcels \in [Orders -> Parcel]
    BY DEF IInv, Shape
  <1>2. \A o \in Orders : parcels[o].status \in {"ABSENT", "CREATED", "CANCELLED", "NOOP"}
    BY <1>1 DEF Parcel
  <1> QED
    BY <1>1, <1>2, EffectFacts DEF EffectKnown

(* An answer is given, the provider does nothing.                           *)
LEMMA AnswerIsPromised ==
  ASSUME IInv, IInv', parcels' = parcels, NEW a, answers' = answers \cup {a},
         a.command.orderId \in Orders
  PROVE  Promise!Next
  <1> DEFINE o == a.command.orderId
  <1>1. EffectKnown /\ EffectKnown'
    BY EffectIsKnown, PTL
  <1>2. \A x \in Orders \ {o} :
          (CancelAnsweredFor(x)' <=> CancelAnsweredFor(x)) /\ Told(x)' = Told(x)
    BY DEF CancelAnsweredFor, Told
  <1>3. (CancelAnsweredFor(o) => CancelAnsweredFor(o)') /\ Told(o) \subseteq Told(o)'
    BY DEF CancelAnsweredFor, Told
  <1>4. StepEffect(o)' \in Promise!Follows[StepEffect(o)]
    <2>1. StepEffect(o) \in Effects
      BY <1>1 DEF EffectKnown
    <2>2. \/ StepEffect(o)' = StepEffect(o)
          \/ StepEffect(o) = "none" /\ StepEffect(o)' = "void"
      BY <1>1, <1>3 DEF EffectKnown
    <2> QED
      BY <2>1, <2>2 DEF Promise!Follows, Effects
  <1>5. \A x \in Orders \ {o} : StepEffect(x)' = StepEffect(x)
    BY <1>2 DEF StepEffect
  <1> QED
    BY <1>2, <1>3, <1>4, <1>5, OneOrderMoves

(* The provider executes a call, nobody is told anything.                   *)
LEMMA ExecutionIsPromised ==
  ASSUME IInv, IInv', answers' = answers, NEW o \in Orders, NEW parcel,
         parcels' = [parcels EXCEPT ![o] = parcel],
         StepEffect(o)' \in Promise!Follows[StepEffect(o)]
  PROVE  Promise!Next
  <1>1. \A x \in Orders : (CancelAnsweredFor(x)' <=> CancelAnsweredFor(x)) /\ Told(x)' = Told(x)
    BY DEF CancelAnsweredFor, Told
  <1>2. \A x \in Orders \ {o} : parcels'[x] = parcels[x]
    BY DEF IInv, Shape
  <1>3. \A x \in Orders \ {o} : StepEffect(x)' = StepEffect(x)
    BY <1>1, <1>2 DEF StepEffect
  <1> QED
    BY <1>1, <1>3, OneOrderMoves

LEMMA CreateIsPromised ==
  ASSUME IInv, IInv', NEW x \in calls, ProviderCreate(x)
  PROVE  Promise!Next
  <1> DEFINE o == x.orderId
             new == [status |-> "CREATED", sagaId |-> x.sagaId, content |-> x.content]
  <1>1. Executes(x, "CREATED", new)
    BY DEF ProviderCreate
  <1>2. /\ o \in Orders /\ parcels' = [parcels EXCEPT ![o] = new] /\ answers' = answers
        /\ \A r : ~Served(requests, x, r)
    BY <1>1, CallFacts DEF Executes
  <1>3. /\ parcels[o].status = "ABSENT" /\ x = CreateCall(o, shipments[o])
        /\ shipments[o].status # "ABSENT"
    BY ProviderCreateStep
  <1>4. shipments[o].status = "PENDING"
    <2>1. RowTrue(o, shipments[o], cancellations[o], requests)
      BY <1>2 DEF IInv, RowsOK
    <2> QED
      BY <2>1, <1>2, <1>3 DEF RowTrue
  <1>5. ~CancelAnsweredFor(o)
    <2>1. RowTrue(o, shipments[o], cancellations[o], requests)
      BY <1>2 DEF IInv, RowsOK
    <2>2. cancellations[o].status \notin {"CANCELLED", "NOOP"}
      BY <2>1, <1>4 DEF RowTrue
    <2> QED
      BY <2>2, <1>2, CancelledFacts
  <1>6. ~CancelAnsweredFor(o)' /\ parcels'[o].status = "CREATED"
    BY <1>2, <1>5 DEF CancelAnsweredFor, IInv, Shape
  <1>7. EffectKnown /\ EffectKnown'
    BY EffectIsKnown, PTL
  <1>8. StepEffect(o) = "none" /\ StepEffect(o)' = "done"
    BY <1>2, <1>3, <1>5, <1>6, <1>7 DEF EffectKnown
  <1>9. StepEffect(o)' \in Promise!Follows[StepEffect(o)]
    BY <1>8 DEF Promise!Follows
  <1> HIDE DEF new, o
  <1> QED
    BY <1>2, <1>9, ExecutionIsPromised

LEMMA CancelIsPromised ==
  ASSUME IInv, IInv', NEW x \in calls, ProviderCancel(x)
  PROVE  Promise!Next
  <1> DEFINE o == x.orderId
  <1>1. PICK result, parcel : Executes(x, result, parcel)
    BY DEF ProviderCancel
  <1>2. /\ o \in Orders /\ parcels' = [parcels EXCEPT ![o] = parcel] /\ answers' = answers
    BY <1>1, CallFacts DEF Executes
  <1>3. /\ parcels[o].status \in {"ABSENT", "CREATED"}
        /\ parcels'[o].status = IF parcels[o].status = "CREATED" THEN "CANCELLED" ELSE "NOOP"
    BY ProviderCancelStep
  <1>4. EffectKnown /\ EffectKnown'
    BY EffectIsKnown, PTL
  <1>5. \/ StepEffect(o) \in {"none", "void"} /\ StepEffect(o)' = "void"
        \/ StepEffect(o) = "done" /\ StepEffect(o)' = "undone"
    BY <1>2, <1>3, <1>4 DEF EffectKnown
  <1>6. StepEffect(o)' \in Promise!Follows[StepEffect(o)]
    BY <1>5 DEF Promise!Follows
  <1> HIDE DEF o
  <1> QED
    BY <1>2, <1>6, ExecutionIsPromised

LEMMA NothingIsPromised ==
  ASSUME parcels' = parcels, answers' = answers
  PROVE  UNCHANGED Promise!vars
  <1>1. \A o \in Orders : StepEffect(o)' = StepEffect(o)
    BY DEF StepEffect, CancelAnsweredFor
  <1> QED
    BY <1>1 DEF Promise!vars, Telling

LEMMA NextIsPromised == IInv /\ IInv' /\ [Next]_vars => [Promise!Next]_(Promise!vars)
  <1> SUFFICES ASSUME IInv, IInv', [Next]_vars PROVE [Promise!Next]_(Promise!vars)
    OBVIOUS
  <1>1. ASSUME NEW s \in Sessions, run[s] # Idle, NEW result, Respond(s, result), parcels' = parcels
        PROVE  [Promise!Next]_(Promise!vars)
    <2>1. [command |-> run[s].command, result |-> result].command.orderId \in Orders
      BY <1>1, RunFacts DEF OrderOf
    <2> QED
      BY <1>1, <2>1, AnswerIsPromised DEF Respond
  <1>2. ASSUME NEW s \in Sessions, NEW c \in Commands, Begin(s, c) \/ ReplayReceipt(s, c)
        PROVE  [Promise!Next]_(Promise!vars)
    <2>1. CASE Begin(s, c)
      BY <2>1, NothingIsPromised DEF Begin, provider
    <2>2. CASE ReplayReceipt(s, c)
      <3>1. parcels' = parcels
            /\ \E result : answers' = answers \cup {[command |-> c, result |-> result]}
        BY <2>2 DEF ReplayReceipt, provider
      <3>2. \A result : [command |-> c, result |-> result].command.orderId \in Orders
        BY CommandFacts
      <3> QED
        BY <3>1, <3>2, AnswerIsPromised
    <2> QED
      BY <1>2, <2>1, <2>2
  <1>3. ASSUME NEW s \in Sessions,
               \/ RefuseConflict(s) \/ RefuseCreate(s) \/ ReplayCreate(s) \/ FinishCreate(s)
               \/ ReplayCancel(s) \/ SkipCancel(s) \/ CancelAnswered(s)
               \/ CancelTurnedDown(s)
        PROVE  [Promise!Next]_(Promise!vars)
    <2>1. \E phase : InPhase(s, phase) /\ phase # "idle"
      BY <1>3 DEF RefuseConflict, RefuseCreate, ReplayCreate, FinishCreate, ReplayCancel,
                  SkipCancel, CancelAnswered, CancelTurnedDown, Proceeds, ReadyToCancel
    <2>2. \E result : Respond(s, result) /\ parcels' = parcels
      BY <1>3 DEF RefuseConflict, RefuseCreate, ReplayCreate, FinishCreate, ReplayCancel,
                  SkipCancel, CancelAnswered, CancelTurnedDown, ConcludeCreate, ConcludeCancel,
                  CompleteReceipt, LeaveOpen, Respond, provider
    <2> QED
      BY <1>1, <2>1, <2>2, Working
  <1>4. ASSUME NEW s \in Sessions,
               \/ StartCreate(s) \/ CreateAnswered(s) \/ RequestCancel(s) \/ ResolveCreate(s)
               \/ StartCancel(s) \/ Abandon(s)
        PROVE  [Promise!Next]_(Promise!vars)
    <2>1. parcels' = parcels /\ answers' = answers
      BY <1>4 DEF StartCreate, CreateAnswered, RequestCancel, ResolveCreate, StartCancel, Abandon,
                  provider
    <2> QED
      BY <2>1, NothingIsPromised
  <1>5. ASSUME NEW x \in calls, ProviderRefuse(x)
        PROVE  [Promise!Next]_(Promise!vars)
    <2>1. parcels' = [parcels EXCEPT ![x.orderId] = parcels[x.orderId]] /\ answers' = answers
      BY <1>5 DEF ProviderRefuse, Executes
    <2>2. parcels' = parcels
      BY <2>1 DEF IInv, Shape
    <2> QED
      BY <2>1, <2>2, NothingIsPromised
  <1>6. CASE UNCHANGED vars
    BY <1>6, NothingIsPromised DEF vars
  <1> QED
    BY <1>2, <1>3, <1>4, <1>5, <1>6, CreateIsPromised, CancelIsPromised DEF Next

LEMMA InitIsPromised == Init => Promise!Init
  <1> SUFFICES ASSUME Init PROVE Promise!Init
    OBVIOUS
  <1>1. \A o \in Orders : StepEffect(o) = "none"
    BY DEF Init, StepEffect, CancelAnsweredFor, NoParcel
  <1> QED
    BY <1>1 DEF Init, Promise!Init

(* A parcel is created at most once and cancelled at most once, and what a  *)
(* saga is told of it stays true, whatever call the provider executes late. *)
THEOREM ShippingImplementsParticipant == Spec => ImplementsParticipant
  <1>1. IInv /\ [Next]_vars => IInv'
    BY NextInv
  <1> QED
    BY InitInv, <1>1, InitIsPromised, NextIsPromised, PTL
       DEF Spec, ImplementsParticipant, Promise!Spec
=============================================================================
