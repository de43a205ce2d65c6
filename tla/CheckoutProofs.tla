--------------------------- MODULE CheckoutProofs ---------------------------
(***************************************************************************)
(* A checkout makes one order and loses none, for any number of tabs, keys *)
(* and requests under way.  It rests on the key: whatever carries a key    *)
(* carries the same content, so no request of a checkout is ever taken for *)
(* another's, and a key that may still make an order is one that a tab     *)
(* keeps, that a reload gave up, or whose order the customer was shown.    *)
(***************************************************************************)
EXTENDS Checkout, SequenceTheorems, TLAPS

(* Whether there is an order under the key or not, it is accounted for.     *)
Known(key) ==
  \/ key \in abandoned
  \/ \E o \in remembered : orders[o].key = key
  \/ \E t \in Tabs : store[t].phase \in Pending /\ store[t].key = key

(* A key goes with one content, wherever it is.                             *)
OneContent(of) ==
  /\ \A t \in Tabs : store[t].key # None => /\ store[t].content = of[store[t].key]
                                            /\ store[t].content \in Contents
  /\ \A i \in Slots : net[i] # Free => net[i].content = of[net[i].key]
  /\ \A o \in DOMAIN orders : orders[o].content = of[orders[o].key]

KeysUsed ==
  /\ \A t \in Tabs : store[t].key # None => store[t].key \in used
  /\ \A i \in Slots : net[i] # Free => net[i].key \in used
  /\ \A o \in DOMAIN orders : orders[o].key \in used

(* An accepted request has its order; one is refused for its content only.  *)
AnswerTrue(r) ==
  /\ r.stage \in {"accepted", "ran"} => r.order # 0
  /\ r.status = 400 => r.content \in Rejected
  /\ r.status # 409

IInv ==
  /\ OrderKnown
  /\ OneOrderPerCheckout
  /\ \E of \in [Keys -> Contents \cup {None}] : OneContent(of)
  /\ KeysUsed
  /\ \A i \in Slots : net[i] # Free => /\ AnswerTrue(net[i])
                                       /\ net[i].content \in Rejected \/ Known(net[i].key)
  /\ \A o \in DOMAIN orders : orders[o].content \notin Rejected
  /\ \A t \in Tabs : store[t].phase = "settled" /\ store[t].order = 0 =>
                       store[t].content \in Rejected

LEMMA InitIInv == Init => IInv
  <1> SUFFICES ASSUME Init PROVE IInv
    OBVIOUS
  <1>1. /\ store = [t \in Tabs |-> NewStore] /\ net = [i \in Slots |-> Free]
        /\ orders = <<>> /\ used = {} /\ remembered = {} /\ abandoned = {}
    BY DEF Init
  <1>2. DOMAIN orders = {}
    BY <1>1
  <1>3. TypeOK
    <2>1. MaxRequests \in Nat
      BY ConstantsAssumption
    <2>2. store \in [Tabs -> Store]
      BY <1>1, <2>1 DEF NewStore, Store
    <2>3. orders \in Seq(Order)
      BY <1>1
    <2> QED
      BY <1>1, <2>2, <2>3 DEF TypeOK, NewStore, RequestOK
  <1>4. [key \in Keys |-> None] \in [Keys -> Contents \cup {None}]
    OBVIOUS
  <1>5. OneContent([key \in Keys |-> None])
    BY <1>1, <1>2 DEF OneContent, NewStore
  <1> QED
    BY <1>1, <1>2, <1>3, <1>4, <1>5
       DEF IInv, OrderKnown, OneOrderPerCheckout, KeysUsed, NewStore

-----------------------------------------------------------------------------
(* What the service does: requests go on, and an order may be added.        *)

(* A request that somebody waits for is not dropped, and what it is for     *)
(* stays as it was.                                                         *)
NetMoves ==
  /\ DOMAIN net' = Slots
  /\ \A i \in Slots : net[i] # Free /\ Awaited(i) => net'[i] # Free
  /\ \A i \in Slots : net'[i] # Free =>
       /\ net[i] # Free
       /\ net'[i].key = net[i].key /\ net'[i].content = net[i].content
       /\ net'[i] \in Request
       /\ net'[i].order # 0 => net'[i].order \in DOMAIN orders'
       /\ AnswerTrue(net'[i])

(* An order keeps its key and content; a new one is the first under the key *)
(* of a request that passed the checks.                                     *)
OrdersGrow ==
  /\ orders' \in Seq(Order)
  /\ DOMAIN orders \subseteq DOMAIN orders'
  /\ \A o \in DOMAIN orders :
       orders'[o].key = orders[o].key /\ orders'[o].content = orders[o].content
  /\ \A o \in DOMAIN orders' \ DOMAIN orders :
       /\ \A p \in DOMAIN orders : orders[p].key # orders'[o].key
       /\ \E i \in Slots : /\ net[i] # Free
                           /\ orders'[o].key = net[i].key
                           /\ orders'[o].content = net[i].content
                           /\ net[i].content \notin Rejected
  /\ \A o, p \in DOMAIN orders' \ DOMAIN orders : o = p

LEMMA ServiceStep ==
  ASSUME IInv, NetMoves, OrdersGrow, UNCHANGED <<store, used, remembered, abandoned>>
  PROVE  IInv'
  <1>1. TypeOK'
    <2>1. /\ store \in [Tabs -> Store] /\ used \subseteq Keys /\ abandoned \subseteq used
          /\ \A t, u \in Tabs : t # u /\ store[t].slot = store[u].slot => store[t].slot = 0
      BY DEF IInv, OrderKnown, TypeOK
    <2>2. remembered \subseteq DOMAIN orders'
      BY DEF IInv, OrderKnown, TypeOK, OrdersGrow
    <2>3. \A i \in Slots : RequestOK(net[i])'
      BY DEF NetMoves, RequestOK
    <2>4. ASSUME NEW t \in Tabs
          PROVE  /\ store[t].slot # 0 <=> store[t].phase = "submitting"
                 /\ store[t].slot # 0 => /\ net'[store[t].slot] # Free
                                         /\ net'[store[t].slot].key = store[t].key
                                         /\ net'[store[t].slot].content = store[t].content
                 /\ store[t].key = None <=> store[t].phase = "idle"
      <3>1. store[t].slot # 0 => store[t].slot \in Slots
        BY <2>1, ConstantsAssumption DEF Store, Slots
      <3>2. store[t].slot # 0 => Awaited(store[t].slot)
        BY DEF Awaited
      <3>3. /\ store[t].slot # 0 <=> store[t].phase = "submitting"
            /\ store[t].slot # 0 => /\ net[store[t].slot] # Free
                                    /\ net[store[t].slot].key = store[t].key
                                    /\ net[store[t].slot].content = store[t].content
            /\ store[t].key = None <=> store[t].phase = "idle"
        BY DEF IInv, OrderKnown, TypeOK
      <3> QED
        BY <3>1, <3>2, <3>3 DEF NetMoves
    <2> QED
      BY <2>1, <2>2, <2>3, <2>4 DEF TypeOK, NetMoves, OrdersGrow
  <1>2. \E of \in [Keys -> Contents \cup {None}] : OneContent(of)'
    <2>1. PICK of \in [Keys -> Contents \cup {None}] : OneContent(of)
      BY DEF IInv
    <2>2. \A t \in Tabs : store'[t].key # None => /\ store'[t].content = of[store'[t].key]
                                                  /\ store'[t].content \in Contents
      BY <2>1 DEF OneContent
    <2>3. \A i \in Slots : net'[i] # Free => net'[i].content = of[net'[i].key]
      BY <2>1 DEF OneContent, NetMoves
    <2>4. \A o \in DOMAIN orders' : orders'[o].content = of[orders'[o].key]
      BY <2>1 DEF OneContent, OrdersGrow
    <2> QED
      BY <2>2, <2>3, <2>4 DEF OneContent
  <1>3. KeysUsed'
    BY DEF IInv, KeysUsed, NetMoves, OrdersGrow
  <1>4. OneOrderPerCheckout'
    BY DEF IInv, OneOrderPerCheckout, OrdersGrow
  <1>5. ASSUME NEW key, Known(key)
        PROVE  Known(key)'
    BY <1>5 DEF IInv, OrderKnown, TypeOK, Known, OrdersGrow
  <1>6. \A i \in Slots : net'[i] # Free => /\ AnswerTrue(net'[i])
                                           /\ net'[i].content \in Rejected \/ Known(net[i].key)'
    BY <1>5 DEF IInv, NetMoves
  <1>7. \A o \in DOMAIN orders' : orders'[o].content \notin Rejected
    BY DEF IInv, OrdersGrow
  <1>8. ASSUME NEW o \in DOMAIN orders'
        PROVE  \/ o \in remembered
               \/ orders'[o].key \in abandoned
               \/ \E t \in Tabs : store[t].phase \in Pending /\ store[t].key = orders'[o].key
    <2>1. CASE o \in DOMAIN orders
      BY <2>1 DEF IInv, OrderKnown, OrdersGrow
    <2>2. CASE o \notin DOMAIN orders
      <3>1. PICK i \in Slots : /\ net[i] # Free /\ orders'[o].key = net[i].key
                               /\ net[i].content \notin Rejected
        BY <2>2 DEF OrdersGrow
      <3>2. Known(orders'[o].key)
        BY <3>1 DEF IInv
      <3>3. \A p \in remembered : orders[p].key # orders'[o].key
        BY <2>2 DEF OrdersGrow, IInv, OrderKnown, TypeOK
      <3> QED
        BY <3>2, <3>3 DEF Known
    <2> QED
      BY <2>1, <2>2
  <1>9. OrderKnown'
    BY <1>1, <1>8 DEF OrderKnown
  <1>10. \A t \in Tabs : store[t].phase = "settled" /\ store[t].order = 0 =>
                           store[t].content \in Rejected
    BY DEF IInv
  <1> QED
    BY <1>2, <1>3, <1>4, <1>6, <1>7, <1>9, <1>10 DEF IInv

(* Answering a request and moving it on.                                    *)
LEMMA AcceptedRequest ==
  ASSUME NEW q \in Request, NEW order \in Nat
  PROVE  LET r == [q EXCEPT !.stage = "accepted", !.order = order] IN
         /\ r \in Request /\ r.key = q.key /\ r.content = q.content
         /\ r.stage = "accepted" /\ r.order = order /\ r.status = q.status
  <1> DEFINE p == [q EXCEPT !.stage = "accepted"]
             r == [p EXCEPT !.order = order]
  <1>1. /\ p \in Request /\ p.key = q.key /\ p.content = q.content
        /\ p.stage = "accepted" /\ p.status = q.status
    BY DEF Request
  <1> HIDE DEF p
  <1>2. r \in Request
    BY <1>1 DEF Request
  <1>3. /\ r.key = p.key /\ r.content = p.content /\ r.order = order
        /\ r.stage = p.stage /\ r.status = p.status
    BY <1>1 DEF Request
  <1> HIDE DEF r
  <1>4. r = [q EXCEPT !.stage = "accepted", !.order = order]
    BY DEF p, r
  <1> QED
    BY <1>1, <1>2, <1>3, <1>4

LEMMA CreatedRequest ==
  ASSUME NEW p \in Request, NEW created \in BOOLEAN
  PROVE  LET r == [p EXCEPT !.created = created] IN
         /\ r \in Request /\ r.key = p.key /\ r.content = p.content
         /\ r.stage = p.stage /\ r.order = p.order /\ r.status = p.status
  <1> DEFINE r == [p EXCEPT !.created = created]
  <1>1. r \in Request
    BY DEF Request
  <1>2. /\ r.key = p.key /\ r.content = p.content
        /\ r.stage = p.stage /\ r.order = p.order /\ r.status = p.status
    BY DEF Request
  <1> QED
    BY <1>1, <1>2

LEMMA InsertedRequest ==
  ASSUME NEW q \in Request, NEW order \in Nat
  PROVE  LET r == [q EXCEPT !.stage = "accepted", !.order = order, !.created = TRUE] IN
         /\ r \in Request /\ r.key = q.key /\ r.content = q.content
         /\ r.stage = "accepted" /\ r.order = order /\ r.status = q.status
  <1> DEFINE p == [q EXCEPT !.stage = "accepted", !.order = order]
             r == [p EXCEPT !.created = TRUE]
  <1>1. /\ p \in Request /\ p.key = q.key /\ p.content = q.content
        /\ p.stage = "accepted" /\ p.order = order /\ p.status = q.status
    BY AcceptedRequest
  <1> HIDE DEF p
  <1>2. \A created \in BOOLEAN : created = TRUE =>
          /\ r \in Request /\ r.key = p.key /\ r.content = p.content
          /\ r.stage = p.stage /\ r.order = p.order /\ r.status = p.status
    BY <1>1, CreatedRequest
  <1> HIDE DEF r
  <1>3. r = [q EXCEPT !.stage = "accepted", !.order = order, !.created = TRUE]
    BY DEF p, r
  <1> QED
    BY <1>1, <1>2, <1>3

Statuses == {200, 201, 202, 400, 422, 503}
Sagas == Active \cup {"COMPLETED", "FAILED", None}

Answered(q, status, saga) ==
  [q EXCEPT !.stage = "answered", !.status = status, !.saga = saga]

LEMMA AnsweredRequest ==
  ASSUME NEW q \in Request, NEW status \in Statuses,
         NEW saga \in Sagas
  PROVE  LET r == Answered(q, status, saga) IN
         /\ r \in Request /\ r.key = q.key /\ r.content = q.content
         /\ r.stage = "answered" /\ r.order = q.order /\ r.status = status
  <1> DEFINE p == [q EXCEPT !.stage = "answered"]
             n == [p EXCEPT !.status = status]
             r == [n EXCEPT !.saga = saga]
  <1>1. /\ p \in Request /\ p.key = q.key /\ p.content = q.content
        /\ p.stage = "answered" /\ p.order = q.order
    BY DEF Request
  <1> HIDE DEF p
  <1>2. n \in Request
    BY <1>1 DEF Request, Statuses
  <1>3. /\ n.key = p.key /\ n.content = p.content /\ n.order = p.order
        /\ n.stage = p.stage /\ n.status = status
    BY <1>1 DEF Request
  <1> HIDE DEF n
  <1>4. r \in Request
    BY <1>2 DEF Request, Sagas
  <1>5. /\ r.key = n.key /\ r.content = n.content /\ r.order = n.order
        /\ r.stage = n.stage /\ r.status = n.status
    BY <1>2 DEF Request
  <1> HIDE DEF r
  <1>6. r = Answered(q, status, saga)
    BY DEF n, p, r, Answered
  <1> QED
    BY <1>1, <1>3, <1>4, <1>5, <1>6

LEMMA MovesNet ==
  ASSUME IInv, NEW i \in Slots, net[i] # Free, NEW r, r \in Request,
         r.key = net[i].key, r.content = net[i].content, AnswerTrue(r),
         Moves(i, r), UNCHANGED orders, r.order = net[i].order \/ r.order \in DOMAIN orders
  PROVE  NetMoves
  <1>1. /\ DOMAIN net = Slots
        /\ \A j \in Slots : net[j] # Free =>
             /\ net[j] \in Request
             /\ net[j].order # 0 => net[j].order \in DOMAIN orders
             /\ AnswerTrue(net[j])
    BY DEF IInv, OrderKnown, TypeOK, RequestOK
  <1>2. r # Free
    BY DEF Request, Free
  <1>3. DOMAIN net' = Slots /\ \A j \in Slots : net'[j] = IF j = i THEN r ELSE net[j]
    BY <1>1 DEF Moves
  <1> QED
    BY <1>1, <1>2, <1>3 DEF NetMoves

LEMMA AnswersNet ==
  ASSUME IInv, NEW i \in Slots, net[i] # Free, UNCHANGED <<store, orders>>,
         NEW status \in Statuses, status = 400 => net[i].content \in Rejected,
         NEW saga \in Sagas, Answer(i, status, saga)
  PROVE  NetMoves
  <1>1. /\ DOMAIN net = Slots
        /\ \A j \in Slots : net[j] # Free =>
             /\ net[j] \in Request
             /\ net[j].order # 0 => net[j].order \in DOMAIN orders
             /\ AnswerTrue(net[j])
    BY DEF IInv, OrderKnown, TypeOK, RequestOK
  <1>2. CASE Awaited(i)
    <2> DEFINE r == Answered(net[i], status, saga)
    <2>1. /\ r \in Request /\ r.key = net[i].key /\ r.content = net[i].content
          /\ r.stage = "answered" /\ r.order = net[i].order /\ r.status = status
      <3>1. net[i] \in Request
        BY <1>1
      <3> QED
        BY <3>1, AnsweredRequest
    <2>2. AnswerTrue(r)
      <3> HIDE DEF r
      <3> QED
        BY <2>1 DEF AnswerTrue, Statuses
    <2>3. Moves(i, r)
      BY <1>2 DEF Answer, Answered
    <2> HIDE DEF r
    <2> QED
      BY <2>1, <2>2, <2>3, MovesNet
  <1>3. CASE ~Awaited(i)
    <2>1. DOMAIN net' = Slots /\ \A j \in Slots : net'[j] = IF j = i THEN Free ELSE net[j]
      BY <1>1, <1>3 DEF Answer, Moves
    <2> QED
      BY <1>1, <1>3, <2>1 DEF NetMoves
  <1> QED
    BY <1>2, <1>3

LEMMA SameOrders == ASSUME IInv, UNCHANGED orders PROVE OrdersGrow
  BY DEF IInv, OrderKnown, TypeOK, OrdersGrow

LEMMA InsertStep ==
  ASSUME IInv, NEW i \in Slots, InStage(i, "sent"), net[i] # Free,
         net[i].content \notin Rejected, Existing(i) = {}, Insert(i)
  PROVE  NetMoves /\ OrdersGrow
  <1> DEFINE order == [key |-> net[i].key, content |-> net[i].content,
                       status |-> IF net[i].content \in Transfers THEN "PENDING_PAYMENT"
                                  ELSE "IN_PROGRESS"]
             r == [net[i] EXCEPT !.stage = "accepted", !.order = Len(orders) + 1, !.created = TRUE]
  <1>1. /\ DOMAIN net = Slots /\ orders \in Seq(Order)
        /\ \A j \in Slots : net[j] # Free =>
             /\ net[j] \in Request
             /\ net[j].order # 0 => net[j].order \in DOMAIN orders
             /\ AnswerTrue(net[j])
    BY DEF IInv, OrderKnown, TypeOK, RequestOK
  <1>2. order \in Order /\ order.key = net[i].key /\ order.content = net[i].content
    BY <1>1 DEF Order, Request, Active
  <1>3. orders' = Append(orders, order) /\ Moves(i, r)
    BY DEF Insert
  <1>4. Len(orders) \in Nat
    BY <1>1, LenProperties
  <1>5. /\ r \in Request /\ r.key = net[i].key /\ r.content = net[i].content
        /\ r.order = Len(orders) + 1 /\ r.stage = "accepted" /\ r.status = net[i].status
    <2>1. net[i] \in Request /\ Len(orders) + 1 \in Nat
      BY <1>1, <1>4
    <2> QED
      BY <2>1, InsertedRequest
  <1>6. AnswerTrue(net[i])
    BY <1>1
  <1>7. AnswerTrue(r)
    <2>1. Len(orders) + 1 # 0
      BY <1>4
    <2> HIDE DEF r
    <2> QED
      BY <1>5, <1>6, <2>1 DEF AnswerTrue
  <1>8. r # Free
    <2> HIDE DEF r
    <2> QED
      BY <1>5 DEF Free
  <1> HIDE DEF order, r
  <1>9. /\ orders' \in Seq(Order)
        /\ DOMAIN orders' = 1..(Len(orders) + 1) /\ DOMAIN orders = 1..Len(orders)
        /\ \A o \in DOMAIN orders : orders'[o] = orders[o]
        /\ orders'[Len(orders) + 1] = order
    BY <1>1, <1>2, <1>3, AppendProperties, LenProperties
  <1>10. DOMAIN orders \subseteq DOMAIN orders' /\ Len(orders) + 1 \in DOMAIN orders'
    BY <1>4, <1>9
  <1>11. \A o \in DOMAIN orders' \ DOMAIN orders : o = Len(orders) + 1
    BY <1>4, <1>9
  <1>12. \A p \in DOMAIN orders : orders[p].key # net[i].key
    BY DEF Existing
  <1>13. OrdersGrow
    BY <1>2, <1>9, <1>10, <1>11, <1>12 DEF OrdersGrow
  <1>14. DOMAIN net' = Slots /\ \A j \in Slots : net'[j] = IF j = i THEN r ELSE net[j]
    BY <1>1, <1>3 DEF Moves
  <1>15. NetMoves
    BY <1>1, <1>5, <1>7, <1>8, <1>10, <1>14 DEF NetMoves
  <1> QED
    BY <1>13, <1>15

LEMMA ServeStep ==
  ASSUME IInv, NEW i \in Slots, Serve(i) \/ Fail(i)
  PROVE  IInv'
  <1>1. net[i] # Free
    <2>1. net[i].stage \in {"sent", "accepted", "ran"} \/ net[i] # Free
      BY DEF Serve, Reject, Accept, Run, ReadStatus, Fail, InStage
    <2> QED
      BY <2>1 DEF Free
  <1>2. /\ net[i] \in Request /\ AnswerTrue(net[i]) /\ orders \in Seq(Order)
        /\ net[i].order # 0 => net[i].order \in DOMAIN orders
    BY <1>1 DEF IInv, OrderKnown, TypeOK, RequestOK
  <1>3. UNCHANGED <<store, used, remembered, abandoned>>
    BY DEF Serve, Reject, Accept, Run, ReadStatus, Fail
  <1>4. CASE Reject(i)
    <2>1. NetMoves
      BY <1>1, <1>4, AnswersNet DEF Reject, Statuses, Sagas
    <2> QED
      BY <1>3, <1>4, <2>1, SameOrders, ServiceStep DEF Reject
  <1>5. CASE Accept(i)
    <2>1. CASE Existing(i) = {} /\ Insert(i)
      BY <1>1, <1>3, <1>5, <2>1, InsertStep, ServiceStep DEF Accept
    <2>2. ASSUME NEW o \in Existing(i), UNCHANGED orders,
                 IF SameFingerprint(orders[o], net[i])
                 THEN Moves(i, [net[i] EXCEPT !.stage = "accepted", !.order = o])
                 ELSE Answer(i, 409, None)
          PROVE  IInv'
      <3> DEFINE r == [net[i] EXCEPT !.stage = "accepted", !.order = o]
      <3>1. o \in DOMAIN orders /\ orders[o].key = net[i].key
        BY DEF Existing
      <3>2. SameFingerprint(orders[o], net[i])
        BY <1>1, <3>1 DEF IInv, OneContent, SameFingerprint
      <3>3. o \in Nat \ {0}
        BY <1>2, <3>1, LenProperties
      <3>4. /\ r \in Request /\ r.key = net[i].key /\ r.content = net[i].content /\ r.order = o
            /\ r.stage = "accepted" /\ r.status = net[i].status
        BY <1>2, <3>3, AcceptedRequest
      <3>5. AnswerTrue(r)
        BY <1>2, <3>3, <3>4 DEF AnswerTrue
      <3>6. Moves(i, r)
        BY <2>2, <3>2
      <3> HIDE DEF r
      <3>7. NetMoves
        BY <1>1, <2>2, <3>1, <3>4, <3>5, <3>6, MovesNet
      <3> QED
        BY <1>3, <2>2, <3>7, SameOrders, ServiceStep
    <2> QED
      BY <1>5, <2>1, <2>2 DEF Accept
  <1>6. CASE Run(i)
    <2>1. CASE Answer(i, 503, None)
      <3>1. NetMoves
        BY <1>1, <1>6, <2>1, AnswersNet DEF Run, Statuses, Sagas
      <3> QED
        BY <1>3, <1>6, <3>1, SameOrders, ServiceStep DEF Run
    <2>2. CASE Moves(i, [net[i] EXCEPT !.stage = "ran"])
      <3> DEFINE r == [net[i] EXCEPT !.stage = "ran"]
      <3>1. /\ r \in Request /\ r.key = net[i].key /\ r.content = net[i].content
            /\ r.order = net[i].order /\ r.stage = "ran" /\ r.status = net[i].status
        BY <1>2 DEF Request
      <3>2. AnswerTrue(r)
        BY <1>2, <1>6, <3>1 DEF AnswerTrue, Run, InStage
      <3>3. Moves(i, r)
        BY <2>2
      <3> HIDE DEF r
      <3>4. NetMoves
        BY <1>1, <1>6, <3>1, <3>2, <3>3, MovesNet DEF Run
      <3> QED
        BY <1>3, <1>6, <3>4, SameOrders, ServiceStep DEF Run
    <2> QED
      BY <1>6, <2>1, <2>2 DEF Run
  <1>7. CASE ReadStatus(i)
    <2> DEFINE saga == orders[net[i].order].status
    <2>1. net[i].order \in DOMAIN orders
      BY <1>2, <1>7 DEF ReadStatus, InStage, AnswerTrue
    <2>2. saga \in Active \cup {"COMPLETED", "FAILED"}
      <3>1. orders[net[i].order] \in Order
        BY <1>2, <2>1, ElementOfSeq
      <3> QED
        BY <3>1 DEF Order
    <2> HIDE DEF saga
    <2>3. StatusFor(saga, net[i].created) \in {200, 201, 202, 422}
      BY <2>2 DEF StatusFor, Active
    <2>4. Answer(i, StatusFor(saga, net[i].created), saga)
      BY <1>7 DEF ReadStatus, saga
    <2>5. NetMoves
      BY <1>1, <1>7, <2>2, <2>3, <2>4, AnswersNet DEF ReadStatus, Statuses, Sagas
    <2> QED
      BY <1>3, <1>7, <2>5, SameOrders, ServiceStep DEF ReadStatus
  <1>8. CASE Fail(i)
    <2>1. NetMoves
      BY <1>1, <1>8, AnswersNet DEF Fail, Statuses, Sagas
    <2> QED
      BY <1>3, <1>8, <2>1, SameOrders, ServiceStep DEF Fail
  <1> QED
    BY <1>4, <1>5, <1>6, <1>7, <1>8 DEF Serve

LEMMA ProgressStep ==
  ASSUME IInv, NEW o \in DOMAIN orders, Progress(o)
  PROVE  IInv'
  <1>1. orders \in Seq(Order) /\ orders[o] \in Order
    BY ElementOfSeq DEF IInv, OrderKnown, TypeOK
  <1>2. PICK status \in Follows[orders[o].status] : orders' = [orders EXCEPT ![o].status = status]
    BY DEF Progress
  <1>3. status \in Active \cup {"COMPLETED", "FAILED"}
    BY <1>1, <1>2 DEF Follows, Order, Active
  <1> DEFINE order == [orders[o] EXCEPT !.status = status]
  <1>4. order \in Order /\ order.key = orders[o].key /\ order.content = orders[o].content
    BY <1>1, <1>3 DEF Order
  <1>5. orders' = [orders EXCEPT ![o] = order]
    BY <1>2
  <1> HIDE DEF order
  <1>6. orders' \in Seq(Order)
    BY <1>1, <1>4, <1>5, ExceptSeq
  <1>7. /\ DOMAIN orders' = DOMAIN orders
        /\ \A p \in DOMAIN orders : orders'[p] = IF p = o THEN order ELSE orders[p]
    BY <1>5
  <1>8. OrdersGrow
    BY <1>4, <1>6, <1>7 DEF OrdersGrow
  <1>9. UNCHANGED <<store, net, used, remembered, abandoned>>
    BY DEF Progress
  <1>10. NetMoves
    BY <1>7, <1>9 DEF NetMoves, IInv, OrderKnown, TypeOK, RequestOK
  <1> QED
    BY <1>8, <1>9, <1>10, ServiceStep

-----------------------------------------------------------------------------
(* What the browser does: a tab sends, and it lets go of what it sent.      *)

(* A tab sends a submission: s is what its store was, or a new one with a   *)
(* key that was never used.                                                 *)
LEMMA SendStep ==
  ASSUME IInv, NEW t \in Tabs, store[t].slot = 0, NEW s, Send(t, s), s \in Store,
         s.key \in Keys, s.content \in Contents, s.phase # "settled",
         UNCHANGED <<orders, remembered, abandoned>>,
         \/ s = store[t] /\ store[t].phase = "uncertain" /\ used' = used
         \/ store[t].phase = "idle" /\ s.key \notin used /\ used' = used \cup {s.key}
  PROVE  IInv'
  <1> DEFINE i == CHOOSE j \in FreeSlots : TRUE
             r == Sent(s.key, s.content)
             n == [s EXCEPT !.phase = "submitting", !.slot = i, !.mayRetry = FALSE]
  <1>1. i \in Slots /\ net[i] = Free
    BY DEF Send, FreeSlots
  <1>2. net' = [net EXCEPT ![i] = r] /\ store' = [store EXCEPT ![t] = n]
    BY DEF Send
  <1>3. /\ store \in [Tabs -> Store] /\ DOMAIN net = Slots /\ orders \in Seq(Order)
        /\ used \subseteq Keys /\ remembered \subseteq DOMAIN orders /\ abandoned \subseteq used
    BY DEF IInv, OrderKnown, TypeOK
  <1>4. i \in 1..MaxRequests /\ i # 0
    <2> HIDE DEF i
    <2> QED
      BY <1>1, ConstantsAssumption DEF Slots
  <1>5. /\ r \in Request /\ r.key = s.key /\ r.content = s.content /\ r.order = 0
        /\ r.stage = "sent" /\ r.status = 0
    BY DEF Sent, Request
  <1>6. r # Free /\ AnswerTrue(r)
    BY <1>5 DEF Free, AnswerTrue
  <1> HIDE DEF r
  <1>7. /\ n \in Store /\ n.key = s.key /\ n.content = s.content /\ n.slot = i
        /\ n.phase = "submitting"
    <2> DEFINE p == [s EXCEPT !.phase = "submitting"]
               q == [p EXCEPT !.slot = i]
               m == [q EXCEPT !.mayRetry = FALSE]
    <2> HIDE DEF i
    <2>1. p \in Store /\ p.key = s.key /\ p.content = s.content /\ p.phase = "submitting"
      BY DEF Store, Pending
    <2> HIDE DEF p
    <2>2. /\ q \in Store /\ q.key = p.key /\ q.content = p.content /\ q.phase = p.phase
          /\ q.slot = i
      BY <1>4, <2>1 DEF Store
    <2> HIDE DEF q
    <2>3. m \in Store
      <3>1. \A mayRetry \in BOOLEAN : [q EXCEPT !.mayRetry = mayRetry] \in Store
        BY <2>2 DEF Store
      <3> QED
        BY <3>1
    <2>4. m.key = q.key /\ m.content = q.content /\ m.phase = q.phase /\ m.slot = q.slot
      BY <2>2 DEF Store
    <2>5. m = n
      BY DEF m, n, p, q
    <2> QED
      BY <2>1, <2>2, <2>3, <2>4, <2>5
  <1> HIDE DEF i, n
  <1>8. DOMAIN net' = Slots /\ \A j \in Slots : net'[j] = IF j = i THEN r ELSE net[j]
    BY <1>2, <1>3
  <1>9. \A u \in Tabs : store'[u] = IF u = t THEN n ELSE store[u]
    BY <1>2, <1>3
  <1>10. \A u \in Tabs : store[u].slot # i
    BY <1>1, <1>4 DEF IInv, OrderKnown, TypeOK
  <1>11. used \subseteq used' /\ s.key \in used' /\ used' \subseteq Keys
    <2>1. CASE s = store[t] /\ store[t].phase = "uncertain" /\ used' = used
      <3>1. None \notin Keys
        BY ConstantsAssumption
      <3> QED
        BY <1>3, <2>1, <3>1 DEF IInv, KeysUsed
    <2> QED
      BY <1>3, <2>1
  <1>12. TypeOK'
    <2>1. store' \in [Tabs -> Store]
      BY <1>2, <1>3, <1>7
    <2>2. ASSUME NEW u \in Tabs
          PROVE  /\ store'[u].slot # 0 <=> store'[u].phase = "submitting"
                 /\ store'[u].slot # 0 => /\ net'[store'[u].slot] # Free
                                          /\ net'[store'[u].slot].key = store'[u].key
                                          /\ net'[store'[u].slot].content = store'[u].content
                 /\ store'[u].key = None <=> store'[u].phase = "idle"
      <3>1. CASE u = t
        <4>1. s.key # None
          BY ConstantsAssumption
        <4> QED
          BY <1>1, <1>4, <1>5, <1>6, <1>7, <1>8, <1>9, <3>1, <4>1
      <3>2. CASE u # t
        <4>1. store'[u] = store[u]
          BY <1>9, <3>2
        <4>2. /\ store[u].slot # 0 <=> store[u].phase = "submitting"
              /\ store[u].slot # 0 => /\ net[store[u].slot] # Free
                                      /\ net[store[u].slot].key = store[u].key
                                      /\ net[store[u].slot].content = store[u].content
              /\ store[u].key = None <=> store[u].phase = "idle"
          BY DEF IInv, OrderKnown, TypeOK
        <4>3. store[u].slot # 0 => store[u].slot \in Slots
          BY <1>3, ConstantsAssumption DEF Store, Slots
        <4>4. store[u].slot # 0 => net'[store[u].slot] = net[store[u].slot]
          BY <1>8, <1>10, <4>3
        <4> QED
          BY <4>1, <4>2, <4>4
      <3> QED
        BY <3>1, <3>2
    <2>3. ASSUME NEW u \in Tabs, NEW v \in Tabs, u # v, store'[u].slot = store'[v].slot
          PROVE  store'[u].slot = 0
      <3>1. store[u].slot = store[v].slot => store[u].slot = 0
        BY <2>3 DEF IInv, OrderKnown, TypeOK
      <3> QED
        BY <1>7, <1>9, <1>10, <2>3, <3>1
    <2>4. ASSUME NEW j \in Slots
          PROVE  RequestOK(net[j])'
      <3>1. RequestOK(net[j])
        BY DEF IInv, OrderKnown, TypeOK
      <3> QED
        BY <1>5, <1>8, <3>1 DEF RequestOK
    <2>5. abandoned \subseteq used'
      BY <1>3, <1>11
    <2> QED
      BY <1>3, <1>8, <1>11, <2>1, <2>2, <2>3, <2>4, <2>5 DEF TypeOK
  <1>13. \E of \in [Keys -> Contents \cup {None}] : OneContent(of)'
    <2>1. PICK of \in [Keys -> Contents \cup {None}] : OneContent(of)
      BY DEF IInv
    <2>2. CASE s = store[t] /\ store[t].phase = "uncertain" /\ used' = used
      <3>1. s.key # None
        BY ConstantsAssumption
      <3>2. s.content = of[s.key]
        BY <2>1, <2>2, <3>1 DEF OneContent
      <3>3. OneContent(of)'
        BY <1>5, <1>7, <1>8, <1>9, <2>1, <3>2 DEF OneContent
      <3> QED
        BY <3>3
    <2>3. CASE store[t].phase = "idle" /\ s.key \notin used /\ used' = used \cup {s.key}
      <3> DEFINE new == [of EXCEPT ![s.key] = s.content]
      <3>1. /\ new \in [Keys -> Contents \cup {None}]
            /\ \A key \in Keys : new[key] = IF key = s.key THEN s.content ELSE of[key]
        OBVIOUS
      <3> HIDE DEF new
      <3>2. \A key \in used : new[key] = of[key]
        BY <1>3, <2>3, <3>1
      <3>3. new[s.key] = s.content
        BY <3>1
      <3>4. \A u \in Tabs : store'[u].key # None => /\ store'[u].content = new[store'[u].key]
                                                    /\ store'[u].content \in Contents
        BY <1>7, <1>9, <2>1, <3>2, <3>3 DEF OneContent, IInv, KeysUsed
      <3>5. \A j \in Slots : net'[j] # Free => net'[j].content = new[net'[j].key]
        BY <1>5, <1>8, <2>1, <3>2, <3>3 DEF OneContent, IInv, KeysUsed
      <3>6. \A o \in DOMAIN orders' : orders'[o].content = new[orders'[o].key]
        BY <2>1, <3>2 DEF OneContent, IInv, KeysUsed
      <3>7. OneContent(new)'
        BY <3>4, <3>5, <3>6 DEF OneContent
      <3> QED
        BY <3>1, <3>7
    <2> QED
      BY <2>2, <2>3
  <1>14. KeysUsed'
    BY <1>5, <1>7, <1>8, <1>9, <1>11 DEF IInv, KeysUsed
  <1>15. s.key \in used => s = store[t]
    OBVIOUS
  <1>16. ASSUME NEW key, \E u \in Tabs : store[u].phase \in Pending /\ store[u].key = key
         PROVE  \E u \in Tabs : store'[u].phase \in Pending /\ store'[u].key = key
    <2>1. PICK u \in Tabs : store[u].phase \in Pending /\ store[u].key = key
      BY <1>16
    <2>2. CASE u = t
      BY <1>7, <1>9, <2>1, <2>2 DEF Pending
    <2>3. CASE u # t
      BY <1>9, <2>1, <2>3
    <2> QED
      BY <2>2, <2>3
  <1>17. ASSUME NEW j \in Slots, net'[j] # Free
         PROVE  /\ AnswerTrue(net'[j])
                /\ net'[j].content \in Rejected \/ Known(net[j].key)'
    <2>1. CASE j = i
      <3>1. Known(net[j].key)'
        BY <1>5, <1>7, <1>8, <1>9, <2>1 DEF Known, Pending
      <3> QED
        BY <1>6, <1>8, <2>1, <3>1
    <2>2. CASE j # i
      <3>1. net'[j] = net[j]
        BY <1>8, <2>2
      <3>2. AnswerTrue(net[j]) /\ (net[j].content \in Rejected \/ Known(net[j].key))
        BY <1>17, <3>1 DEF IInv
      <3>3. ASSUME Known(net[j].key) PROVE Known(net[j].key)'
        BY <1>16, <3>1, <3>3 DEF Known
      <3> QED
        BY <3>1, <3>2, <3>3
    <2> QED
      BY <2>1, <2>2
  <1>18. OrderKnown'
    BY <1>12, <1>16 DEF IInv, OrderKnown
  <1>19. \A u \in Tabs : store'[u].phase = "settled" /\ store'[u].order = 0 =>
                           store'[u].content \in Rejected
    BY <1>7, <1>9 DEF IInv
  <1>20. OneOrderPerCheckout' /\ \A o \in DOMAIN orders' : orders'[o].content \notin Rejected
    BY DEF IInv, OneOrderPerCheckout
  <1> QED
    BY <1>13, <1>14, <1>17, <1>18, <1>19, <1>20 DEF IInv

(* A tab whose request, if there is one, it no longer waits for: s is its   *)
(* store then, and the answer, if there is one, is gone.                    *)
LetsGo(t, s) ==
  /\ store' = [store EXCEPT ![t] = s]
  /\ s \in Store /\ s.slot = 0 /\ s.phase # "submitting"
  /\ s.key = None <=> s.phase = "idle"
  /\ s.key # None => s.key = store[t].key /\ s.content = store[t].content
  /\ s.phase = "settled" /\ s.order = 0 => s.content \in Rejected
  /\ DOMAIN net' = Slots
  /\ \A i \in Slots : net'[i] = net[i] \/ (i = store[t].slot /\ net'[i] = Free)
  /\ UNCHANGED <<orders, used>>

(* What the customer knows of a submission that the tab lets go of.         *)
Told(t, s) ==
  /\ remembered \subseteq remembered' /\ remembered' \subseteq DOMAIN orders
  /\ abandoned \subseteq abandoned' /\ abandoned' \subseteq used
  /\ store[t].phase \in Pending =>
       \/ s.phase \in Pending /\ s.key = store[t].key
       \/ store[t].key \in abandoned'
       \/ store[t].content \in Rejected
       \/ \E o \in remembered' : orders[o].key = store[t].key

LEMMA LetGoStep ==
  ASSUME IInv, NEW t \in Tabs, NEW s, LetsGo(t, s), Told(t, s)
  PROVE  IInv'
  <1>1. /\ store \in [Tabs -> Store] /\ DOMAIN net = Slots /\ orders \in Seq(Order)
        /\ used \subseteq Keys
    BY DEF IInv, OrderKnown, TypeOK
  <1>2. \A u \in Tabs : store'[u] = IF u = t THEN s ELSE store[u]
    BY <1>1 DEF LetsGo
  <1>3. \A i \in Slots : net'[i] # Free => net'[i] = net[i]
    BY DEF LetsGo
  <1>4. TypeOK'
    <2>1. store' \in [Tabs -> Store]
      BY <1>1 DEF LetsGo
    <2>2. ASSUME NEW u \in Tabs
          PROVE  /\ store'[u].slot # 0 <=> store'[u].phase = "submitting"
                 /\ store'[u].slot # 0 => /\ net'[store'[u].slot] # Free
                                          /\ net'[store'[u].slot].key = store'[u].key
                                          /\ net'[store'[u].slot].content = store'[u].content
                 /\ store'[u].key = None <=> store'[u].phase = "idle"
      <3>1. CASE u = t
        BY <1>2, <3>1 DEF LetsGo
      <3>2. CASE u # t
        <4>1. store'[u] = store[u]
          BY <1>2, <3>2
        <4>2. /\ store[u].slot # 0 <=> store[u].phase = "submitting"
              /\ store[u].slot # 0 => /\ net[store[u].slot] # Free
                                      /\ net[store[u].slot].key = store[u].key
                                      /\ net[store[u].slot].content = store[u].content
              /\ store[u].key = None <=> store[u].phase = "idle"
          BY DEF IInv, OrderKnown, TypeOK
        <4>3. store[u].slot # 0 => store[u].slot \in Slots
          BY <1>1, ConstantsAssumption DEF Store, Slots
        <4>4. store[u].slot # 0 => store[u].slot # store[t].slot
          BY <3>2 DEF IInv, OrderKnown, TypeOK
        <4>5. store[u].slot # 0 => net'[store[u].slot] = net[store[u].slot]
          BY <4>3, <4>4 DEF LetsGo
        <4> QED
          BY <4>1, <4>2, <4>5
      <3> QED
        BY <3>1, <3>2
    <2>3. ASSUME NEW u \in Tabs, NEW v \in Tabs, u # v, store'[u].slot = store'[v].slot
          PROVE  store'[u].slot = 0
      <3>1. store[u].slot = store[v].slot => store[u].slot = 0
        BY <2>3 DEF IInv, OrderKnown, TypeOK
      <3> QED
        BY <1>2, <2>3, <3>1 DEF LetsGo
    <2>4. ASSUME NEW i \in Slots
          PROVE  RequestOK(net[i])'
      <3>1. RequestOK(net[i])
        BY DEF IInv, OrderKnown, TypeOK
      <3> QED
        BY <1>3, <3>1 DEF RequestOK, LetsGo
    <2> QED
      BY <1>1, <2>1, <2>2, <2>3, <2>4 DEF TypeOK, LetsGo, Told
  <1>5. PICK of \in [Keys -> Contents \cup {None}] : OneContent(of)
    BY DEF IInv
  <1>6. OneContent(of)'
    <2>1. \A u \in Tabs : store'[u].key # None => /\ store'[u].content = of[store'[u].key]
                                                  /\ store'[u].content \in Contents
      BY <1>2, <1>5 DEF OneContent, LetsGo
    <2>2. \A i \in Slots : net'[i] # Free => net'[i].content = of[net'[i].key]
      BY <1>3, <1>5 DEF OneContent
    <2> QED
      BY <1>5, <2>1, <2>2 DEF OneContent, LetsGo
  <1>7. KeysUsed'
    BY <1>2, <1>3 DEF IInv, KeysUsed, LetsGo
  <1>8. store[t].phase \in Pending => store[t].key # None
    BY DEF IInv, OrderKnown, TypeOK, Pending
  <1>9. ASSUME NEW key, Known(key), key = store[t].key => store[t].content \notin Rejected
        PROVE  Known(key)'
    <2>1. CASE \E u \in Tabs : u # t /\ store[u].phase \in Pending /\ store[u].key = key
      BY <1>2, <2>1 DEF Known
    <2>2. CASE store[t].phase \in Pending /\ store[t].key = key
      BY <1>2, <1>9, <2>2 DEF Known, LetsGo, Told
    <2>3. CASE key \in abandoned \/ \E o \in remembered : orders[o].key = key
      BY <2>3 DEF Known, LetsGo, Told
    <2> QED
      BY <1>9, <2>1, <2>2, <2>3 DEF Known
  <1>10. ASSUME NEW i \in Slots, net'[i] # Free
         PROVE  /\ AnswerTrue(net'[i])
                /\ net'[i].content \in Rejected \/ Known(net[i].key)'
    <2>1. /\ net'[i] = net[i] /\ AnswerTrue(net[i])
          /\ net[i].content \in Rejected \/ Known(net[i].key)
      BY <1>3, <1>10 DEF IInv
    <2>2. net[i].key = store[t].key /\ store[t].key # None => net[i].content = store[t].content
      BY <1>5, <1>10, <2>1 DEF OneContent
    <2>3. net[i].key # None
      BY <1>10, <2>1, ConstantsAssumption DEF IInv, OrderKnown, TypeOK, RequestOK, Request
    <2> QED
      BY <1>9, <2>1, <2>2, <2>3
  <1>11. ASSUME NEW o \in DOMAIN orders
         PROVE  \/ o \in remembered'
                \/ orders[o].key \in abandoned'
                \/ \E u \in Tabs : store'[u].phase \in Pending /\ store'[u].key = orders[o].key
    <2>1. Known(orders[o].key)
      BY DEF IInv, OrderKnown, Known
    <2>2. orders[o].content \notin Rejected /\ orders[o].key # None
      <3>1. orders[o] \in Order
        BY <1>1, ElementOfSeq
      <3> QED
        BY <3>1, ConstantsAssumption DEF IInv, Order
    <2>3. orders[o].key = store[t].key => orders[o].content = store[t].content
      BY <1>5, <2>2 DEF OneContent
    <2>4. Known(orders[o].key)'
      BY <1>9, <2>1, <2>2, <2>3 DEF LetsGo
    <2>5. \A p \in remembered' : orders[p].key = orders[o].key => p = o
      BY DEF Told, IInv, OneOrderPerCheckout
    <2> QED
      BY <2>4, <2>5 DEF Known, LetsGo
  <1>12. OrderKnown'
    BY <1>4, <1>11 DEF OrderKnown, LetsGo
  <1>13. \A u \in Tabs : store'[u].phase = "settled" /\ store'[u].order = 0 =>
                           store'[u].content \in Rejected
    BY <1>2 DEF IInv, LetsGo
  <1>14. OneOrderPerCheckout' /\ \A o \in DOMAIN orders' : orders'[o].content \notin Rejected
    BY DEF IInv, OneOrderPerCheckout, LetsGo
  <1> QED
    BY <1>6, <1>7, <1>10, <1>12, <1>13, <1>14 DEF IInv

(* What a tab's store is, as far as the steps below need it.                *)
LEMMA StoreFacts ==
  ASSUME IInv, NEW t \in Tabs
  PROVE  /\ store[t] \in Store /\ DOMAIN net = Slots
         /\ remembered \subseteq DOMAIN orders /\ abandoned \subseteq used /\ used \subseteq Keys
         /\ store[t].slot # 0 <=> store[t].phase = "submitting"
         /\ store[t].key = None <=> store[t].phase = "idle"
         /\ store[t].key # None => /\ store[t].key \in used
                                   /\ store[t].content \in Contents
         /\ store[t].slot # 0 => store[t].slot \in Slots
  <1>1. /\ store[t] \in Store /\ DOMAIN net = Slots
        /\ remembered \subseteq DOMAIN orders /\ abandoned \subseteq used /\ used \subseteq Keys
        /\ store[t].slot # 0 <=> store[t].phase = "submitting"
        /\ store[t].key = None <=> store[t].phase = "idle"
    BY DEF IInv, OrderKnown, TypeOK
  <1>2. store[t].key # None => store[t].key \in used /\ store[t].content \in Contents
    BY DEF IInv, KeysUsed, OneContent
  <1>3. store[t].slot # 0 => store[t].slot \in Slots
    BY <1>1, ConstantsAssumption DEF Store, Slots
  <1> QED
    BY <1>1, <1>2, <1>3

LEMMA NewStoreFacts ==
  /\ NewStore \in Store /\ NewStore.slot = 0 /\ NewStore.phase = "idle"
  /\ NewStore.key = None /\ NewStore.order = 0
  <1>1. 0 \in 0..MaxRequests
    BY ConstantsAssumption
  <1> QED
    BY <1>1 DEF NewStore, Store

LEMMA BeginStep ==
  ASSUME IInv, NEW t \in Tabs, NEW key \in Keys, NEW content \in Contents,
         Begin(t, key, content)
  PROVE  IInv'
  <1> DEFINE s == [NewStore EXCEPT !.key = key, !.content = content]
  <1>1. NewStore \in Store /\ NewStore.phase = "idle"
    BY NewStoreFacts
  <1>2. s \in Store /\ s.key = key /\ s.content = content /\ s.phase = "idle"
    <2> DEFINE p == [NewStore EXCEPT !.key = key]
               q == [p EXCEPT !.content = content]
    <2>1. p \in Store /\ p.key = key /\ p.phase = "idle"
      BY <1>1 DEF Store
    <2> HIDE DEF p
    <2>2. q \in Store /\ q.key = key /\ q.content = content /\ q.phase = "idle"
      BY <2>1 DEF Store
    <2> HIDE DEF q
    <2>3. s = q
      BY DEF q, p
    <2> HIDE DEF s
    <2> QED
      BY <2>2, <2>3
  <1>3. Send(t, s) /\ UNCHANGED <<orders, remembered, abandoned>>
    BY DEF Begin
  <1> HIDE DEF s
  <1>4. store[t].phase = "idle" /\ s.key \notin used /\ used' = used \cup {s.key}
    BY <1>2 DEF Begin
  <1>5. store[t].slot = 0
    BY <1>4, StoreFacts
  <1> QED
    BY <1>2, <1>3, <1>4, <1>5, SendStep

LEMMA RetryStep ==
  ASSUME IInv, NEW t \in Tabs, Retry(t)
  PROVE  IInv'
  <1>1. store[t].phase = "uncertain" /\ Send(t, store[t])
        /\ UNCHANGED <<orders, used, remembered, abandoned>>
    BY DEF Retry
  <1>2. /\ store[t].slot = 0 /\ store[t] \in Store
        /\ store[t].key \in Keys /\ store[t].content \in Contents
    BY <1>1, StoreFacts
  <1> QED
    BY <1>1, <1>2, SendStep

(* The tab's store, once it is uncertain, settled or new.                   *)
LEMMA UncertainStore ==
  ASSUME IInv, NEW t \in Tabs, NEW mayRetry \in BOOLEAN,
         store[t].phase \in Pending
  PROVE  LET s == [store[t] EXCEPT !.phase = "uncertain", !.slot = 0, !.mayRetry = mayRetry]
         IN /\ s \in Store /\ s.key = store[t].key /\ s.content = store[t].content
            /\ s.phase = "uncertain" /\ s.slot = 0
  <1> DEFINE p == [store[t] EXCEPT !.phase = "uncertain"]
             q == [p EXCEPT !.slot = 0]
             s == [q EXCEPT !.mayRetry = mayRetry]
  <1>1. store[t] \in Store /\ 0 \in 0..MaxRequests
    BY StoreFacts, ConstantsAssumption
  <1>2. /\ p \in Store /\ p.key = store[t].key /\ p.content = store[t].content
        /\ p.phase = "uncertain"
    BY <1>1 DEF Store, Pending
  <1> HIDE DEF p
  <1>3. /\ q \in Store /\ q.key = p.key /\ q.content = p.content /\ q.phase = p.phase
        /\ q.slot = 0
    BY <1>1, <1>2 DEF Store
  <1> HIDE DEF q
  <1>4. s \in Store
    BY <1>3 DEF Store
  <1>5. s.key = q.key /\ s.content = q.content /\ s.phase = q.phase /\ s.slot = q.slot
    BY <1>3 DEF Store
  <1> HIDE DEF s
  <1>6. s = [store[t] EXCEPT !.phase = "uncertain", !.slot = 0, !.mayRetry = mayRetry]
    BY DEF s, q, p
  <1> QED
    BY <1>2, <1>3, <1>4, <1>5, <1>6

SettledStatuses == {200, 201, 202, 400, 409, 422}

Settled(s, order, status) ==
  [s EXCEPT !.phase = "settled", !.slot = 0, !.order = order, !.status = status]

LEMMA SettledStore ==
  ASSUME IInv, NEW t \in Tabs, NEW order \in Nat, NEW status \in SettledStatuses
  PROVE  LET s == Settled(store[t], order, status)
         IN /\ s \in Store /\ s.key = store[t].key /\ s.content = store[t].content
            /\ s.phase = "settled" /\ s.slot = 0 /\ s.order = order
  <1> DEFINE p == [store[t] EXCEPT !.phase = "settled"]
             q == [p EXCEPT !.slot = 0]
             n == [q EXCEPT !.order = order]
             s == [n EXCEPT !.status = status]
  <1>1. store[t] \in Store /\ 0 \in 0..MaxRequests
    BY StoreFacts, ConstantsAssumption
  <1>2. /\ p \in Store /\ p.key = store[t].key /\ p.content = store[t].content
        /\ p.phase = "settled"
    BY <1>1 DEF Store, Pending
  <1> HIDE DEF p
  <1>3. /\ q \in Store /\ q.key = p.key /\ q.content = p.content /\ q.phase = p.phase
        /\ q.slot = 0
    BY <1>1, <1>2 DEF Store
  <1> HIDE DEF q
  <1>4. /\ n \in Store /\ n.key = q.key /\ n.content = q.content /\ n.phase = q.phase
        /\ n.slot = q.slot /\ n.order = order
    BY <1>3 DEF Store
  <1> HIDE DEF n
  <1>5. s \in Store
    BY <1>4 DEF Store, SettledStatuses
  <1>6. /\ s.key = n.key /\ s.content = n.content /\ s.phase = n.phase /\ s.slot = n.slot
        /\ s.order = n.order
    BY <1>4 DEF Store
  <1> HIDE DEF s
  <1>7. s = Settled(store[t], order, status)
    BY DEF s, n, q, p, Settled
  <1> QED
    BY <1>2, <1>3, <1>4, <1>5, <1>6, <1>7

LEMMA SettleIsSettled ==
  ASSUME NEW t \in Tabs, DOMAIN store = Tabs, NEW order, NEW status, Settle(t, order, status)
  PROVE  store' = [store EXCEPT ![t] = Settled(store[t], order, status)]
  <1> DEFINE a == [store EXCEPT ![t].phase = "settled"]
             b == [a EXCEPT ![t].slot = 0]
             c == [b EXCEPT ![t].order = order]
             d == [c EXCEPT ![t].status = status]
             p == [store[t] EXCEPT !.phase = "settled"]
             q == [p EXCEPT !.slot = 0]
             n == [q EXCEPT !.order = order]
             s == [n EXCEPT !.status = status]
  <1>1. store' = d
    BY DEF Settle
  <1>2. s = Settled(store[t], order, status)
    BY DEF Settled
  <1>3. a = [store EXCEPT ![t] = p]
    OBVIOUS
  <1> HIDE DEF a, p
  <1>4. b = [store EXCEPT ![t] = q]
    BY <1>3
  <1> HIDE DEF b, q
  <1>5. c = [store EXCEPT ![t] = n]
    BY <1>4
  <1> HIDE DEF c, n
  <1>6. d = [store EXCEPT ![t] = s]
    BY <1>5
  <1> QED
    BY <1>1, <1>2, <1>6

LEMMA ForgetFacts ==
  ASSUME DOMAIN net = Slots, NEW i, i # 0 => i \in Slots
  PROVE  /\ DOMAIN Forget(i) = Slots
         /\ \A j \in Slots : Forget(i)[j] = net[j] \/ (j = i /\ Forget(i)[j] = Free)
  <1>1. CASE i # 0 /\ net[i].stage = "answered"
    <2>1. Forget(i) = [net EXCEPT ![i] = Free]
      BY <1>1 DEF Forget
    <2> QED
      BY <2>1
  <1>2. CASE ~(i # 0 /\ net[i].stage = "answered")
    <2>1. Forget(i) = net
      BY <1>2 DEF Forget
    <2> QED
      BY <2>1
  <1> QED
    BY <1>1, <1>2

LEMMA UncertainStep ==
  ASSUME IInv, NEW t \in Tabs, store[t].phase \in Pending, NEW mayRetry \in BOOLEAN,
         MarkUncertain(t, mayRetry),
         DOMAIN net' = Slots,
         \A i \in Slots : net'[i] = net[i] \/ (i = store[t].slot /\ net'[i] = Free),
         UNCHANGED <<orders, used, remembered, abandoned>>
  PROVE  IInv'
  <1> DEFINE s == [store[t] EXCEPT !.phase = "uncertain", !.slot = 0, !.mayRetry = mayRetry]
  <1>1. /\ s \in Store /\ s.key = store[t].key /\ s.content = store[t].content
        /\ s.phase = "uncertain" /\ s.slot = 0
    BY UncertainStore
  <1>2. store' = [store EXCEPT ![t] = s]
    BY DEF MarkUncertain
  <1> HIDE DEF s
  <1>3. store[t].key # None
    BY StoreFacts DEF Pending
  <1>4. LetsGo(t, s)
    BY <1>1, <1>2, <1>3 DEF LetsGo
  <1>5. Told(t, s)
    BY <1>1, StoreFacts DEF Told, Pending
  <1> QED
    BY <1>4, <1>5, LetGoStep

LEMMA SettleStep ==
  ASSUME IInv, NEW t \in Tabs, store[t].phase = "submitting",
         NEW order \in Nat, NEW status \in SettledStatuses, Settle(t, order, status),
         \/ order = 0 /\ store[t].content \in Rejected
         \/ order \in DOMAIN orders /\ orders[order].key = store[t].key,
         DOMAIN net' = Slots,
         \A i \in Slots : net'[i] = net[i] \/ (i = store[t].slot /\ net'[i] = Free),
         UNCHANGED <<orders, used, abandoned>>
  PROVE  IInv'
  <1> DEFINE s == Settled(store[t], order, status)
  <1>1. /\ s \in Store /\ s.key = store[t].key /\ s.content = store[t].content
        /\ s.phase = "settled" /\ s.slot = 0 /\ s.order = order
    BY SettledStore
  <1>2. store' = [store EXCEPT ![t] = s] /\ remembered' = remembered \cup ({order} \ {0})
    <2>1. DOMAIN store = Tabs
      BY DEF IInv, OrderKnown, TypeOK
    <2>2. remembered' = remembered \cup ({order} \ {0})
      BY DEF Settle
    <2> QED
      BY <2>1, <2>2, SettleIsSettled
  <1> HIDE DEF s
  <1>3. store[t].key # None
    BY StoreFacts
  <1>4. order # 0 => order \in DOMAIN orders /\ orders[order].key = store[t].key
    OBVIOUS
  <1>5. 0 \notin DOMAIN orders
    BY LenProperties DEF IInv, OrderKnown, TypeOK
  <1>6. order = 0 => store[t].content \in Rejected
    BY <1>5
  <1>7. LetsGo(t, s)
    BY <1>1, <1>2, <1>3, <1>6 DEF LetsGo
  <1>8. Told(t, s)
    BY <1>2, <1>4, <1>6, StoreFacts DEF Told
  <1> QED
    BY <1>7, <1>8, LetGoStep

LEMMA ReceiveStep ==
  ASSUME IInv, NEW t \in Tabs, Receive(t)
  PROVE  IInv'
  <1> DEFINE i == store[t].slot
             r == net[i]
  <1>1. /\ i # 0 /\ r.stage = "answered" /\ net' = [net EXCEPT ![i] = Free]
        /\ UNCHANGED <<orders, used, abandoned>>
    BY DEF Receive
  <1>2. store[t].phase = "submitting" /\ i \in Slots /\ DOMAIN net = Slots
    BY <1>1, StoreFacts
  <1>3. r # Free /\ r.key = store[t].key /\ r.content = store[t].content
    BY <1>1 DEF IInv, OrderKnown, TypeOK
  <1>4. /\ r \in Request /\ AnswerTrue(r)
        /\ r.order # 0 => r.order \in DOMAIN orders
    BY <1>2, <1>3 DEF IInv, OrderKnown, TypeOK, RequestOK
  <1>5. /\ DOMAIN net' = Slots
        /\ \A j \in Slots : net'[j] = net[j] \/ (j = i /\ net'[j] = Free)
    BY <1>1, <1>2
  <1>6. store[t].phase \in Pending
    BY <1>2 DEF Pending
  <1>7. CASE Verified(r, store[t].key, store[t].content) /\ Settle(t, r.order, r.status)
    <2>1. /\ r.order \in DOMAIN orders /\ orders[r.order].key = store[t].key
          /\ r.status \in SettledStatuses /\ r.order \in Nat
      BY <1>4, <1>7 DEF Verified, Request, SettledStatuses
    <2>2. \A order \in Nat, status \in SettledStatuses :
            /\ Settle(t, order, status)
            /\ order \in DOMAIN orders /\ orders[order].key = store[t].key
            => IInv'
      BY <1>1, <1>2, <1>5, SettleStep
    <2> QED
      BY <1>7, <2>1, <2>2
  <1>8. CASE r.status \in {400, 409} /\ Settle(t, 0, r.status)
    <2>1. r.status \in SettledStatuses /\ store[t].content \in Rejected
      BY <1>3, <1>4, <1>8 DEF AnswerTrue, SettledStatuses
    <2>2. \A order \in Nat, status \in SettledStatuses :
            Settle(t, order, status) /\ order = 0 => IInv'
      BY <1>1, <1>2, <1>5, <2>1, SettleStep
    <2> QED
      BY <1>8, <2>1, <2>2
  <1>9. CASE MarkUncertain(t, FALSE) /\ UNCHANGED remembered
    <2>1. \A mayRetry \in BOOLEAN : MarkUncertain(t, mayRetry) => IInv'
      BY <1>1, <1>2, <1>5, <1>6, <1>9, UncertainStep
    <2> QED
      BY <1>9, <2>1
  <1> QED
    BY <1>7, <1>8, <1>9 DEF Receive

LEMMA TabStep ==
  ASSUME IInv, NEW t \in Tabs, PassRetryAt(t) \/ GiveUp(t) \/ Reset(t) \/ Reload(t)
  PROVE  IInv'
  <1>1. /\ store[t] \in Store /\ store \in [Tabs -> Store] /\ DOMAIN net = Slots
        /\ remembered \subseteq DOMAIN orders /\ abandoned \subseteq used
        /\ store[t].slot # 0 <=> store[t].phase = "submitting"
        /\ store[t].key = None <=> store[t].phase = "idle"
        /\ store[t].key # None => store[t].key \in used
        /\ store[t].slot # 0 => store[t].slot \in Slots
    BY StoreFacts DEF IInv, OrderKnown, TypeOK
  <1>2. CASE PassRetryAt(t)
    <2>1. /\ store[t].phase = "uncertain" /\ store' = [store EXCEPT ![t].mayRetry = TRUE]
          /\ UNCHANGED <<net, orders, used, remembered, abandoned>>
      BY <1>2 DEF PassRetryAt
    <2> DEFINE s == [store[t] EXCEPT !.mayRetry = TRUE]
    <2>2. s \in Store
      <3>1. \A mayRetry \in BOOLEAN : [store[t] EXCEPT !.mayRetry = mayRetry] \in Store
        BY <1>1 DEF Store
      <3> QED
        BY <3>1
    <2>3. /\ s.key = store[t].key /\ s.content = store[t].content
          /\ s.phase = store[t].phase /\ s.slot = store[t].slot
      BY <1>1 DEF Store
    <2>4. store' = [store EXCEPT ![t] = s]
      BY <2>1
    <2> HIDE DEF s
    <2>5. LetsGo(t, s)
      BY <1>1, <2>1, <2>2, <2>3, <2>4 DEF LetsGo
    <2>6. Told(t, s)
      BY <1>1, <2>1, <2>3 DEF Told
    <2> QED
      BY <2>5, <2>6, LetGoStep
  <1>3. CASE GiveUp(t)
    <2>1. /\ store[t].phase = "submitting" /\ net' = Forget(store[t].slot)
          /\ UNCHANGED <<orders, used, remembered, abandoned>>
      BY <1>3 DEF GiveUp
    <2>2. PICK mayRetry \in BOOLEAN : MarkUncertain(t, mayRetry)
      BY <1>3 DEF GiveUp
    <2>3. /\ DOMAIN net' = Slots
          /\ \A i \in Slots : net'[i] = net[i] \/ (i = store[t].slot /\ net'[i] = Free)
      BY <1>1, <2>1, ForgetFacts
    <2>4. store[t].phase \in Pending
      BY <2>1 DEF Pending
    <2> QED
      BY <1>1, <2>1, <2>2, <2>3, <2>4, UncertainStep
  <1>4. CASE Reset(t)
    <2>1. /\ store[t].phase \notin Pending /\ store' = [store EXCEPT ![t] = NewStore]
          /\ UNCHANGED <<net, orders, used, remembered, abandoned>>
      BY <1>4 DEF Reset, Resettable
    <2>2. LetsGo(t, NewStore)
      BY <1>1, <2>1, NewStoreFacts DEF LetsGo
    <2>3. Told(t, NewStore)
      BY <1>1, <2>1 DEF Told
    <2> QED
      BY <2>2, <2>3, LetGoStep
  <1>5. CASE Reload(t)
    <2>1. /\ store' = [store EXCEPT ![t] = NewStore] /\ net' = Forget(store[t].slot)
          /\ UNCHANGED <<orders, used, remembered>>
          /\ abandoned' = abandoned \cup (IF store[t].phase \in Pending THEN {store[t].key} ELSE {})
      BY <1>5 DEF Reload
    <2>2. /\ DOMAIN net' = Slots
          /\ \A i \in Slots : net'[i] = net[i] \/ (i = store[t].slot /\ net'[i] = Free)
      BY <1>1, <2>1, ForgetFacts
    <2>3. LetsGo(t, NewStore)
      BY <2>1, <2>2, NewStoreFacts DEF LetsGo
    <2>4. store[t].phase \in Pending => store[t].key \in used
      BY <1>1 DEF Pending
    <2>5. Told(t, NewStore)
      BY <1>1, <2>1, <2>4 DEF Told
    <2> QED
      BY <2>3, <2>5, LetGoStep
  <1> QED
    BY <1>2, <1>3, <1>4, <1>5

-----------------------------------------------------------------------------
(* The theorems.                                                           *)

LEMMA NextIInv ==
  ASSUME IInv, [Next]_vars
  PROVE  IInv'
  <1>1. CASE UNCHANGED vars
    BY <1>1 DEF vars, IInv, OrderKnown, TypeOK, OneOrderPerCheckout, OneContent, KeysUsed,
                AnswerTrue, Known, RequestOK
  <1>2. ASSUME NEW t \in Tabs, NEW key \in Keys, NEW content \in Contents, Begin(t, key, content)
        PROVE  IInv'
    BY <1>2, BeginStep
  <1>3. ASSUME NEW t \in Tabs,
               PassRetryAt(t) \/ Retry(t) \/ Receive(t) \/ GiveUp(t) \/ Reset(t) \/ Reload(t)
        PROVE  IInv'
    BY <1>3, TabStep, RetryStep, ReceiveStep
  <1>4. ASSUME NEW i \in Slots, Serve(i) \/ Fail(i)
        PROVE  IInv'
    BY <1>4, ServeStep
  <1>5. ASSUME NEW o \in DOMAIN orders, Progress(o)
        PROVE  IInv'
    BY <1>5, ProgressStep
  <1> QED
    BY <1>1, <1>2, <1>3, <1>4, <1>5 DEF Next

LEMMA Invariance == Spec => []IInv
  BY InitIInv, NextIInv, PTL DEF Spec

(* However often a checkout is sent, and whichever of its requests are      *)
(* late, POST /orders makes one order of it.                                *)
THEOREM OneOrder == Spec => []OneOrderPerCheckout
  <1>1. IInv => OneOrderPerCheckout
    BY DEF IInv
  <1> QED
    BY <1>1, Invariance, PTL

(* After a 400 or a 409, which let the customer start afresh, there is no   *)
(* order under the key: only content that the service refuses is answered   *)
(* so, whatever else is under way under that key.                           *)
THEOREM RejectionIsTrue == Spec => []RejectionTrue
  <1>1. ASSUME IInv PROVE RejectionTrue
    <2> SUFFICES ASSUME NEW t \in Tabs, store[t].phase = "settled", store[t].order = 0,
                        NEW o \in DOMAIN orders, orders[o].key = store[t].key
                 PROVE  FALSE
      BY DEF RejectionTrue
    <2>1. store[t].content \in Rejected /\ orders[o].content \notin Rejected
      BY <1>1 DEF IInv
    <2>2. store[t].key # None
      BY <1>1, StoreFacts
    <2>3. store[t].content = orders[o].content
      BY <1>1, <2>2 DEF IInv, OneContent
    <2> QED
      BY <2>1, <2>3
  <1> QED
    BY <1>1, Invariance, PTL

(* No order goes unnoticed: the customer was shown it, the tab still keeps  *)
(* the submission, or the tab was reloaded against its warning.  The state  *)
(* is typed, and a tab waits for a request of its own submission.           *)
THEOREM OrdersAreKnown == Spec => []OrderKnown
  <1>1. IInv => OrderKnown
    BY DEF IInv
  <1> QED
    BY <1>1, Invariance, PTL
=============================================================================
