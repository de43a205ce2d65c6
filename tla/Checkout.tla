------------------------------ MODULE Checkout ------------------------------
(***************************************************************************)
(* A customer's checkout, from the browser to the orders table: the        *)
(* checkout store and submitCheckout() (apps/web/src), the proxy that      *)
(* forwards POST /api/orders, and POST /orders of the orchestrator with    *)
(* OrderService.accept, BrokerOrderService.run and status.                 *)
(*                                                                         *)
(* A request is accepted, run and answered in transactions of their own;   *)
(* any of the parties may fail or give up between two of them, and a       *)
(* request whose sender gave up goes on.  The saga that an order starts is *)
(* module Orchestrator; here it is only the status that the answer shows.  *)
(***************************************************************************)
EXTENDS Naturals, Sequences

CONSTANTS
  Tabs,        \* browser tabs, one checkout store each
  Keys,        \* the idempotency keys that makeKey() returns, each once
  Contents,    \* what an order may be for
  Transfers,   \* contents with payment method BANK_TRANSFER; the others are COD
  Rejected,    \* contents that the browser's checks pass and the server's do not
  MaxRequests  \* bound of the model: requests under way at a time

None == "none"

ASSUME ConstantsAssumption ==
  /\ Transfers \subseteq Contents
  /\ Rejected \subseteq Contents
  /\ None \notin Keys \cup Contents
  /\ MaxRequests \in Nat \ {0}

VARIABLES
  store,       \* tab -> its checkout store
  net,         \* slot -> the request that is under way in it, or Free
  orders,      \* the orders, oldest first
  used,        \* keys that were generated
  remembered,  \* orders that a customer was shown (history)
  abandoned    \* keys of submissions that a reload cut off (history)

vars == <<store, net, orders, used, remembered, abandoned>>

-----------------------------------------------------------------------------
(* The store, requests and orders.                                         *)

Pending == {"submitting", "uncertain"}

(* `request` is the key with the frozen content; `slot` is where the tab's  *)
(* request is, 0 unless submitting; `order` and `status` are the receipt.   *)
Store ==
  [phase : Pending \cup {"idle", "settled"}, key : Keys \cup {None},
   content : Contents \cup {None}, slot : 0..MaxRequests, mayRetry : BOOLEAN,
   order : Nat, status : {0, 200, 201, 202, 400, 409, 422}]

NewStore ==
  [phase |-> "idle", key |-> None, content |-> None, slot |-> 0, mayRetry |-> FALSE,
   order |-> 0, status |-> 0]

Active == {"PENDING_PAYMENT", "IN_PROGRESS", "COMPENSATING"}
Order == [key : Keys, content : Contents, status : Active \cup {"COMPLETED", "FAILED"}]

(* `saga` is the status of the order that the answer shows.                 *)
Request ==
  [stage : {"sent", "accepted", "ran", "answered"}, key : Keys, content : Contents,
   order : Nat, created : BOOLEAN, status : {0, 200, 201, 202, 400, 409, 422, 503},
   saga : Active \cup {"COMPLETED", "FAILED", None}]

Free == [stage |-> "free"]
Slots == 1..MaxRequests
FreeSlots == {i \in Slots : net[i] = Free}
Awaited(i) == \E t \in Tabs : store[t].slot = i

Sent(key, content) ==
  [stage |-> "sent", key |-> key, content |-> content, order |-> 0, created |-> FALSE,
   status |-> 0, saga |-> None]

Init ==
  /\ store = [t \in Tabs |-> NewStore]
  /\ net = [i \in Slots |-> Free]
  /\ orders = <<>>
  /\ used = {}
  /\ remembered = {}
  /\ abandoned = {}

-----------------------------------------------------------------------------
(* The browser.                                                            *)

Send(t, s) ==
  LET i == CHOOSE j \in FreeSlots : TRUE IN
  /\ FreeSlots # {}
  /\ net' = [net EXCEPT ![i] = Sent(s.key, s.content)]
  /\ store' = [store EXCEPT ![t] =
                 [s EXCEPT !.phase = "submitting", !.slot = i, !.mayRetry = FALSE]]

Begin(t, key, content) ==
  /\ store[t].phase = "idle"
  /\ key \notin used
  /\ used' = used \cup {key}
  /\ Send(t, [NewStore EXCEPT !.key = key, !.content = content])
  /\ UNCHANGED <<orders, remembered, abandoned>>

PassRetryAt(t) ==
  /\ store[t].phase = "uncertain"
  /\ ~store[t].mayRetry
  /\ store' = [store EXCEPT ![t].mayRetry = TRUE]
  /\ UNCHANGED <<net, orders, used, remembered, abandoned>>

Retry(t) ==
  /\ store[t].phase = "uncertain"
  /\ store[t].mayRetry
  /\ Send(t, store[t])
  /\ UNCHANGED <<orders, used, remembered, abandoned>>

(* The answer is one this request may get, and its status and saga agree.   *)
Verified(r, key, content) ==
  /\ r.order # 0
  /\ orders[r.order].key = key
  /\ orders[r.order].content = content
  /\ \/ r.status = 202 /\ r.saga \in Active
     \/ r.status \in {200, 201} /\ r.saga = "COMPLETED"
     \/ r.status = 422 /\ r.saga = "FAILED"

Settle(t, order, status) ==
  /\ store' = [store EXCEPT ![t].phase = "settled", ![t].slot = 0,
                            ![t].order = order, ![t].status = status]
  /\ remembered' = remembered \cup ({order} \ {0})

MarkUncertain(t, mayRetry) ==
  store' = [store EXCEPT ![t].phase = "uncertain", ![t].slot = 0, ![t].mayRetry = mayRetry]

(* A 503 comes with Retry-After.                                            *)
Receive(t) ==
  LET i == store[t].slot
      r == net[i] IN
  /\ i # 0
  /\ r.stage = "answered"
  /\ \/ Verified(r, store[t].key, store[t].content) /\ Settle(t, r.order, r.status)
     \/ r.status \in {400, 409} /\ Settle(t, 0, r.status)
     \/ /\ ~Verified(r, store[t].key, store[t].content)
        /\ r.status \notin {400, 409}
        /\ MarkUncertain(t, FALSE)
        /\ UNCHANGED remembered
  /\ net' = [net EXCEPT ![i] = Free]
  /\ UNCHANGED <<orders, used, abandoned>>

Forget(i) == IF i # 0 /\ net[i].stage = "answered" THEN [net EXCEPT ![i] = Free] ELSE net

(* The browser or the proxy gives up on the answer; the request goes on.    *)
GiveUp(t) ==
  /\ store[t].phase = "submitting"
  /\ \E mayRetry \in BOOLEAN : MarkUncertain(t, mayRetry)
  /\ net' = Forget(store[t].slot)
  /\ UNCHANGED <<orders, used, remembered, abandoned>>

(* Mutant: a checkout whose outcome is unknown can be started afresh.       *)
UnlessSubmitting(t) == store[t].phase # "submitting"

Resettable(t) == store[t].phase \notin Pending

Reset(t) ==
  /\ Resettable(t)
  /\ store' = [store EXCEPT ![t] = NewStore]
  /\ UNCHANGED <<net, orders, used, remembered, abandoned>>

(* The tab is reloaded or closed, the warning notwithstanding.              *)
Reload(t) ==
  /\ store' = [store EXCEPT ![t] = NewStore]
  /\ abandoned' = abandoned \cup (IF store[t].phase \in Pending THEN {store[t].key} ELSE {})
  /\ net' = Forget(store[t].slot)
  /\ UNCHANGED <<orders, used, remembered>>

-----------------------------------------------------------------------------
(* POST /orders.                                                           *)

InStage(i, stage) == net[i].stage = stage

Moves(i, r) == net' = [net EXCEPT ![i] = r]

(* Nobody takes the answer of a request whose sender gave up.               *)
Answer(i, status, saga) ==
  Moves(i, IF Awaited(i) THEN [net[i] EXCEPT !.stage = "answered", !.status = status,
                                             !.saga = saga]
                         ELSE Free)

Reject(i) ==
  /\ InStage(i, "sent")
  /\ net[i].content \in Rejected
  /\ Answer(i, 400, None)
  /\ UNCHANGED <<store, orders, used, remembered, abandoned>>

(* Mutant: the fingerprint takes in what differs from one POST to the next. *)
NeverSame(o, r) == FALSE

SameFingerprint(o, r) == o.content = r.content

Insert(i) ==
  LET r == net[i] IN
  /\ orders' = Append(orders,
       [key |-> r.key, content |-> r.content,
        status |-> IF r.content \in Transfers THEN "PENDING_PAYMENT" ELSE "IN_PROGRESS"])
  /\ Moves(i, [r EXCEPT !.stage = "accepted", !.order = Len(orders) + 1, !.created = TRUE])

Existing(i) == {o \in DOMAIN orders : orders[o].key = net[i].key}

(* Mutant: the order is looked for before the transaction that inserts it.  *)
AcceptUnchecked(i) ==
  /\ InStage(i, "sent")
  /\ net[i].content \notin Rejected
  /\ Insert(i)
  /\ UNCHANGED <<store, used, remembered, abandoned>>

(* Mutant: the second insert under a key fails instead of doing nothing.    *)
AcceptOnce(i) ==
  /\ InStage(i, "sent")
  /\ net[i].content \notin Rejected
  /\ IF Existing(i) = {} THEN Insert(i)
     ELSE Answer(i, 503, None) /\ UNCHANGED orders
  /\ UNCHANGED <<store, used, remembered, abandoned>>

(* accept(): insert first, then compare with what is there.                 *)
Accept(i) ==
  /\ InStage(i, "sent")
  /\ net[i].content \notin Rejected
  /\ \/ Existing(i) = {} /\ Insert(i)
     \/ \E o \in Existing(i) :
          /\ UNCHANGED orders
          /\ IF SameFingerprint(orders[o], net[i])
             THEN Moves(i, [net[i] EXCEPT !.stage = "accepted", !.order = o])
             ELSE Answer(i, 409, None)
  /\ UNCHANGED <<store, used, remembered, abandoned>>

(* run(): an order that waits for its payment has no operation to dispatch, *)
(* which next() throws at.  The other outcomes leave the status as it is.   *)
Run(i) ==
  /\ InStage(i, "accepted")
  /\ IF orders[net[i].order].status = "PENDING_PAYMENT"
     THEN Answer(i, 503, None)
     ELSE Moves(i, [net[i] EXCEPT !.stage = "ran"])
  /\ UNCHANGED <<store, orders, used, remembered, abandoned>>

StatusFor(saga, created) ==
  CASE saga = "COMPLETED" -> IF created THEN 201 ELSE 200
    [] saga = "FAILED" -> 422
    [] OTHER -> 202

ReadStatus(i) ==
  LET saga == orders[net[i].order].status IN
  /\ InStage(i, "ran")
  /\ Answer(i, StatusFor(saga, net[i].created), saga)
  /\ UNCHANGED <<store, orders, used, remembered, abandoned>>

(* The proxy or the service fails, or finds its session or database gone.   *)
Fail(i) ==
  /\ net[i] # Free
  /\ ~InStage(i, "answered")
  /\ Answer(i, 503, None)
  /\ UNCHANGED <<store, orders, used, remembered, abandoned>>

(* What the saga and an administrator do to the order meanwhile.            *)
Follows ==
  [PENDING_PAYMENT |-> {"IN_PROGRESS"}, IN_PROGRESS |-> {"COMPENSATING", "COMPLETED", "FAILED"},
   COMPENSATING |-> {"FAILED"}, COMPLETED |-> {}, FAILED |-> {}]

Progress(o) ==
  /\ \E status \in Follows[orders[o].status] : orders' = [orders EXCEPT ![o].status = status]
  /\ UNCHANGED <<store, net, used, remembered, abandoned>>

Serve(i) == Reject(i) \/ Accept(i) \/ Run(i) \/ ReadStatus(i)

Next ==
  \/ \E t \in Tabs :
       \/ \E key \in Keys, content \in Contents : Begin(t, key, content)
       \/ PassRetryAt(t)
       \/ Retry(t)
       \/ Receive(t)
       \/ GiveUp(t)
       \/ Reset(t)
       \/ Reload(t)
  \/ \E i \in Slots : Serve(i) \/ Fail(i)
  \/ \E o \in DOMAIN orders : Progress(o)

Spec == Init /\ [][Next]_vars

(* The customer retries when the page offers it, requests are served, and   *)
(* the services do not fail or keep the browser waiting for ever.           *)
(* (Unless the same step is also one of those.)                             *)
Trouble ==
  \/ \E t \in Tabs : GiveUp(t) /\ ~Receive(t)
  \/ \E i \in Slots : Fail(i) /\ ~Serve(i)

FairSpec ==
  /\ Spec
  /\ \A t \in Tabs : /\ WF_vars(PassRetryAt(t))
                      /\ SF_vars(Retry(t))
                      /\ WF_vars(Receive(t))
  /\ \A i \in Slots : WF_vars(Serve(i))
  /\ <>[][~Trouble]_vars

-----------------------------------------------------------------------------
(* Properties.                                                             *)

RequestOK(r) ==
  r # Free => /\ r \in Request
              /\ r.order # 0 => r.order \in DOMAIN orders

(* A submission has one request at a time, under the key and for the        *)
(* content it began with; a tab that is not submitting has none.            *)
TypeOK ==
  /\ store \in [Tabs -> Store]
  /\ \A t \in Tabs :
       /\ store[t].slot # 0 <=> store[t].phase = "submitting"
       /\ store[t].slot # 0 => /\ net[store[t].slot] # Free
                               /\ net[store[t].slot].key = store[t].key
                               /\ net[store[t].slot].content = store[t].content
       /\ store[t].key = None <=> store[t].phase = "idle"
  /\ \A t, u \in Tabs : t # u /\ store[t].slot = store[u].slot => store[t].slot = 0
  /\ DOMAIN net = Slots
  /\ \A i \in Slots : RequestOK(net[i])
  /\ orders \in Seq(Order)
  /\ used \subseteq Keys
  /\ remembered \subseteq DOMAIN orders
  /\ abandoned \subseteq used

(* However often a checkout is retried, and whichever of its requests       *)
(* arrive late, it makes one order.                                         *)
OneOrderPerCheckout ==
  \A o, p \in DOMAIN orders : orders[o].key = orders[p].key => o = p

(* "Start a new checkout": after a 400 or a 409 there is no order under the *)
(* key, nor will a request that is still under way make one.                *)
RejectionTrue ==
  \A t \in Tabs : store[t].phase = "settled" /\ store[t].order = 0 =>
    \A o \in DOMAIN orders : orders[o].key # store[t].key

(* The tab and its requests belong together (TypeOK), and no order goes     *)
(* unnoticed: the customer was shown it, or the tab still keeps its         *)
(* submission, or was reloaded against its warning.                         *)
OrderKnown ==
  /\ TypeOK
  /\ \A o \in DOMAIN orders :
       \/ o \in remembered
       \/ orders[o].key \in abandoned
       \/ \E t \in Tabs : store[t].phase \in Pending /\ store[t].key = orders[o].key

Submits(t, contents) ==
  store[t].phase = "submitting" /\ store[t].content \in contents
    ~> store[t].phase \in {"settled", "idle"}

(* Unless the tab is reloaded, a checkout that is not a bank transfer is    *)
(* settled in the end, once requests are no longer lost.                    *)
CheckoutSettles == \A t \in Tabs : Submits(t, Contents \ Transfers)

-----------------------------------------------------------------------------
(* What the documents say.                                                 *)

(* A bank transfer "is accepted, but it stops at Pending Payment"           *)
(* (docs/PRESENTATION_GUIDE.md:61).  The order is there, but every POST is  *)
(* answered with 503 until an administrator confirms the payment.           *)
TransferSettles == \A t \in Tabs : Submits(t, Transfers)
=============================================================================
