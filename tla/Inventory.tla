----------------------------- MODULE Inventory -----------------------------
(***************************************************************************)
(* InventoryService.execute (inventory-service/src/inventory/service.ts):  *)
(* one PostgreSQL transaction per command.  It waits for the advisory lock *)
(* of the order, inserts a receipt under the command's key (waiting for a  *)
(* concurrent insert of the same key), reads the order's reservation,      *)
(* locks the products it changes row by row, and commits stock, row and    *)
(* receipt at once.  A lock timeout or a crash before the commit leaves    *)
(* nothing behind.                                                         *)
(*                                                                         *)
(* A command may be executed at any time, any number of times, by any      *)
(* session: redelivery by the broker, retries over HTTP, and commands that *)
(* overtake each other.                                                    *)
(***************************************************************************)
EXTENDS Integers, FiniteSets, FiniteSetsExt

CONSTANTS
  Sessions,       \* connections that execute commands
  Commands,       \* the commands that clients ever send
  Products,       \* ids of the rows of `products`; rows lock in their order
  ActiveProducts, \* those on sale
  InitialStock    \* product -> availableStock as seeded

None == "none"
NoItems == <<>>

Orders == {c.orderId : c \in Commands}
Sagas == {c.sagaId : c \in Commands}
Keys == {c.idempotencyKey : c \in Commands}
Baskets == {c.items : c \in Commands} \cup {NoItems}

Operations == {"RESERVE_INVENTORY", "RELEASE_INVENTORY", "FINALIZE_INVENTORY"}

(* A reserve names one product or more, each once, with a quantity; the     *)
(* other commands name none (ReserveInventoryCommandSchema and its kin).    *)
ASSUME ConstantsAssumption ==
  /\ Products \subseteq Nat
  /\ \E last \in Products \cup {0} : \A p \in Products : p <= last
  /\ ActiveProducts \subseteq Products
  /\ InitialStock \in [Products -> Nat]
  /\ \A c \in Commands :
       /\ c = [idempotencyKey |-> c.idempotencyKey, operation |-> c.operation,
               orderId |-> c.orderId, sagaId |-> c.sagaId, items |-> c.items]
       /\ c.operation \in Operations
       /\ c.sagaId # None
       /\ IF c.operation = "RESERVE_INVENTORY"
            THEN /\ DOMAIN c.items \subseteq Nat
                 /\ IsFiniteSet(DOMAIN c.items)
                 /\ c.items \in [DOMAIN c.items -> Nat \ {0}]
                 /\ c.items # NoItems
            ELSE c.items = NoItems

VARIABLES
  stock,         \* product -> availableStock
  reservations,  \* order -> its row of `reservations`, with its items
  receipts,      \* the rows of `command_receipts`, all of them COMPLETED
  tx,            \* session -> its open transaction, or Idle
  answers        \* the answers committed so far (history)

vars == <<stock, reservations, receipts, tx, answers>>

-----------------------------------------------------------------------------
(* Rows.                                                                   *)

Results == {"RESERVED", "RELEASED", "NOOP", "FINALIZED", "INSUFFICIENT_STOCK",
            "ALREADY_COMPENSATED", "INVALID_STATE", "IDEMPOTENCY_CONFLICT"}

Succeeded == {"RESERVED", "RELEASED", "NOOP", "FINALIZED"}

(* `items`: the basket reserveFingerprint stands for, NoItems when it is    *)
(* null; for a reserved row also its reservationItems.  reserveResult is    *)
(* null exactly when reserveFingerprint is.                                 *)
Reservation ==
  [status : {"ABSENT", "PENDING", "RESERVED", "RELEASED", "FINALIZED", "FAILED"},
   sagaId : Sagas \cup {None},
   items : Baskets,
   reserveResult : Results \cup {None}]

NoReservation ==
  [status |-> "ABSENT", sagaId |-> None, items |-> NoItems, reserveResult |-> None]

(* `command` stands for the fingerprint of a completed receipt.             *)
Receipt == [command : Commands, result : Results]
UsedKeys == {r.command.idempotencyKey : r \in receipts}
ReceiptOf(k) == CHOOSE r \in receipts : r.command.idempotencyKey = k

SameContent(c, d) == [c EXCEPT !.idempotencyKey = None] = [d EXCEPT !.idempotencyKey = None]

(* A transaction waits for its order's lock, then for the receipt of its    *)
(* key, then for product rows.  `existing` is the reservation it read,      *)
(* `seen` the stock of each row it locked, as read under the lock.          *)
Idle == [phase |-> "idle"]
Begun(c) == [phase |-> "order", command |-> c]
Keyed(c) == [phase |-> "receipt", command |-> c]
Working(c, row) ==
  [phase |-> "products", command |-> c, existing |-> row, seen |-> NoItems]

InPhase(s, phases) == tx[s].phase \in phases

HoldsOrder(s, o) ==
  InPhase(s, {"receipt", "products"}) /\ tx[s].command.orderId = o
HoldsKey(s, k) ==
  InPhase(s, {"products"}) /\ tx[s].command.idempotencyKey = k
HoldsProduct(s, p) ==
  InPhase(s, {"products"}) /\ p \in DOMAIN tx[s].seen

-----------------------------------------------------------------------------
(* What a command may do to the reservation it found.                      *)

Foreign(c, row) == row.status # "ABSENT" /\ row.sagaId # c.sagaId

Changed(c, row) ==
  /\ c.operation = "RESERVE_INVENTORY"
  /\ row.items \notin {NoItems, c.items}

Conflicting(c, row) == Foreign(c, row) \/ Changed(c, row)

(* Mutant: compensation also takes back what was finalized.                 *)
ReturnsFinalizedStock(c, row) ==
  /\ c.operation = "RELEASE_INVENTORY"
  /\ ~Conflicting(c, row)
  /\ row.status \in {"RESERVED", "FINALIZED"}

(* The branch of a reserve that takes stock, and of a release that returns  *)
(* it.                                                                      *)
TakesStock(c, row) ==
  /\ c.operation = "RESERVE_INVENTORY"
  /\ ~Conflicting(c, row)
  /\ row.status \notin {"RELEASED", "FINALIZED"}
  /\ row.reserveResult = None

ReturnsStock(c, row) ==
  /\ c.operation = "RELEASE_INVENTORY"
  /\ ~Conflicting(c, row)
  /\ row.status = "RESERVED"

RowsToLock(c, row) ==
  IF TakesStock(c, row) THEN DOMAIN c.items \cap Products
  ELSE IF ReturnsStock(c, row) THEN DOMAIN row.items
  ELSE {}

Unlocked(s) ==
  RowsToLock(tx[s].command, tx[s].existing) \ DOMAIN tx[s].seen

(* Mutant: a release locks its rows in reverse.                             *)
ReleasesBackwards(s) ==
  IF tx[s].command.operation = "RELEASE_INVENTORY" THEN Max(Unlocked(s))
                                                   ELSE Min(Unlocked(s))

(* Every transaction locks its rows in the order of their ids.              *)
NextRow(s) == Min(Unlocked(s))

-----------------------------------------------------------------------------
(* Beginning a transaction and waiting for locks.                          *)

Init ==
  /\ stock = InitialStock
  /\ reservations = [o \in Orders |-> NoReservation]
  /\ receipts = {}
  /\ tx = [s \in Sessions |-> Idle]
  /\ answers = {}

(* Mutant: no advisory lock on the order.                                   *)
OrderUnlocked(o) == TRUE

OrderFree(o) == \A s \in Sessions : ~HoldsOrder(s, o)
KeyFree(k) == \A s \in Sessions : ~HoldsKey(s, k)
(* Mutant: stock is read without FOR UPDATE.                                *)
ProductUnlocked(p) == TRUE

ProductFree(p) == \A s \in Sessions : ~HoldsProduct(s, p)

Begin(s, c) ==
  /\ tx[s] = Idle
  /\ tx' = [tx EXCEPT ![s] = Begun(c)]
  /\ UNCHANGED <<stock, reservations, receipts, answers>>

LockOrder(s) ==
  /\ InPhase(s, {"order"})
  /\ OrderFree(tx[s].command.orderId)
  /\ tx' = [tx EXCEPT ![s] = Keyed(tx[s].command)]
  /\ UNCHANGED <<stock, reservations, receipts, answers>>

Respond(s, c, result) ==
  /\ tx' = [tx EXCEPT ![s] = Idle]
  /\ answers' = answers \cup {[command |-> c, result |-> result]}

(* The key is new: its receipt is inserted and the reservation read.        *)
InsertReceipt(s) ==
  LET c == tx[s].command IN
  /\ InPhase(s, {"receipt"})
  /\ KeyFree(c.idempotencyKey)
  /\ c.idempotencyKey \notin UsedKeys
  /\ tx' = [tx EXCEPT ![s] = Working(c, reservations[c.orderId])]
  /\ UNCHANGED <<stock, reservations, receipts, answers>>

(* The key was used before: its result is replayed, or refused to another   *)
(* command.                                                                 *)
ReplayReceipt(s) ==
  LET c == tx[s].command
      receipt == ReceiptOf(c.idempotencyKey) IN
  /\ InPhase(s, {"receipt"})
  /\ KeyFree(c.idempotencyKey)
  /\ c.idempotencyKey \in UsedKeys
  /\ Respond(s, c, IF SameContent(receipt.command, c)
                     THEN receipt.result ELSE "IDEMPOTENCY_CONFLICT")
  /\ UNCHANGED <<stock, reservations, receipts>>

LockProduct(s) ==
  /\ InPhase(s, {"products"})
  /\ Unlocked(s) # {}
  /\ ProductFree(NextRow(s))
  /\ tx' = [tx EXCEPT ![s].seen =
              [p \in DOMAIN @ \cup {NextRow(s)} |->
                 IF p \in DOMAIN @ THEN @[p] ELSE stock[p]]]
  /\ UNCHANGED <<stock, reservations, receipts, answers>>

(* A lock timeout, a lost connection or a crash: all is rolled back.        *)
Abort(s) ==
  /\ tx[s] # Idle
  /\ tx' = [tx EXCEPT ![s] = Idle]
  /\ UNCHANGED <<stock, reservations, receipts, answers>>

-----------------------------------------------------------------------------
(* The outcomes, each with its commit.                                     *)

(* All rows are locked and the transaction may decide.                      *)
Decides(s) ==
  /\ InPhase(s, {"products"})
  /\ Unlocked(s) = {}

(* Mutant: only successes complete their receipt.                           *)
CommitSuccess(s, row, result) ==
  LET c == tx[s].command IN
  /\ reservations' = [reservations EXCEPT ![c.orderId] = row]
  /\ receipts' = IF result \in Succeeded
                 THEN receipts \cup {[command |-> c, result |-> result]} ELSE receipts
  /\ Respond(s, c, result)

Commit(s, row, result) ==
  LET c == tx[s].command IN
  /\ reservations' = [reservations EXCEPT ![c.orderId] = row]
  /\ receipts' = receipts \cup {[command |-> c, result |-> result]}
  /\ Respond(s, c, result)

(* A row inserted by this transaction belongs to the command's saga.        *)
Owned(s) == [tx[s].existing EXCEPT !.sagaId = tx[s].command.sagaId]

RefuseConflict(s) ==
  /\ Decides(s)
  /\ Conflicting(tx[s].command, tx[s].existing)
  /\ Commit(s, tx[s].existing, "IDEMPOTENCY_CONFLICT")
  /\ UNCHANGED stock

(* An outcome that changes no stock, for the rows of given statuses.        *)
Outcome(s, operation, statuses, row, result) ==
  /\ Decides(s)
  /\ tx[s].command.operation = operation
  /\ ~Conflicting(tx[s].command, tx[s].existing)
  /\ tx[s].existing.status \in statuses
  /\ Commit(s, row, result)
  /\ UNCHANGED stock

Refuse(s) ==
  LET row == tx[s].existing IN
  \/ Outcome(s, "RESERVE_INVENTORY", {"RELEASED"}, row, "ALREADY_COMPENSATED")
  \/ Outcome(s, "RESERVE_INVENTORY", {"FINALIZED"}, row, "INVALID_STATE")
  \/ Outcome(s, "RELEASE_INVENTORY", {"FINALIZED", "PENDING"}, row, "INVALID_STATE")
  \/ Outcome(s, "FINALIZE_INVENTORY", {"ABSENT", "PENDING", "RELEASED", "FAILED"},
             row, "INVALID_STATE")

(* Another key asks for the same reservation.                               *)
ReplayReserve(s) ==
  LET row == tx[s].existing IN
  /\ Outcome(s, "RESERVE_INVENTORY", {"PENDING", "RESERVED", "FAILED"},
             row, row.reserveResult)
  /\ row.reserveResult # None

Sufficient(s) ==
  \A p \in DOMAIN tx[s].command.items :
    /\ p \in ActiveProducts
    /\ tx[s].seen[p] >= tx[s].command.items[p]

(* Mutant: the result of the reserve is not kept in the row.                *)
ReservedUnrecorded(s, status, result) ==
  [Owned(s) EXCEPT !.status = status, !.items = tx[s].command.items]

Reserved(s, status, result) ==
  [Owned(s) EXCEPT !.status = status, !.items = tx[s].command.items,
                   !.reserveResult = result]

Reserve(s) ==
  LET items == tx[s].command.items IN
  /\ Decides(s)
  /\ TakesStock(tx[s].command, tx[s].existing)
  /\ Sufficient(s)
  /\ stock' = [p \in Products |->
                 IF p \in DOMAIN items THEN stock[p] - items[p] ELSE stock[p]]
  /\ Commit(s, Reserved(s, "RESERVED", "RESERVED"), "RESERVED")

FailReserve(s) ==
  /\ Decides(s)
  /\ TakesStock(tx[s].command, tx[s].existing)
  /\ ~Sufficient(s)
  /\ Commit(s, Reserved(s, "FAILED", "INSUFFICIENT_STOCK"), "INSUFFICIENT_STOCK")
  /\ UNCHANGED stock

Release(s) ==
  LET row == tx[s].existing IN
  /\ Decides(s)
  /\ ReturnsStock(tx[s].command, row)
  /\ stock' = [p \in Products |->
                 IF p \in DOMAIN row.items THEN stock[p] + row.items[p] ELSE stock[p]]
  /\ Commit(s, [row EXCEPT !.status = "RELEASED"], "RELEASED")

(* Mutant: a release that finds nothing leaves nothing behind.              *)
ReleaseUnmarked(s) ==
  Outcome(s, "RELEASE_INVENTORY", {"ABSENT", "FAILED", "RELEASED"},
          tx[s].existing, "NOOP")

(* Nothing is held; the row left behind refuses a reserve that comes late.  *)
ReleaseNothing(s) ==
  Outcome(s, "RELEASE_INVENTORY", {"ABSENT", "FAILED", "RELEASED"},
          [Owned(s) EXCEPT !.status = "RELEASED"], "NOOP")

Finalize(s) ==
  Outcome(s, "FINALIZE_INVENTORY", {"RESERVED", "FINALIZED"},
          [tx[s].existing EXCEPT !.status = "FINALIZED"], "FINALIZED")

Decide(s) ==
  \/ RefuseConflict(s)
  \/ Refuse(s)
  \/ ReplayReserve(s)
  \/ Reserve(s)
  \/ FailReserve(s)
  \/ Release(s)
  \/ ReleaseNothing(s)
  \/ Finalize(s)

(* What waits for another transaction.                                      *)
Acquire(s) == LockOrder(s) \/ InsertReceipt(s) \/ ReplayReceipt(s) \/ LockProduct(s)

Next ==
  \E s \in Sessions :
    \/ \E c \in Commands : Begin(s, c)
    \/ Acquire(s)
    \/ Decide(s)
    \/ Abort(s)

Spec == Init /\ [][Next]_vars

-----------------------------------------------------------------------------
(* Properties.                                                             *)

TransactionOK(t) ==
  \/ t = Idle
  \/ \E c \in Commands : t \in {Begun(c), Keyed(c)}
  \/ /\ t = [Working(t.command, t.existing) EXCEPT !.seen = t.seen]
     /\ t.command \in Commands
     /\ t.existing \in Reservation
     /\ DOMAIN t.seen \subseteq Products
     /\ t.seen \in [DOMAIN t.seen -> Int]

(* Every row is one the schema admits; a row exists exactly when a saga owns *)
(* it, and keeps the result of its reserve exactly when it keeps its basket. *)
TypeOK ==
  /\ stock \in [Products -> Int]
  /\ reservations \in [Orders -> Reservation]
  /\ \A o \in Orders :
       /\ reservations[o].status = "ABSENT" <=> reservations[o].sagaId = None
       /\ reservations[o].reserveResult = None <=> reservations[o].items = NoItems
  /\ receipts \subseteq Receipt
  /\ \A q, r \in receipts :
       q.command.idempotencyKey = r.command.idempotencyKey => q = r
  /\ DOMAIN tx = Sessions
  /\ \A s \in Sessions : TransactionOK(tx[s])
  /\ answers \subseteq Receipt

(* Stock is never promised twice, whatever reserves race for it: the check   *)
(* of line 58 is made on rows that stay locked until the commit.             *)
NeverOversold == \A p \in Products : stock[p] >= 0

Holds(row, p) ==
  IF row.status \in {"RESERVED", "FINALIZED"} /\ p \in DOMAIN row.items
  THEN row.items[p] ELSE 0

(* The units of a product that the reservations in effect hold, numbered by  *)
(* order.                                                                    *)
HeldUnits(p) == UNION {{o} \X (1..Holds(reservations[o], p)) : o \in Orders}

(* Units are neither lost nor made: what is not on the shelf is held by the  *)
(* reservations in effect, under duplicates, other keys for the same request *)
(* and rollbacks in the middle of a basket.                                  *)
StockConserved ==
  \A p \in Products : stock[p] + Cardinality(HeldUnits(p)) = InitialStock[p]

(* An order once answered that its release succeeded never holds stock       *)
(* again, even when the release overtook its reserve.                        *)
ReleaseIsFinal ==
  \A a \in answers :
    a.command.operation = "RELEASE_INVENTORY" /\ a.result \in Succeeded
      => reservations[a.command.orderId].status = "RELEASED"

(* An order once answered that it is finalized keeps its stock: compensation *)
(* cannot take it back.                                                      *)
FinalizeIsFinal ==
  \A a \in answers :
    a.command.operation = "FINALIZE_INVENTORY" /\ a.result \in Succeeded
      => reservations[a.command.orderId].status = "FINALIZED"

(* A command gets the same answer however often it is executed, and after    *)
(* whatever other commands.                                                  *)
OneAnswerPerCommand ==
  \A a, b \in answers : a.command = b.command => a.result = b.result

WaitsFor(s, t) ==
  \/ InPhase(s, {"order"}) /\ HoldsOrder(t, tx[s].command.orderId)
  \/ InPhase(s, {"receipt"}) /\ HoldsKey(t, tx[s].command.idempotencyKey)
  \/ InPhase(s, {"products"}) /\ Unlocked(s) # {} /\ HoldsProduct(t, NextRow(s))

(* No transactions wait for each other in a circle: baskets that overlap in  *)
(* any way are locked in the order of the product ids, releases included.    *)
NoWaitCycle ==
  \A waiting \in (SUBSET Sessions) \ {{}} :
    \E s \in waiting : \A t \in waiting : ~WaitsFor(s, t)

-----------------------------------------------------------------------------
(* The participant a saga deals with.                                      *)

StepEffect(row) ==
  CASE row.status \in {"ABSENT", "PENDING", "FAILED"} -> "none"
    [] row.status = "RESERVED" -> "done"
    [] row.status = "FINALIZED" -> "final"
    [] row.status = "RELEASED" -> IF row.reserveResult = "RESERVED" THEN "undone" ELSE "void"

Telling(a) ==
  CASE a.result = "RESERVED" -> {"DONE"}
    [] a.result = "INSUFFICIENT_STOCK" -> {"REFUSED"}
    [] a.result \in {"RELEASED", "NOOP"} -> {"UNDONE"}
    [] a.result = "FINALIZED" -> {"FINAL"}
    [] OTHER -> {}

Promise == INSTANCE Participant WITH
  effect <- [o \in Orders |-> StepEffect(reservations[o])],
  told <- [o \in Orders |-> UNION {Telling(a) : a \in {b \in answers : b.command.orderId = o}}]

(* The order's reservation keeps what sagas are told: stock once released   *)
(* or finalized stays so, a reserve refused for lack of stock never takes   *)
(* any later, whatever keys, sagas and rollbacks come in between.           *)
ImplementsParticipant == Promise!Spec
=============================================================================
