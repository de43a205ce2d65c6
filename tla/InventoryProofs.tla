-------------------------- MODULE InventoryProofs --------------------------
(***************************************************************************)
(* Proofs about the inventory service, for any commands, products, stock   *)
(* and number of sessions.                                                 *)
(***************************************************************************)
EXTENDS Inventory, WellFoundedInduction, FiniteSetTheorems, TLAPS

(***************************************************************************)
(* The inductive invariant.  Locks are exclusive; what a transaction read  *)
(* under its locks is still so, and it has locked in order; answers come   *)
(* from receipts; and what a receipt promised holds.  A reserved basket    *)
(* names only products that exist, so that a release finds every row it    *)
(* locks.                                                                  *)
(***************************************************************************)
Exclusive(t, u) ==
  /\ t.phase \in {"receipt", "products"} /\ u.phase \in {"receipt", "products"}
       => t.command.orderId # u.command.orderId
  /\ t.phase = "products" /\ u.phase = "products"
       => /\ t.command.idempotencyKey # u.command.idempotencyKey
          /\ \A p \in DOMAIN t.seen : p \notin DOMAIN u.seen

LocksExclusive ==
  \A s, u \in Sessions : s # u => Exclusive(tx[s], tx[u])

Current(t) ==
  t.phase = "products" =>
    /\ t.existing = reservations[t.command.orderId]
    /\ t.command.idempotencyKey \notin UsedKeys
    /\ \A p \in DOMAIN t.seen : t.seen[p] = stock[p]
    /\ \A p \in DOMAIN t.seen :
         \A q \in RowsToLock(t.command, t.existing) \ DOMAIN t.seen : p < q

ReadsCurrent == \A s \in Sessions : Current(tx[s])

AnswersRecorded ==
  \A a \in answers :
    \/ a \in receipts
    \/ /\ a.result = "IDEMPOTENCY_CONFLICT"
       /\ \E r \in receipts : /\ r.command.idempotencyKey = a.command.idempotencyKey
                              /\ r.command # a.command

Promised(operation, status) ==
  \A r \in receipts :
    r.command.operation = operation /\ r.result \in Succeeded
      => reservations[r.command.orderId].status = status

ReceiptsKept ==
  /\ Promised("RELEASE_INVENTORY", "RELEASED")
  /\ Promised("FINALIZE_INVENTORY", "FINALIZED")

HeldListed ==
  \A o \in Orders :
    reservations[o].status = "RESERVED" => DOMAIN reservations[o].items \subseteq Products

IInv ==
  /\ TypeOK
  /\ NeverOversold
  /\ HeldListed
  /\ LocksExclusive
  /\ ReadsCurrent
  /\ AnswersRecorded
  /\ ReceiptsKept

-----------------------------------------------------------------------------
(* Facts about the data.                                                   *)

(* A command is a record of five fields, and a reserve names what it wants. *)
LEMMA CommandFields ==
  ASSUME NEW c \in Commands
  PROVE  /\ c = [idempotencyKey |-> c.idempotencyKey, operation |-> c.operation,
                 orderId |-> c.orderId, sagaId |-> c.sagaId, items |-> c.items]
         /\ c.operation \in Operations
         /\ c.orderId \in Orders /\ c.sagaId \in Sagas /\ c.sagaId # None
         /\ c.idempotencyKey \in Keys /\ c.items \in Baskets
         /\ c.operation = "RESERVE_INVENTORY" =>
              c.items \in [DOMAIN c.items -> Nat \ {0}] /\ c.items # NoItems
  BY ConstantsAssumption DEF Orders, Sagas, Keys, Baskets

(* Whatever basket a row keeps has natural quantities.                      *)
LEMMA BasketQuantities ==
  ASSUME NEW b \in Baskets, NEW p \in DOMAIN b
  PROVE  b[p] \in Nat
  <1>1. CASE b = NoItems
    BY <1>1 DEF NoItems
  <1>2. CASE \E c \in Commands : b = c.items
    <2>1. PICK c \in Commands : b = c.items
      BY <1>2
    <2>2. c.items = NoItems \/ c.items \in [DOMAIN c.items -> Nat \ {0}]
      BY ConstantsAssumption
    <2> QED
      BY <2>1, <2>2, <1>1
  <1> QED
    BY <1>1, <1>2 DEF Baskets

(* Two commands with one key and one fingerprint are the same command.      *)
LEMMA FingerprintAndKey ==
  ASSUME NEW c \in Commands, NEW d \in Commands,
         SameContent(c, d), c.idempotencyKey = d.idempotencyKey
  PROVE  c = d
  <1> DEFINE C == [c EXCEPT !.idempotencyKey = None]
             D == [d EXCEPT !.idempotencyKey = None]
  <1>1. C = D
    BY DEF SameContent
  <1>2. /\ C.operation = c.operation /\ C.orderId = c.orderId
        /\ C.sagaId = c.sagaId /\ C.items = c.items
    BY CommandFields
  <1>3. /\ D.operation = d.operation /\ D.orderId = d.orderId
        /\ D.sagaId = d.sagaId /\ D.items = d.items
    BY CommandFields
  <1> HIDE DEF C, D
  <1> QED
    BY <1>1, <1>2, <1>3, CommandFields

(* A set of naturals that is not empty has a least element.                 *)
LEMMA LeastElement ==
  ASSUME NEW S \in SUBSET Nat, S # {}
  PROVE  Min(S) \in S /\ \A y \in S : Min(S) <= y
  <1>1. PICK x \in S : \A y \in S : ~ (<<y, x>> \in OpToRel(<, Nat))
    BY WFMin, NatLessThanWellFounded
  <1>2. \A y \in S : x <= y
    <2> SUFFICES ASSUME NEW y \in S, y < x PROVE FALSE
      OBVIOUS
    <2>1. <<y, x>> \in Nat \X Nat /\ <<y, x>>[1] < <<y, x>>[2]
      OBVIOUS
    <2>2. <<y, x>> \in OpToRel(<, Nat)
      BY <2>1, Zenon DEF OpToRel
    <2> QED
      BY <1>1, <2>2
  <1> QED
    BY <1>2 DEF Min

-----------------------------------------------------------------------------
(* The steps that begin, wait, lock and roll back.                         *)

LEMMA PhaseFields ==
  ASSUME NEW t, TransactionOK(t)
  PROVE  /\ t.phase \in {"idle", "order", "receipt", "products"}
         /\ t.phase = "idle" => t = Idle
         /\ t.phase # "idle" => t.command \in Commands
         /\ t.phase = "products" =>
              /\ t.existing \in Reservation
              /\ DOMAIN t.seen \subseteq Products
              /\ t.seen \in [DOMAIN t.seen -> Int]
  <1>1. CASE t = Idle
    BY <1>1 DEF Idle
  <1>2. CASE \E c \in Commands : t \in {Begun(c), Keyed(c)}
    BY <1>2 DEF Begun, Keyed
  <1>3. CASE t = [Working(t.command, t.existing) EXCEPT !.seen = t.seen]
             /\ t.command \in Commands
             /\ t.existing \in Reservation
             /\ DOMAIN t.seen \subseteq Products
             /\ t.seen \in [DOMAIN t.seen -> Int]
    <2>1. t.phase = Working(t.command, t.existing).phase
      BY <1>3 DEF Working
    <2> QED
      BY <1>3, <2>1 DEF Working
  <1> QED
    BY <1>1, <1>2, <1>3 DEF TransactionOK

(* A step that only moves one transaction, to where it excludes the others  *)
(* and has read what is so.                                                 *)
LEMMA TransactionStep ==
  ASSUME IInv, NEW s \in Sessions, NEW t, TransactionOK(t), Current(t),
         \A u \in Sessions : u # s => Exclusive(t, tx[u]) /\ Exclusive(tx[u], t),
         tx' = [tx EXCEPT ![s] = t],
         UNCHANGED <<stock, reservations, receipts, answers>>
  PROVE  IInv'
  <1>1. /\ DOMAIN tx' = Sessions
        /\ \A u \in Sessions : tx'[u] = IF u = s THEN t ELSE tx[u]
    BY DEF IInv, TypeOK
  <1>2. TypeOK' /\ NeverOversold' /\ HeldListed' /\ AnswersRecorded' /\ ReceiptsKept'
    <2>1. \A u \in Sessions : TransactionOK(tx'[u])
      BY <1>1 DEF IInv, TypeOK
    <2> QED
      BY <2>1 DEF IInv, TypeOK, TransactionOK, NeverOversold, HeldListed, AnswersRecorded,
                  ReceiptsKept, Promised
  <1>3. LocksExclusive'
    BY <1>1 DEF IInv, LocksExclusive
  <1>4. ReadsCurrent'
    BY <1>1 DEF IInv, ReadsCurrent, Current, UsedKeys
  <1> QED
    BY <1>2, <1>3, <1>4 DEF IInv

(* What an open transaction knows of its own fields.                        *)
LEMMA OpenTransaction ==
  ASSUME IInv, NEW s \in Sessions
  PROVE  /\ TransactionOK(tx[s])
         /\ tx[s].phase \in {"idle", "order", "receipt", "products"}
         /\ tx[s].phase # "idle" => tx[s].command \in Commands
         /\ tx[s].phase = "products" =>
              /\ tx[s].existing \in Reservation
              /\ DOMAIN tx[s].seen \subseteq Products
              /\ tx[s].seen \in [DOMAIN tx[s].seen -> Int]
  BY PhaseFields DEF IInv, TypeOK

LEMMA BeginPreserves ==
  ASSUME IInv, NEW s \in Sessions, NEW c \in Commands, Begin(s, c)
  PROVE  IInv'
  <1>1. TransactionOK(Begun(c)) /\ Begun(c).phase = "order"
    BY DEF TransactionOK, Begun
  <1> QED
    BY <1>1, TransactionStep DEF Begin, Exclusive, Current

LEMMA LockOrderPreserves ==
  ASSUME IInv, NEW s \in Sessions, LockOrder(s)
  PROVE  IInv'
  <1> DEFINE c == tx[s].command
  <1>1. c \in Commands
    BY OpenTransaction DEF LockOrder, InPhase
  <1>2. /\ TransactionOK(Keyed(c))
        /\ Keyed(c).phase = "receipt" /\ Keyed(c).command = c
    BY <1>1 DEF TransactionOK, Keyed
  <1>3. \A u \in Sessions : u # s => Exclusive(Keyed(c), tx[u]) /\ Exclusive(tx[u], Keyed(c))
    BY <1>2 DEF LockOrder, OrderFree, HoldsOrder, InPhase, Exclusive
  <1> QED
    BY <1>2, <1>3, TransactionStep DEF LockOrder, Current

LEMMA InsertReceiptPreserves ==
  ASSUME IInv, NEW s \in Sessions, InsertReceipt(s)
  PROVE  IInv'
  <1> DEFINE c == tx[s].command
             t == Working(c, reservations[c.orderId])
  <1>1. c \in Commands /\ tx[s].phase = "receipt"
    BY OpenTransaction DEF InsertReceipt, InPhase
  <1>2. reservations[c.orderId] \in Reservation
    BY <1>1, CommandFields DEF IInv, TypeOK
  <1>3. /\ t.phase = "products" /\ t.command = c /\ t.seen = NoItems
        /\ t.existing = reservations[c.orderId]
        /\ t = [Working(t.command, t.existing) EXCEPT !.seen = t.seen]
    BY DEF Working
  <1>4. DOMAIN NoItems = {}
    BY DEF NoItems
  <1>5. NoItems \in [DOMAIN NoItems -> Int]
    BY DEF NoItems
  <1> HIDE DEF t
  <1>6. TransactionOK(t)
    BY <1>1, <1>2, <1>3, <1>4, <1>5 DEF TransactionOK
  <1>7. Current(t)
    BY <1>3, <1>4 DEF Current, InsertReceipt
  <1>8. ASSUME NEW u \in Sessions, u # s
        PROVE  Exclusive(t, tx[u]) /\ Exclusive(tx[u], t)
    <2>1. Exclusive(tx[s], tx[u]) /\ Exclusive(tx[u], tx[s])
      BY <1>8 DEF IInv, LocksExclusive
    <2>2. tx[u].phase = "products" => tx[u].command.idempotencyKey # c.idempotencyKey
      BY DEF InsertReceipt, KeyFree, HoldsKey, InPhase
    <2> QED
      BY <1>1, <1>3, <1>4, <2>1, <2>2 DEF Exclusive
  <1>9. tx' = [tx EXCEPT ![s] = t] /\ UNCHANGED <<stock, reservations, receipts, answers>>
    BY DEF InsertReceipt, t
  <1> QED
    BY <1>6, <1>7, <1>8, <1>9, TransactionStep

LEMMA LockProductPreserves ==
  ASSUME IInv, NEW s \in Sessions, LockProduct(s)
  PROVE  IInv'
  <1> DEFINE c == tx[s].command
             row == tx[s].existing
             seen == tx[s].seen
             next == NextRow(s)
             wider == [p \in DOMAIN seen \cup {next} |->
                         IF p \in DOMAIN seen THEN seen[p] ELSE stock[p]]
             t == [tx[s] EXCEPT !.seen = wider]
  <1>1. /\ c \in Commands /\ row \in Reservation /\ tx[s].phase = "products"
        /\ DOMAIN seen \subseteq Products /\ seen \in [DOMAIN seen -> Int]
    BY OpenTransaction DEF LockProduct, InPhase
  <1>2. Current(tx[s])
    BY DEF IInv, ReadsCurrent
  <1>3. next \in Unlocked(s)
    <2>1. RowsToLock(c, row) \subseteq Products
      <3>1. row = reservations[c.orderId] /\ c.orderId \in Orders
        BY <1>1, <1>2, CommandFields DEF Current
      <3>2. row.status = "RESERVED" => DOMAIN row.items \subseteq Products
        BY <3>1 DEF IInv, HeldListed
      <3> QED
        BY <3>2 DEF RowsToLock, ReturnsStock
    <2>2. Unlocked(s) \in SUBSET Nat /\ Unlocked(s) # {}
      BY <2>1, ConstantsAssumption DEF Unlocked, LockProduct
    <2> QED
      BY <2>2, LeastElement DEF NextRow
  <1>4. \A q \in Unlocked(s) \ {next} : next < q
    <2>1. Unlocked(s) \in SUBSET Nat
      BY <1>1, <1>2, CommandFields, ConstantsAssumption
         DEF Current, Unlocked, RowsToLock, ReturnsStock, IInv, HeldListed
    <2>2. \A q \in Unlocked(s) : next <= q
      BY <1>3, <2>1, LeastElement DEF NextRow
    <2> QED
      BY <1>3, <2>1, <2>2
  <1>5. next \in Products
    BY <1>1, <1>2, <1>3, CommandFields DEF Current, Unlocked, RowsToLock, ReturnsStock, IInv, HeldListed
  <1>6. /\ DOMAIN wider = DOMAIN seen \cup {next}
        /\ wider \in [DOMAIN wider -> Int]
        /\ \A p \in DOMAIN wider : wider[p] = stock[p]
    BY <1>1, <1>2, <1>5 DEF Current, IInv, TypeOK
  <1>7. /\ t.phase = "products" /\ t.command = c /\ t.existing = row
        /\ t.seen = wider
        /\ t = [Working(t.command, t.existing) EXCEPT !.seen = t.seen]
    <2>1. tx[s] = [Working(c, row) EXCEPT !.seen = seen]
      BY <1>1, OpenTransaction DEF TransactionOK, Idle, Begun, Keyed
    <2> HIDE DEF c, row, seen, wider
    <2> QED
      BY <2>1 DEF Working
  <1>8. tx' = [tx EXCEPT ![s] = t] /\ UNCHANGED <<stock, reservations, receipts, answers>>
    BY DEF LockProduct
  <1>9. \A u \in Sessions : tx[u].phase = "products" => next \notin DOMAIN tx[u].seen
    BY DEF LockProduct, ProductFree, HoldsProduct, InPhase
  <1> HIDE DEF t, wider, next
  <1>10. TransactionOK(t)
    BY <1>1, <1>5, <1>6, <1>7 DEF TransactionOK
  <1>11. Current(t)
    <2>1. /\ t.existing = reservations[t.command.orderId]
          /\ t.command.idempotencyKey \notin UsedKeys
          /\ \A p \in DOMAIN t.seen : t.seen[p] = stock[p]
      BY <1>1, <1>2, <1>6, <1>7 DEF Current
    <2>2. ASSUME NEW p \in DOMAIN t.seen,
                 NEW q \in RowsToLock(t.command, t.existing) \ DOMAIN t.seen
          PROVE  p < q
      <3>1. q \in Unlocked(s) \ {next}
        BY <1>6, <1>7, <2>2 DEF Unlocked
      <3>2. CASE p \in DOMAIN seen
        BY <1>1, <1>2, <3>1, <3>2 DEF Current, Unlocked
      <3>3. CASE p = next
        BY <1>4, <3>1, <3>3
      <3> QED
        BY <1>6, <1>7, <2>2, <3>2, <3>3
    <2> QED
      BY <2>1, <2>2 DEF Current
  <1>12. ASSUME NEW u \in Sessions, u # s
         PROVE  Exclusive(t, tx[u]) /\ Exclusive(tx[u], t)
    <2>1. Exclusive(tx[s], tx[u]) /\ Exclusive(tx[u], tx[s])
      BY <1>12 DEF IInv, LocksExclusive
    <2> QED
      BY <1>1, <1>6, <1>7, <1>9, <2>1 DEF Exclusive
  <1> QED
    BY <1>8, <1>10, <1>11, <1>12, TransactionStep

LEMMA IdleExcludes ==
  ASSUME NEW u
  PROVE  TransactionOK(Idle) /\ Current(Idle) /\ Exclusive(Idle, u) /\ Exclusive(u, Idle)
  BY DEF TransactionOK, Current, Exclusive, Idle

LEMMA AbortPreserves ==
  ASSUME IInv, NEW s \in Sessions, Abort(s)
  PROVE  IInv'
  BY IdleExcludes, TransactionStep DEF Abort


LEMMA ReplayReceiptPreserves ==
  ASSUME IInv, NEW s \in Sessions, ReplayReceipt(s)
  PROVE  IInv'
  <1> DEFINE c == tx[s].command
             receipt == ReceiptOf(c.idempotencyKey)
             result == IF SameContent(receipt.command, c)
                         THEN receipt.result ELSE "IDEMPOTENCY_CONFLICT"
             a == [command |-> c, result |-> result]
  <1>1. c \in Commands
    BY OpenTransaction DEF ReplayReceipt, InPhase
  <1>2. receipt \in receipts /\ receipt.command.idempotencyKey = c.idempotencyKey
    BY DEF ReplayReceipt, UsedKeys, ReceiptOf
  <1>3. receipt \in Receipt
    BY <1>2 DEF IInv, TypeOK
  <1>4. a \in Receipt
    BY <1>1, <1>3 DEF Receipt, Results
  <1>5. \/ a \in receipts
        \/ /\ a.result = "IDEMPOTENCY_CONFLICT"
           /\ \E r \in receipts : /\ r.command.idempotencyKey = a.command.idempotencyKey
                                  /\ r.command # a.command
    <2>1. CASE SameContent(receipt.command, c)
      <3>1. receipt.command = c
        BY <1>1, <1>2, <1>3, <2>1, FingerprintAndKey DEF Receipt
      <3>2. receipt = [command |-> receipt.command, result |-> receipt.result]
        BY <1>3 DEF Receipt
      <3> QED
        BY <1>2, <2>1, <3>1, <3>2
    <2>2. CASE ~SameContent(receipt.command, c)
      <3>1. receipt.command # c
        BY <2>2 DEF SameContent
      <3> QED
        BY <1>2, <2>2, <3>1
    <2> QED
      BY <2>1, <2>2
  <1>6. /\ answers' = answers \cup {a}
        /\ tx' = [tx EXCEPT ![s] = Idle]
        /\ UNCHANGED <<stock, reservations, receipts>>
    BY DEF ReplayReceipt, Respond
  <1> HIDE DEF a
  <1>7. /\ DOMAIN tx' = Sessions
        /\ \A u \in Sessions : tx'[u] = IF u = s THEN Idle ELSE tx[u]
    BY <1>6 DEF IInv, TypeOK
  <1>8. TypeOK' /\ NeverOversold' /\ HeldListed' /\ ReceiptsKept'
    <2>1. \A u \in Sessions : TransactionOK(tx'[u])
      BY <1>7, IdleExcludes DEF IInv, TypeOK
    <2> QED
      BY <1>4, <1>6, <1>7, <2>1 DEF IInv, TypeOK, TransactionOK, NeverOversold,
                                 HeldListed, ReceiptsKept, Promised
  <1>9. AnswersRecorded'
    BY <1>5, <1>6 DEF IInv, AnswersRecorded
  <1>10. LocksExclusive'
    BY <1>7, IdleExcludes DEF IInv, LocksExclusive
  <1>11. ReadsCurrent'
    BY <1>6, <1>7 DEF IInv, ReadsCurrent, Current, UsedKeys, Idle
  <1> QED
    BY <1>8, <1>9, <1>10, <1>11 DEF IInv

-----------------------------------------------------------------------------
(* The steps that commit.                                                  *)

(* What a commit may do to its order's row, and must do for its answer.     *)
Lawful(c, old, row, result) ==
  /\ row \in Reservation
  /\ row.status = "ABSENT" <=> row.sagaId = None
  /\ row.reserveResult = None <=> row.items = NoItems
  /\ row.status = "RESERVED" => DOMAIN row.items \subseteq Products
  /\ old.status \in {"RELEASED", "FINALIZED"} => row.status = old.status
  /\ result \in Results
  /\ result \in Succeeded =>
       /\ c.operation = "RELEASE_INVENTORY" => row.status = "RELEASED"
       /\ c.operation = "FINALIZE_INVENTORY" => row.status = "FINALIZED"

(* Stock changes only on the rows it locked, and to what is left.           *)
Affordable(seen) ==
  /\ stock' \in [Products -> Int]
  /\ \A p \in Products : stock'[p] >= 0
  /\ \A p \in Products \ DOMAIN seen : stock'[p] = stock[p]

LEMMA CommitStep ==
  ASSUME IInv, NEW s \in Sessions, tx[s].phase = "products",
         NEW row, NEW result, Commit(s, row, result),
         Lawful(tx[s].command, tx[s].existing, row, result), Affordable(tx[s].seen)
  PROVE  IInv'
  <1> DEFINE c == tx[s].command
             a == [command |-> c, result |-> result]
  <1>1. /\ c \in Commands /\ c.orderId \in Orders
        /\ tx[s].existing \in Reservation
        /\ DOMAIN tx[s].seen \subseteq Products
    BY OpenTransaction, CommandFields
  <1>2. /\ reservations' = [reservations EXCEPT ![c.orderId] = row]
        /\ receipts' = receipts \cup {a}
        /\ answers' = answers \cup {a}
        /\ tx' = [tx EXCEPT ![s] = Idle]
    BY DEF Commit, Respond
  <1>3. /\ DOMAIN tx' = Sessions
        /\ \A u \in Sessions : tx'[u] = IF u = s THEN Idle ELSE tx[u]
    BY <1>2 DEF IInv, TypeOK
  <1>4. Current(tx[s])
    BY DEF IInv, ReadsCurrent
  <1>5. a \in Receipt /\ a.command = c /\ a.result = result
    BY <1>1 DEF Lawful, Receipt
  <1>6. \A o \in Orders : reservations'[o] = IF o = c.orderId THEN row ELSE reservations[o]
    BY <1>1, <1>2 DEF IInv, TypeOK
  <1> HIDE DEF a, c
  <1>7. TypeOK'
    <2>1. \A u \in Sessions : TransactionOK(tx'[u])
      BY <1>3, IdleExcludes DEF IInv, TypeOK
    <2>2. receipts' \subseteq Receipt /\ answers' \subseteq Receipt
      BY <1>2, <1>5 DEF IInv, TypeOK
    <2>3. \A q, r \in receipts' :
            q.command.idempotencyKey = r.command.idempotencyKey => q = r
      BY <1>2, <1>4, <1>5 DEF IInv, TypeOK, Current, UsedKeys, c
    <2>4. reservations' \in [Orders -> Reservation]
      BY <1>1, <1>2 DEF IInv, TypeOK, Lawful
    <2>5. \A o \in Orders :
            /\ reservations'[o].status = "ABSENT" <=> reservations'[o].sagaId = None
            /\ reservations'[o].reserveResult = None <=> reservations'[o].items = NoItems
      BY <1>6 DEF IInv, TypeOK, Lawful
    <2> QED
      BY <1>3, <2>1, <2>2, <2>3, <2>4, <2>5 DEF TypeOK, TransactionOK, Affordable
  <1>8. NeverOversold' /\ HeldListed'
    BY <1>6 DEF IInv, Affordable, Lawful, NeverOversold, HeldListed
  <1>9. LocksExclusive'
    BY <1>3, IdleExcludes DEF IInv, LocksExclusive
  <1>10. ReadsCurrent'
    <2> SUFFICES ASSUME NEW u \in Sessions, u # s, tx[u].phase = "products"
                 PROVE  Current(tx[u])'
      BY <1>3 DEF ReadsCurrent, Current, Idle
    <2>1. Exclusive(tx[s], tx[u]) /\ Current(tx[u])
      BY DEF IInv, LocksExclusive, ReadsCurrent
    <2>2. /\ tx[u].command \in Commands /\ tx[u].command.orderId \in Orders
          /\ DOMAIN tx[u].seen \subseteq Products
      BY OpenTransaction, CommandFields
    <2>3. tx[u].existing = reservations'[tx[u].command.orderId]
      BY <1>6, <2>1, <2>2 DEF Exclusive, Current, c
    <2>4. tx[u].command.idempotencyKey \notin UsedKeys'
      BY <1>2, <1>5, <2>1 DEF Exclusive, Current, UsedKeys, c
    <2>5. \A p \in DOMAIN tx[u].seen : tx[u].seen[p] = stock'[p]
      BY <2>1, <2>2 DEF Exclusive, Current, Affordable
    <2>6. \A p \in DOMAIN tx[u].seen :
            \A q \in RowsToLock(tx[u].command, tx[u].existing) \ DOMAIN tx[u].seen : p < q
      BY <2>1 DEF Current
    <2> QED
      BY <1>3, <2>3, <2>4, <2>5, <2>6 DEF Current
  <1>11. AnswersRecorded'
    BY <1>2 DEF IInv, AnswersRecorded
  <1>12. ReceiptsKept'
    <2>1. \A r \in receipts : r.command.orderId \in Orders
      BY CommandFields DEF IInv, TypeOK, Receipt
    <2>2. tx[s].existing = reservations[c.orderId]
      BY <1>4 DEF Current, c
    <2>3. Promised("RELEASE_INVENTORY", "RELEASED")'
      BY <1>1, <1>2, <1>5, <1>6, <2>1, <2>2 DEF IInv, ReceiptsKept, Promised, Lawful, c
    <2>4. Promised("FINALIZE_INVENTORY", "FINALIZED")'
      BY <1>1, <1>2, <1>5, <1>6, <2>1, <2>2 DEF IInv, ReceiptsKept, Promised, Lawful, c
    <2> QED
      BY <2>3, <2>4 DEF ReceiptsKept
  <1> QED
    BY <1>7, <1>8, <1>9, <1>10, <1>11, <1>12 DEF IInv

(* What a transaction that decides knows: its command, and that the row it  *)
(* read, with all that holds of rows, is still the order's.                 *)
LEMMA Deciding ==
  ASSUME IInv, NEW s \in Sessions, tx[s].phase = "products"
  PROVE  LET c == tx[s].command
             row == tx[s].existing
         IN /\ c \in Commands
            /\ row \in Reservation
            /\ row.status = "ABSENT" <=> row.sagaId = None
            /\ row.reserveResult = None <=> row.items = NoItems
            /\ row.status = "RESERVED" => DOMAIN row.items \subseteq Products
            /\ \A p \in DOMAIN tx[s].seen : tx[s].seen[p] = stock[p]
  <1>1. tx[s].command \in Commands /\ tx[s].existing \in Reservation
    BY OpenTransaction
  <1>2. tx[s].command.orderId \in Orders
    BY <1>1, CommandFields
  <1>3. Current(tx[s])
    BY DEF IInv, ReadsCurrent
  <1> QED
    BY <1>1, <1>2, <1>3 DEF Current, IInv, TypeOK, HeldListed

(* Outcomes that leave the stock alone can afford it.                       *)
LEMMA StockAlone ==
  ASSUME IInv, UNCHANGED stock, NEW seen
  PROVE  Affordable(seen)
  BY DEF IInv, TypeOK, NeverOversold, Affordable

LEMMA RefuseConflictPreserves ==
  ASSUME IInv, NEW s \in Sessions, RefuseConflict(s)
  PROVE  IInv'
  <1>1. tx[s].phase = "products"
    BY DEF RefuseConflict, Decides, InPhase
  <1>2. Lawful(tx[s].command, tx[s].existing, tx[s].existing, "IDEMPOTENCY_CONFLICT")
    BY <1>1, Deciding DEF Lawful, Results, Succeeded
  <1> QED
    BY <1>1, <1>2, StockAlone, CommitStep DEF RefuseConflict

LEMMA RefusePreserves ==
  ASSUME IInv, NEW s \in Sessions, Refuse(s)
  PROVE  IInv'
  <1>1. tx[s].phase = "products"
    BY DEF Refuse, Outcome, Decides, InPhase
  <1>2. /\ Lawful(tx[s].command, tx[s].existing, tx[s].existing, "ALREADY_COMPENSATED")
        /\ Lawful(tx[s].command, tx[s].existing, tx[s].existing, "INVALID_STATE")
    BY <1>1, Deciding DEF Lawful, Results, Succeeded
  <1> QED
    BY <1>1, <1>2, StockAlone, CommitStep DEF Refuse, Outcome

LEMMA ReplayReservePreserves ==
  ASSUME IInv, NEW s \in Sessions, ReplayReserve(s)
  PROVE  IInv'
  <1> DEFINE row == tx[s].existing
  <1>1. tx[s].phase = "products" /\ tx[s].command.operation = "RESERVE_INVENTORY"
    BY DEF ReplayReserve, Outcome, Decides, InPhase
  <1>2. row.reserveResult \in Results
    BY <1>1, Deciding DEF ReplayReserve, Reservation
  <1>3. Lawful(tx[s].command, row, row, row.reserveResult)
    BY <1>1, <1>2, Deciding DEF Lawful
  <1> QED
    BY <1>1, <1>3, StockAlone, CommitStep DEF ReplayReserve, Outcome

(* The row a reserve leaves, whether it got its stock or not.               *)
LEMMA ReservedRow ==
  ASSUME NEW s, NEW status \in {"RESERVED", "FAILED"},
         NEW result \in {"RESERVED", "INSUFFICIENT_STOCK"},
         tx[s].command \in Commands, tx[s].existing \in Reservation,
         tx[s].command.operation = "RESERVE_INVENTORY",
         tx[s].existing.status \notin {"RELEASED", "FINALIZED"},
         status = "RESERVED" => DOMAIN tx[s].command.items \subseteq Products
  PROVE  Lawful(tx[s].command, tx[s].existing, Reserved(s, status, result), result)
  <1> DEFINE c == tx[s].command
             row == Reserved(s, status, result)
  <1>1. /\ c.sagaId \in Sagas /\ c.sagaId # None
        /\ c.items \in Baskets /\ c.items # NoItems
    BY CommandFields
  <1>2. /\ row.status = status /\ row.sagaId = c.sagaId
        /\ row.items = c.items /\ row.reserveResult = result
        /\ row \in Reservation
    BY <1>1 DEF Reserved, Owned, Reservation, Results
  <1>3. result # None
    BY DEF None
  <1> HIDE DEF row
  <1>4. Lawful(c, tx[s].existing, row, result)
    BY <1>1, <1>2, <1>3 DEF Lawful, Results
  <1> QED
    BY <1>4 DEF row

LEMMA ReservePreserves ==
  ASSUME IInv, NEW s \in Sessions, Reserve(s)
  PROVE  IInv'
  <1> DEFINE c == tx[s].command
             seen == tx[s].seen
  <1>1. /\ tx[s].phase = "products" /\ c.operation = "RESERVE_INVENTORY"
        /\ tx[s].existing.status \notin {"RELEASED", "FINALIZED"}
    BY DEF Reserve, Decides, InPhase, TakesStock
  <1>2. DOMAIN c.items \subseteq Products
    BY ConstantsAssumption DEF Reserve, Sufficient
  <1>3. DOMAIN c.items \subseteq DOMAIN seen
    BY <1>2 DEF Reserve, Decides, Unlocked, RowsToLock
  <1>4. c.items \in [DOMAIN c.items -> Nat \ {0}]
    BY <1>1, Deciding, CommandFields
  <1>5. \A p \in DOMAIN c.items : stock[p] >= c.items[p]
    BY <1>1, <1>3, Deciding DEF Reserve, Sufficient
  <1>6. stock' = [p \in Products |->
                    IF p \in DOMAIN c.items THEN stock[p] - c.items[p] ELSE stock[p]]
    BY DEF Reserve
  <1>7. stock \in [Products -> Int] /\ \A p \in Products : stock[p] >= 0
    BY DEF IInv, TypeOK, NeverOversold
  <1>8. Affordable(seen)
    <2>1. stock' \in [Products -> Int]
      BY <1>4, <1>6, <1>7
    <2>2. \A p \in Products : stock'[p] >= 0
      BY <1>4, <1>5, <1>6, <1>7
    <2> QED
      BY <1>3, <1>6, <2>1, <2>2 DEF Affordable
  <1>9. Lawful(c, tx[s].existing, Reserved(s, "RESERVED", "RESERVED"), "RESERVED")
    BY <1>1, <1>2, Deciding, ReservedRow
  <1> QED
    BY <1>1, <1>8, <1>9, CommitStep DEF Reserve

LEMMA FailReservePreserves ==
  ASSUME IInv, NEW s \in Sessions, FailReserve(s)
  PROVE  IInv'
  <1>1. /\ tx[s].phase = "products" /\ tx[s].command.operation = "RESERVE_INVENTORY"
        /\ tx[s].existing.status \notin {"RELEASED", "FINALIZED"}
    BY DEF FailReserve, Decides, InPhase, TakesStock
  <1>2. Lawful(tx[s].command, tx[s].existing,
               Reserved(s, "FAILED", "INSUFFICIENT_STOCK"), "INSUFFICIENT_STOCK")
    BY <1>1, Deciding, ReservedRow
  <1> QED
    BY <1>1, <1>2, StockAlone, CommitStep DEF FailReserve

LEMMA ReleasePreserves ==
  ASSUME IInv, NEW s \in Sessions, Release(s)
  PROVE  IInv'
  <1> DEFINE row == tx[s].existing
             left == [row EXCEPT !.status = "RELEASED"]
  <1>1. /\ tx[s].phase = "products" /\ tx[s].command.operation = "RELEASE_INVENTORY"
        /\ row.status = "RESERVED"
    BY DEF Release, Decides, InPhase, ReturnsStock
  <1>2. DOMAIN row.items \subseteq DOMAIN tx[s].seen
    BY <1>1 DEF Release, Decides, Unlocked, RowsToLock, TakesStock
  <1>3. row \in Reservation /\ \A p \in DOMAIN row.items : row.items[p] \in Nat
    BY <1>1, Deciding, BasketQuantities DEF Reservation
  <1>4. stock' = [p \in Products |->
                    IF p \in DOMAIN row.items THEN stock[p] + row.items[p] ELSE stock[p]]
    BY DEF Release
  <1>5. stock \in [Products -> Int] /\ \A p \in Products : stock[p] >= 0
    BY DEF IInv, TypeOK, NeverOversold
  <1>6. Affordable(tx[s].seen)
    <2>1. stock' \in [Products -> Int]
      BY <1>3, <1>4, <1>5
    <2>2. \A p \in Products : stock'[p] >= 0
      BY <1>3, <1>4, <1>5
    <2> QED
      BY <1>2, <1>4, <2>1, <2>2 DEF Affordable
  <1>7. /\ left \in Reservation /\ left.status = "RELEASED" /\ left.sagaId = row.sagaId
        /\ left.items = row.items /\ left.reserveResult = row.reserveResult
    BY <1>3 DEF Reservation
  <1>8. Lawful(tx[s].command, row, left, "RELEASED")
    <2> HIDE DEF left
    <2> QED
      BY <1>1, <1>7, Deciding DEF Lawful, Results
  <1> QED
    BY <1>1, <1>6, <1>8, CommitStep DEF Release

LEMMA ReleaseNothingPreserves ==
  ASSUME IInv, NEW s \in Sessions, ReleaseNothing(s)
  PROVE  IInv'
  <1> DEFINE c == tx[s].command
             row == tx[s].existing
             left == [Owned(s) EXCEPT !.status = "RELEASED"]
  <1>1. /\ tx[s].phase = "products" /\ c.operation = "RELEASE_INVENTORY"
        /\ row.status # "FINALIZED"
    BY DEF ReleaseNothing, Outcome, Decides, InPhase
  <1>2. row \in Reservation /\ c.sagaId \in Sagas /\ c.sagaId # None
    BY <1>1, Deciding, CommandFields
  <1>3. /\ left \in Reservation /\ left.status = "RELEASED" /\ left.sagaId = c.sagaId
        /\ left.items = row.items /\ left.reserveResult = row.reserveResult
    BY <1>2 DEF Owned, Reservation
  <1>4. Lawful(c, row, left, "NOOP")
    <2> HIDE DEF left
    <2> QED
      BY <1>1, <1>2, <1>3, Deciding DEF Lawful, Results
  <1> QED
    BY <1>1, <1>4, StockAlone, CommitStep DEF ReleaseNothing, Outcome

LEMMA FinalizePreserves ==
  ASSUME IInv, NEW s \in Sessions, Finalize(s)
  PROVE  IInv'
  <1> DEFINE row == tx[s].existing
             left == [row EXCEPT !.status = "FINALIZED"]
  <1>1. /\ tx[s].phase = "products" /\ tx[s].command.operation = "FINALIZE_INVENTORY"
        /\ row.status \in {"RESERVED", "FINALIZED"}
    BY DEF Finalize, Outcome, Decides, InPhase
  <1>2. row \in Reservation
    BY <1>1, Deciding
  <1>3. /\ left \in Reservation /\ left.status = "FINALIZED" /\ left.sagaId = row.sagaId
        /\ left.items = row.items /\ left.reserveResult = row.reserveResult
    BY <1>2 DEF Reservation
  <1>4. Lawful(tx[s].command, row, left, "FINALIZED")
    <2> HIDE DEF left
    <2> QED
      BY <1>1, <1>3, Deciding DEF Lawful, Results
  <1> QED
    BY <1>1, <1>4, StockAlone, CommitStep DEF Finalize, Outcome

-----------------------------------------------------------------------------
(* Induction.                                                              *)

LEMMA InitIInv == Init => IInv
  <1> SUFFICES ASSUME Init PROVE IInv
    OBVIOUS
  <1>1. NoReservation \in Reservation /\ NoReservation.status = "ABSENT"
        /\ NoReservation.sagaId = None /\ NoReservation.items = NoItems
        /\ NoReservation.reserveResult = None
    BY DEF NoReservation, Reservation, Baskets
  <1>2. TypeOK
    BY <1>1, ConstantsAssumption, IdleExcludes DEF Init, TypeOK
  <1>3. NeverOversold
    BY ConstantsAssumption DEF Init, NeverOversold
  <1>4. LocksExclusive /\ ReadsCurrent
    BY IdleExcludes DEF Init, LocksExclusive, ReadsCurrent
  <1> QED
    BY <1>1, <1>2, <1>3, <1>4 DEF Init, IInv, HeldListed, AnswersRecorded,
                                  ReceiptsKept, Promised

LEMMA DecidePreserves ==
  ASSUME IInv, NEW s \in Sessions, Decide(s)
  PROVE  IInv'
  BY RefuseConflictPreserves, RefusePreserves, ReplayReservePreserves,
     ReservePreserves, FailReservePreserves, ReleasePreserves,
     ReleaseNothingPreserves, FinalizePreserves,
     Zenon DEF Decide

LEMMA NextIInv ==
  ASSUME IInv, [Next]_vars
  PROVE  IInv'
  <1>1. CASE UNCHANGED vars
    BY <1>1 DEF vars, IInv, TypeOK, TransactionOK, NeverOversold, HeldListed,
                LocksExclusive, Exclusive, ReadsCurrent, Current, UsedKeys,
                AnswersRecorded, ReceiptsKept, Promised
  <1>2. CASE Next
    BY <1>2, BeginPreserves, LockOrderPreserves, InsertReceiptPreserves,
       ReplayReceiptPreserves, LockProductPreserves, DecidePreserves,
       AbortPreserves, Zenon DEF Next, Acquire
  <1> QED
    BY <1>1, <1>2

THEOREM Invariance == Spec => []IInv
  <1>1. IInv /\ [Next]_vars => IInv'
    BY NextIInv
  <1> QED
    BY InitIInv, <1>1, PTL DEF Spec

(* Every stored value has its column's type, and each key has one receipt.  *)
THEOREM TypeCorrect == Spec => []TypeOK
  <1>1. IInv => TypeOK
    BY DEF IInv
  <1> QED
    BY <1>1, Invariance, PTL

(* No schedule of reserves promises stock twice, and the check constraint   *)
(* stock_nonnegative is never what stops one.                               *)
THEOREM StockNeverOversold == Spec => []NeverOversold
  <1>1. IInv => NeverOversold
    BY DEF IInv
  <1> QED
    BY <1>1, Invariance, PTL

(* Nothing is held for an order once its release was answered.              *)
THEOREM ReleaseFinality == Spec => []ReleaseIsFinal
  <1>1. IInv => ReleaseIsFinal
    BY DEF IInv, AnswersRecorded, ReceiptsKept, Promised, ReleaseIsFinal, Succeeded
  <1> QED
    BY <1>1, Invariance, PTL

(* What was finalized is never taken back.                                  *)
THEOREM FinalizeFinality == Spec => []FinalizeIsFinal
  <1>1. IInv => FinalizeIsFinal
    BY DEF IInv, AnswersRecorded, ReceiptsKept, Promised, FinalizeIsFinal, Succeeded
  <1> QED
    BY <1>1, Invariance, PTL

(* One command has one answer.                                              *)
THEOREM AnswersAgree == Spec => []OneAnswerPerCommand
  <1>1. ASSUME IInv, NEW a \in answers, NEW b \in answers, a.command = b.command
        PROVE  a.result = b.result
    <2>1. CASE a \in receipts
      BY <1>1, <2>1 DEF IInv, TypeOK, AnswersRecorded
    <2>2. CASE b \in receipts
      BY <1>1, <2>2 DEF IInv, TypeOK, AnswersRecorded
    <2> QED
      BY <1>1, <2>1, <2>2 DEF IInv, AnswersRecorded
  <1>2. IInv => OneAnswerPerCommand
    BY <1>1 DEF OneAnswerPerCommand
  <1> QED
    BY <1>2, Invariance, PTL

-----------------------------------------------------------------------------
(* Conservation of stock.  The units held are numbered by order, so that a  *)
(* commit, which changes the row of one order, changes their number by what *)
(* that row holds.  They are finitely many in every state, whether or not   *)
(* the orders are.                                                          *)

Conserved ==
  \A p \in Products :
    /\ IsFiniteSet(HeldUnits(p))
    /\ stock[p] + Cardinality(HeldUnits(p)) = InitialStock[p]

LEMMA HoldsNatural ==
  ASSUME NEW row \in Reservation, NEW p
  PROVE  Holds(row, p) \in Nat
  BY BasketQuantities DEF Holds, Reservation

(* The units of one order are as many as its row holds.                     *)
LEMMA UnitsOfOne ==
  ASSUME NEW o, NEW n \in Nat
  PROVE  IsFiniteSet({o} \X (1..n)) /\ Cardinality({o} \X (1..n)) = n
  <1>1. IsFiniteSet({o}) /\ Cardinality({o}) = 1
    BY FS_Singleton
  <1>2. IsFiniteSet(1..n) /\ Cardinality(1..n) = n
    BY FS_Interval
  <1>3. /\ IsFiniteSet({o} \X (1..n))
        /\ Cardinality({o} \X (1..n)) = Cardinality({o}) * Cardinality(1..n)
    BY <1>1, <1>2, FS_Product
  <1> QED
    BY <1>1, <1>2, <1>3

(* A commit that moves between shelf and row the same number of units.      *)
LEMMA UnitsMove ==
  ASSUME IInv, Conserved, NEW o \in Orders, NEW row \in Reservation, NEW p \in Products,
         reservations' = [reservations EXCEPT ![o] = row],
         stock'[p] = stock[p] + Holds(reservations[o], p) - Holds(row, p)
  PROVE  /\ IsFiniteSet(HeldUnits(p)')
         /\ stock'[p] + Cardinality(HeldUnits(p)') = InitialStock[p]
  <1> DEFINE m == Holds(reservations[o], p)
             n == Holds(row, p)
             rest == UNION {{x} \X (1..Holds(reservations[x], p)) : x \in Orders \ {o}}
  <1>1. reservations \in [Orders -> Reservation] /\ stock[p] \in Int
    BY DEF IInv, TypeOK
  <1>2. m \in Nat /\ n \in Nat
    BY <1>1, HoldsNatural
  <1>3. HeldUnits(p) = rest \cup ({o} \X (1..m))
    BY DEF HeldUnits
  <1>4. HeldUnits(p)' = rest \cup ({o} \X (1..n))
    <2>1. \A x \in Orders : reservations'[x] = IF x = o THEN row ELSE reservations[x]
      BY <1>1
    <2>2. \A x \in Orders : Holds(reservations'[x], p) =
                              IF x = o THEN n ELSE Holds(reservations[x], p)
      BY <2>1
    <2>3. HeldUnits(p)' = UNION {{x} \X (1..Holds(reservations'[x], p)) : x \in Orders}
      BY DEF HeldUnits, Holds
    <2> HIDE DEF n
    <2> QED
      BY <2>2, <2>3
  <1>5. \A u \in rest : u[1] # o
    OBVIOUS
  <1>6. IsFiniteSet(HeldUnits(p)) /\ stock[p] + Cardinality(HeldUnits(p)) = InitialStock[p]
    BY DEF Conserved
  <1> DEFINE M == {o} \X (1..m)
             N == {o} \X (1..n)
  <1>7. /\ IsFiniteSet(rest \cup N)
        /\ Cardinality(rest \cup M) \in Nat
        /\ Cardinality(rest \cup N) = Cardinality(rest \cup M) - m + n
    <2>1. rest \cap M = {} /\ rest \cap N = {}
      <3> HIDE DEF rest
      <3> QED
        BY <1>5
    <2>2. /\ IsFiniteSet(M) /\ Cardinality(M) = m
          /\ IsFiniteSet(N) /\ Cardinality(N) = n
      BY <1>2, UnitsOfOne
    <2>3. HeldUnits(p) = rest \cup M
      BY <1>3
    <2> HIDE DEF rest, M, N
    <2>4. IsFiniteSet(rest)
      BY <1>6, <2>3, FS_Subset
    <2>5. /\ IsFiniteSet(rest \cup N)
          /\ Cardinality(rest \cup M) \in Nat
          /\ Cardinality(rest \cup N) = Cardinality(rest \cup M) - Cardinality(M) + Cardinality(N)
      <3> HIDE DEF m, n
      <3>1. /\ Cardinality(rest) \in Nat /\ Cardinality(M) \in Nat /\ Cardinality(N) \in Nat
            /\ Cardinality({}) = 0
        BY <2>2, <2>4, FS_EmptySet, FS_CardinalityType
      <3>2. Cardinality(rest \cup M) = Cardinality(rest) + Cardinality(M) - Cardinality({})
        BY <2>1, <2>2, <2>4, FS_Union
      <3>3. /\ IsFiniteSet(rest \cup N)
            /\ Cardinality(rest \cup N) = Cardinality(rest) + Cardinality(N) - Cardinality({})
        BY <2>1, <2>2, <2>4, FS_Union
      <3> QED
        BY ONLY <3>1, <3>2, <3>3
    <2> QED
      BY <2>2, <2>5
  <1> HIDE DEF rest, m, n
  <1> DEFINE before == Cardinality(HeldUnits(p))
             after == Cardinality(HeldUnits(p)')
  <1>8. before \in Nat /\ after = before - m + n
    BY <1>3, <1>4, <1>7
  <1>9. stock'[p] = stock[p] + m - n
    BY DEF m, n
  <1>10. IsFiniteSet(HeldUnits(p)')
    BY <1>4, <1>7
  <1> HIDE DEF before, after
  <1>11. stock'[p] + after = stock[p] + before
    BY <1>1, <1>2, <1>8, <1>9
  <1> QED
    BY <1>6, <1>10, <1>11 DEF before, after

(* What every commit does with the units of its order's row.                *)
LEMMA CommitMoves ==
  ASSUME IInv, NEW s \in Sessions, Decide(s)
  PROVE  \E o \in Orders, row \in Reservation :
           /\ reservations' = [reservations EXCEPT ![o] = row]
           /\ \A p \in Products :
                stock'[p] = stock[p] + Holds(reservations[o], p) - Holds(row, p)
  <1> DEFINE c == tx[s].command
             o == c.orderId
             old == tx[s].existing
  <1>1. tx[s].phase = "products"
    BY DEF Decide, RefuseConflict, Refuse, ReplayReserve, Reserve, FailReserve, Release,
           ReleaseNothing, Finalize, Outcome, Decides, InPhase
  <1>2. /\ c \in Commands /\ o \in Orders /\ old \in Reservation /\ old = reservations[o]
        /\ old.reserveResult = None <=> old.items = NoItems
        /\ stock \in [Products -> Int]
        /\ c.sagaId \in Sagas /\ c.items \in Baskets
    BY <1>1, OpenTransaction, Deciding, CommandFields DEF IInv, ReadsCurrent, Current, TypeOK
  <1>3. \A p : Holds(old, p) \in Nat
    BY <1>2, HoldsNatural
  <1>4. ASSUME NEW row \in Reservation, NEW result, Commit(s, row, result),
               \A p \in Products : stock'[p] = stock[p] + Holds(old, p) - Holds(row, p)
        PROVE  \E x \in Orders, new \in Reservation :
                 /\ reservations' = [reservations EXCEPT ![x] = new]
                 /\ \A p \in Products :
                      stock'[p] = stock[p] + Holds(reservations[x], p) - Holds(new, p)
    <2>1. reservations' = [reservations EXCEPT ![o] = row]
      BY <1>4 DEF Commit
    <2> QED
      BY <1>2, <1>4, <2>1
  <1>5. ASSUME NEW row \in Reservation, NEW result, Commit(s, row, result), UNCHANGED stock,
               \A p : Holds(row, p) = Holds(old, p)
        PROVE  \A p \in Products : stock'[p] = stock[p] + Holds(old, p) - Holds(row, p)
    BY <1>2, <1>3, <1>5
  <1>6. CASE RefuseConflict(s) \/ Refuse(s) \/ ReplayReserve(s)
    <2>1. \E result : Commit(s, old, result) /\ UNCHANGED stock
      BY <1>6 DEF RefuseConflict, Refuse, ReplayReserve, Outcome
    <2> QED
      BY <1>2, <1>4, <1>5, <2>1
  <1>7. old.reserveResult = None /\ old.status \notin {"RELEASED", "FINALIZED"}
          => \A p : Holds(old, p) = 0
    BY <1>2 DEF Holds, NoItems
  <1>8. ASSUME NEW status \in {"RESERVED", "FAILED"},
               NEW result \in {"RESERVED", "INSUFFICIENT_STOCK"}
        PROVE  /\ Reserved(s, status, result) \in Reservation
               /\ Reserved(s, status, result).status = status
               /\ Reserved(s, status, result).items = c.items
    BY <1>2 DEF Reserved, Owned, Reservation, Results
  <1>9. CASE Reserve(s)
    <2> DEFINE row == Reserved(s, "RESERVED", "RESERVED")
    <2>1. Commit(s, row, "RESERVED") /\ c.operation = "RESERVE_INVENTORY"
          /\ \A p : Holds(old, p) = 0
      BY <1>7, <1>9 DEF Reserve, TakesStock
    <2>2. stock' = [p \in Products |->
                      IF p \in DOMAIN c.items THEN stock[p] - c.items[p] ELSE stock[p]]
      BY <1>9 DEF Reserve
    <2>3. row \in Reservation /\ row.status = "RESERVED" /\ row.items = c.items
      BY <1>8
    <2> HIDE DEF row
    <2>4. \A p \in Products : stock'[p] = stock[p] + Holds(old, p) - Holds(row, p)
      <3> SUFFICES ASSUME NEW p \in Products
                   PROVE  stock'[p] = stock[p] + Holds(old, p) - Holds(row, p)
        OBVIOUS
      <3>1. Holds(row, p) = IF p \in DOMAIN c.items THEN c.items[p] ELSE 0
        BY <2>3 DEF Holds
      <3>2. stock'[p] = IF p \in DOMAIN c.items THEN stock[p] - c.items[p] ELSE stock[p]
        BY <2>2
      <3>3. stock[p] \in Int /\ Holds(old, p) = 0 /\ Holds(row, p) \in Nat
        BY <1>2, <2>1, <2>3, HoldsNatural
      <3> QED
        BY <3>1, <3>2, <3>3
    <2> QED
      BY <1>4, <2>1, <2>3, <2>4
  <1>10. CASE FailReserve(s)
    <2> DEFINE row == Reserved(s, "FAILED", "INSUFFICIENT_STOCK")
    <2>1. Commit(s, row, "INSUFFICIENT_STOCK") /\ UNCHANGED stock /\ \A p : Holds(old, p) = 0
      BY <1>7, <1>10 DEF FailReserve, TakesStock
    <2>2. row \in Reservation /\ row.status = "FAILED"
      BY <1>8
    <2> HIDE DEF row
    <2>3. \A p : Holds(row, p) = Holds(old, p)
      BY <2>1, <2>2 DEF Holds
    <2> QED
      BY <1>4, <1>5, <2>1, <2>2, <2>3
  <1>11. CASE Release(s)
    <2> DEFINE row == [old EXCEPT !.status = "RELEASED"]
    <2>1. Commit(s, row, "RELEASED") /\ old.status = "RESERVED"
      BY <1>11 DEF Release, ReturnsStock
    <2>2. stock' = [p \in Products |->
                      IF p \in DOMAIN old.items THEN stock[p] + old.items[p] ELSE stock[p]]
      BY <1>11 DEF Release
    <2>3. row \in Reservation /\ row.status = "RELEASED"
      BY <1>2 DEF Reservation
    <2> HIDE DEF row
    <2>4. \A p \in Products : stock'[p] = stock[p] + Holds(old, p) - Holds(row, p)
      <3> SUFFICES ASSUME NEW p \in Products
                   PROVE  stock'[p] = stock[p] + Holds(old, p) - Holds(row, p)
        OBVIOUS
      <3>1. Holds(row, p) = 0
        BY <2>3 DEF Holds
      <3>2. Holds(old, p) = IF p \in DOMAIN old.items THEN old.items[p] ELSE 0
        BY <2>1 DEF Holds
      <3>3. stock'[p] = IF p \in DOMAIN old.items THEN stock[p] + old.items[p] ELSE stock[p]
        BY <2>2
      <3>4. stock[p] \in Int /\ Holds(old, p) \in Nat
        BY <1>2, <1>3
      <3> QED
        BY <3>1, <3>2, <3>3, <3>4
    <2> QED
      BY <1>4, <2>1, <2>3, <2>4
  <1>12. CASE ReleaseNothing(s)
    <2> DEFINE row == [Owned(s) EXCEPT !.status = "RELEASED"]
    <2>1. /\ Commit(s, row, "NOOP") /\ UNCHANGED stock
          /\ old.status \in {"ABSENT", "FAILED", "RELEASED"}
      BY <1>12 DEF ReleaseNothing, Outcome
    <2>2. row \in Reservation /\ row.status = "RELEASED"
      BY <1>2 DEF Owned, Reservation
    <2> HIDE DEF row
    <2>3. \A p : Holds(row, p) = Holds(old, p)
      BY <2>1, <2>2 DEF Holds
    <2> QED
      BY <1>4, <1>5, <2>1, <2>2, <2>3
  <1>13. CASE Finalize(s)
    <2> DEFINE row == [old EXCEPT !.status = "FINALIZED"]
    <2>1. /\ Commit(s, row, "FINALIZED") /\ UNCHANGED stock
          /\ old.status \in {"RESERVED", "FINALIZED"}
      BY <1>13 DEF Finalize, Outcome
    <2>2. row \in Reservation /\ row.status = "FINALIZED" /\ row.items = old.items
      BY <1>2 DEF Reservation
    <2> HIDE DEF row
    <2>3. \A p : Holds(row, p) = Holds(old, p)
      BY <2>1, <2>2 DEF Holds
    <2> QED
      BY <1>4, <1>5, <2>1, <2>2, <2>3
  <1> QED
    BY <1>6, <1>9, <1>10, <1>11, <1>12, <1>13 DEF Decide

LEMMA NothingMoves ==
  ASSUME Conserved, UNCHANGED <<stock, reservations>>
  PROVE  Conserved'
  BY DEF Conserved, HeldUnits, Holds

(* Stock is neither lost nor made, however many orders share a product.     *)
THEOREM StockIsConserved == Spec => []StockConserved
  <1>1. Init => Conserved
    <2> SUFFICES ASSUME Init, NEW p \in Products
                 PROVE  /\ IsFiniteSet(HeldUnits(p))
                        /\ stock[p] + Cardinality(HeldUnits(p)) = InitialStock[p]
      BY DEF Conserved
    <2>1. \A o \in Orders : Holds(reservations[o], p) = 0
      BY DEF Init, Holds, NoReservation
    <2>2. HeldUnits(p) = {}
      BY <2>1 DEF HeldUnits
    <2>3. stock[p] = InitialStock[p] /\ InitialStock[p] \in Nat
      BY ConstantsAssumption DEF Init
    <2>4. IsFiniteSet({}) /\ Cardinality({}) = 0
      BY FS_EmptySet
    <2> QED
      BY <2>2, <2>3, <2>4
  <1>2. IInv /\ Conserved /\ [Next]_vars => Conserved'
    <2> SUFFICES ASSUME IInv, Conserved, [Next]_vars PROVE Conserved'
      OBVIOUS
    <2>1. ASSUME NEW s \in Sessions, Decide(s) PROVE Conserved'
      <3>1. PICK o \in Orders, row \in Reservation :
              /\ reservations' = [reservations EXCEPT ![o] = row]
              /\ \A p \in Products :
                   stock'[p] = stock[p] + Holds(reservations[o], p) - Holds(row, p)
        BY <2>1, CommitMoves
      <3>2. ASSUME NEW p \in Products
            PROVE  /\ IsFiniteSet(HeldUnits(p)')
                   /\ stock'[p] + Cardinality(HeldUnits(p)') = InitialStock[p]
        BY <3>1, UnitsMove
      <3> QED
        BY <3>2 DEF Conserved
    <2>2. ASSUME NEW s \in Sessions,
                 (\E c \in Commands : Begin(s, c)) \/ Acquire(s) \/ Abort(s)
          PROVE  Conserved'
      <3>1. UNCHANGED <<stock, reservations>>
        BY <2>2 DEF Begin, Acquire, LockOrder, InsertReceipt, ReplayReceipt, LockProduct, Abort
      <3> QED
        BY <3>1, NothingMoves
    <2>3. CASE UNCHANGED vars
      BY <2>3, NothingMoves DEF vars
    <2> QED
      BY <2>1, <2>2, <2>3 DEF Next
  <1>3. Conserved => StockConserved
    BY DEF Conserved, StockConserved
  <1> QED
    BY <1>1, <1>2, <1>3, Invariance, PTL DEF Spec

-----------------------------------------------------------------------------
(* A bounded set of naturals that is not empty has a greatest element.      *)
LEMMA GreatestElement ==
  ASSUME NEW S \in SUBSET Nat, S # {}, NEW last \in Nat, \A x \in S : x <= last
  PROVE  \E x \in S : \A y \in S : y <= x
  <1> DEFINE D == {last - x : x \in S}
  <1>1. D \in SUBSET Nat /\ D # {}
    <2>1. \A x \in S : last - x \in Nat
      OBVIOUS
    <2> QED
      BY <2>1
  <1>2. PICK x \in S : Min(D) = last - x
    BY <1>1, LeastElement
  <1>3. \A y \in S : last - x <= last - y
    BY <1>1, <1>2, LeastElement
  <1> QED
    BY <1>3

(* No transactions wait for each other in a circle.  If all of a group      *)
(* waited, one of them would wait for a product; of those, the one that     *)
(* waits for the greatest id waits for a transaction that holds that row    *)
(* and so, locking in order, waits for a greater one.                       *)
THEOREM NoDeadlock == Spec => []NoWaitCycle
  <1>1. ASSUME IInv, NEW waiting \in SUBSET Sessions,
               \A s \in waiting : \E t \in waiting : WaitsFor(s, t)
        PROVE  \A s \in waiting : tx[s].phase # "products"
    <2> DEFINE W == {s \in waiting : tx[s].phase = "products"}
               R == {NextRow(s) : s \in W}
    <2> SUFFICES ASSUME W # {} PROVE FALSE
      OBVIOUS
    <2>1. ASSUME NEW s \in W
          PROVE  /\ NextRow(s) \in Products /\ NextRow(s) \in Nat
                 /\ NextRow(s) \in Unlocked(s)
                 /\ \E t \in W : NextRow(s) \in DOMAIN tx[t].seen
      <3>1. PICK t \in waiting : WaitsFor(s, t)
        BY <1>1
      <3>2. Unlocked(s) # {} /\ HoldsProduct(t, NextRow(s))
        BY <3>1 DEF WaitsFor, InPhase
      <3>3. t \in W /\ NextRow(s) \in DOMAIN tx[t].seen
        BY <3>2 DEF HoldsProduct, InPhase
      <3>4. Unlocked(s) \in SUBSET Nat
        BY Deciding, <1>1, ConstantsAssumption DEF Unlocked, RowsToLock, ReturnsStock
      <3>5. NextRow(s) \in Unlocked(s)
        BY <3>2, <3>4, LeastElement DEF NextRow
      <3>6. NextRow(s) \in Products
        BY <1>1, <3>3, OpenTransaction
      <3> QED
        BY <3>3, <3>4, <3>5, <3>6
    <2>2. PICK last \in Nat : \A p \in Products : p <= last
      BY ConstantsAssumption
    <2>3. R \in SUBSET Nat /\ R # {} /\ \A r \in R : r <= last
      BY <2>1, <2>2
    <2>4. PICK s \in W : \A r \in R : r <= NextRow(s)
      BY <2>3, GreatestElement
    <2>5. PICK t \in W : NextRow(s) \in DOMAIN tx[t].seen
      BY <2>1
    <2>6. NextRow(s) < NextRow(t)
      <3>1. Current(tx[t]) /\ NextRow(t) \in Unlocked(t)
        BY <1>1, <2>1 DEF IInv, ReadsCurrent
      <3> QED
        BY <2>5, <3>1 DEF Current, Unlocked
    <2>7. NextRow(s) \in Nat /\ NextRow(t) \in Nat /\ NextRow(t) <= NextRow(s)
      BY <2>1, <2>4
    <2> QED
      BY <2>6, <2>7
  <1>2. ASSUME IInv, NEW waiting \in SUBSET Sessions, waiting # {},
               \A s \in waiting : \E t \in waiting : WaitsFor(s, t)
        PROVE  FALSE
    <2>1. \A s \in waiting : tx[s].phase # "products"
      BY <1>1, <1>2
    <2>2. \A s \in waiting : tx[s].phase # "receipt"
      BY <1>2, <2>1 DEF WaitsFor, InPhase, HoldsKey
    <2>3. \A s \in waiting : FALSE
      BY <1>2, <2>1, <2>2 DEF WaitsFor, InPhase, HoldsOrder
    <2> QED
      BY <1>2, <2>3
  <1>3. IInv => NoWaitCycle
    <2> SUFFICES ASSUME IInv, NEW waiting \in (SUBSET Sessions) \ {{}}
                 PROVE  \E s \in waiting : \A t \in waiting : ~WaitsFor(s, t)
      BY DEF NoWaitCycle
    <2>1. waiting \in SUBSET Sessions /\ waiting # {}
      OBVIOUS
    <2>2. CASE \A s \in waiting : \E t \in waiting : WaitsFor(s, t)
      BY <1>2, <2>1, <2>2
    <2> QED
      BY <2>2
  <1> QED
    BY <1>3, Invariance, PTL

-----------------------------------------------------------------------------
(* The promise to the saga: what a row has come to, and that every receipt *)
(* goes on to be true of it.                                               *)

RowTrue(row) ==
  /\ row.status # "PENDING"
  /\ row.status = "ABSENT" => row.reserveResult = None
  /\ row.status \in {"RESERVED", "FINALIZED"} => row.reserveResult = "RESERVED"
  /\ row.status = "FAILED" => row.reserveResult = "INSUFFICIENT_STOCK"
  /\ row.reserveResult \in {None, "RESERVED", "INSUFFICIENT_STOCK"}

Tells(result, row) ==
  /\ result \in {"RESERVED", "INSUFFICIENT_STOCK"} => row.reserveResult = result
  /\ result \in {"RELEASED", "NOOP"} => row.status = "RELEASED"
  /\ result = "FINALIZED" => row.status = "FINALIZED"

RowGrows(old, row) ==
  /\ old.reserveResult # None => row.reserveResult = old.reserveResult
  /\ old.status \in {"RELEASED", "FINALIZED"} => row.status = old.status
  /\ StepEffect(row) \in Promise!Follows[StepEffect(old)]

TruthInv ==
  /\ \A o \in Orders : RowTrue(reservations[o])
  /\ \A r \in receipts : Tells(r.result, reservations[r.command.orderId])

Told(o) == UNION {Telling(a) : a \in {b \in answers : b.command.orderId = o}}

TellingsTrue == \A o \in Orders : Told(o) \subseteq Promise!TrueOf[StepEffect(reservations[o])]

(* How a step may change what the saga sees.                                *)
Promises == TruthInv' /\ [Promise!Next]_(Promise!vars)

LEMMA TellingsAreTrue == IInv /\ TruthInv => TellingsTrue
  <1> SUFFICES ASSUME IInv, TruthInv, NEW o \in Orders, NEW a \in answers,
                      a.command.orderId = o, NEW t \in Telling(a)
               PROVE  t \in Promise!TrueOf[StepEffect(reservations[o])]
    BY DEF TellingsTrue, Told
  <1> DEFINE row == reservations[o]
  <1>1. a.result \in {"RESERVED", "INSUFFICIENT_STOCK", "RELEASED", "NOOP", "FINALIZED"}
    BY DEF Telling
  <1>2. a \in receipts
    BY <1>1 DEF IInv, AnswersRecorded
  <1>3. Tells(a.result, row) /\ RowTrue(row)
    BY <1>2 DEF TruthInv
  <1>4. row.status \in {"ABSENT", "PENDING", "RESERVED", "RELEASED", "FINALIZED", "FAILED"}
    BY DEF IInv, TypeOK, Reservation
  <1> HIDE DEF row
  <1>5. CASE a.result = "RESERVED"
    <2>1. StepEffect(row) \in {"done", "undone", "final"}
      BY <1>3, <1>4, <1>5 DEF Tells, RowTrue, StepEffect, None
    <2> QED
      BY <2>1, <1>5 DEF Telling, Promise!TrueOf, row
  <1>6. CASE a.result = "INSUFFICIENT_STOCK"
    <2>1. StepEffect(row) \in {"none", "void"}
      BY <1>3, <1>4, <1>6 DEF Tells, RowTrue, StepEffect, None
    <2> QED
      BY <2>1, <1>6 DEF Telling, Promise!TrueOf, row
  <1>7. CASE a.result \in {"RELEASED", "NOOP"}
    <2>1. StepEffect(row) \in {"undone", "void"}
      BY <1>3, <1>7 DEF Tells, StepEffect
    <2> QED
      BY <2>1, <1>7 DEF Telling, Promise!TrueOf, row
  <1>8. CASE a.result = "FINALIZED"
    <2>1. StepEffect(row) = "final"
      BY <1>3, <1>8 DEF Tells, StepEffect
    <2> QED
      BY <2>1, <1>8 DEF Telling, Promise!TrueOf, row
  <1> QED
    BY <1>1, <1>5, <1>6, <1>7, <1>8

(* Moving one order's step the way it may go, and giving out an answer for  *)
(* it, is a step of the participant.                                        *)
LEMMA AnswerIsPromised ==
  ASSUME IInv, IInv', TruthInv', NEW o \in Orders, NEW row, NEW a, a.command.orderId = o,
         reservations' = [reservations EXCEPT ![o] = row], answers' = answers \cup {a},
         StepEffect(row) \in Promise!Follows[StepEffect(reservations[o])]
  PROVE  Promise!Next
  <1> DEFINE effect == [x \in Orders |-> StepEffect(reservations[x])]
             told == [x \in Orders |-> Told(x)]
             next == StepEffect(row)
             results == Told(o)'
  <1>1. TellingsTrue'
    BY TellingsAreTrue, PTL
  <1>2. /\ reservations'[o] = row
        /\ \A x \in Orders : reservations'[x] = IF x = o THEN row ELSE reservations[x]
    BY DEF IInv, TypeOK
  <1>3. /\ Told(o) \subseteq results
        /\ \A x \in Orders \ {o} : Told(x)' = Told(x)
    BY DEF Told
  <1>4. results \subseteq Promise!TrueOf[next]
    BY <1>1, <1>2 DEF TellingsTrue
  <1>5. next = "done" => "REFUSED" \notin Told(o)
    BY <1>3, <1>4 DEF Promise!TrueOf
  <1>6. effect' = [effect EXCEPT ![o] = next]
    <2>1. \A x \in Orders : effect'[x] = IF x = o THEN next ELSE effect[x]
      BY <1>2
    <2>2. effect' = [x \in Orders |-> effect'[x]] /\ effect = [x \in Orders |-> effect[x]]
      OBVIOUS
    <2> HIDE DEF effect, next
    <2> QED
      BY <2>1, <2>2
  <1>7. told' = [told EXCEPT ![o] = @ \cup results]
    BY <1>3
  <1>8. next \in Promise!Follows[effect[o]] /\ told[o] = Told(o)
    OBVIOUS
  <1> HIDE DEF next, results
  <1>9. effect'[o] = next
    BY <1>6
  <1>10. Promise!Step(o)
    BY <1>4, <1>5, <1>6, <1>7, <1>8, <1>9 DEF Promise!Step, Told
  <1> QED
    BY <1>10 DEF Promise!Next

LEMMA CommitPromises ==
  ASSUME IInv, TruthInv, IInv', NEW s \in Sessions, tx[s].phase = "products",
         NEW row, NEW result, Commit(s, row, result),
         RowTrue(row), RowGrows(tx[s].existing, row), Tells(result, row)
  PROVE  Promises
  <1> DEFINE c == tx[s].command
             o == c.orderId
             a == [command |-> c, result |-> result]
  <1>1. c \in Commands /\ o \in Orders
    BY OpenTransaction, CommandFields
  <1>2. tx[s].existing = reservations[o]
    BY DEF IInv, ReadsCurrent, Current
  <1>3. /\ reservations' = [reservations EXCEPT ![o] = row]
        /\ receipts' = receipts \cup {a} /\ answers' = answers \cup {a}
    BY DEF Commit, Respond
  <1>4. \A x \in Orders : reservations'[x] = IF x = o THEN row ELSE reservations[x]
    BY <1>1, <1>3 DEF IInv, TypeOK
  <1>5. a.command.orderId = o /\ a.result = result
    OBVIOUS
  <1>6. \A r \in receipts : r.command.orderId \in Orders
    BY CommandFields DEF IInv, TypeOK, Receipt
  <1> HIDE DEF a, o, c
  <1>7. \A r \in receipts' : Tells(r.result, reservations'[r.command.orderId])
    <2> SUFFICES ASSUME NEW r \in receipts'
                 PROVE  Tells(r.result, reservations'[r.command.orderId])
      OBVIOUS
    <2>1. CASE r = a
      BY <2>1, <1>1, <1>4, <1>5
    <2>2. CASE r \in receipts /\ r.command.orderId = o
      <3>1. Tells(r.result, reservations[o]) /\ reservations'[o] = row
        BY <2>2, <1>1, <1>4 DEF TruthInv
      <3> QED
        BY <2>2, <3>1, <1>2 DEF Tells, RowGrows, None
    <2>3. CASE r \in receipts /\ r.command.orderId # o
      BY <2>3, <1>4, <1>6 DEF TruthInv
    <2> QED
      BY <2>1, <2>2, <2>3, <1>3
  <1>8. TruthInv'
    BY <1>4, <1>7 DEF TruthInv
  <1>9. Promise!Next
    <2>1. StepEffect(row) \in Promise!Follows[StepEffect(reservations[o])]
      BY <1>2 DEF RowGrows
    <2> QED
      BY <2>1, <1>1, <1>3, <1>5, <1>8, AnswerIsPromised
  <1> QED
    BY <1>8, <1>9 DEF Promises

LEMMA StaysItself ==
  ASSUME NEW row, RowTrue(row), row \in Reservation
  PROVE  RowGrows(row, row)
  BY DEF RowTrue, RowGrows, Reservation, StepEffect, Promise!Follows

LEMMA DecidingTruth ==
  ASSUME IInv, TruthInv, NEW s \in Sessions, tx[s].phase = "products"
  PROVE  /\ tx[s].existing \in Reservation /\ RowTrue(tx[s].existing)
         /\ RowGrows(tx[s].existing, tx[s].existing)
  <1>1. tx[s].existing \in Reservation /\ tx[s].command.orderId \in Orders
    BY OpenTransaction, CommandFields
  <1>2. tx[s].existing = reservations[tx[s].command.orderId]
    BY DEF IInv, ReadsCurrent, Current
  <1> QED
    BY <1>1, <1>2, StaysItself DEF TruthInv

LEMMA DecidePromises ==
  ASSUME IInv, TruthInv, IInv', NEW s \in Sessions, Decide(s)
  PROVE  Promises
  <1> DEFINE row == tx[s].existing
  <1>1. tx[s].phase = "products"
    BY DEF Decide, RefuseConflict, Refuse, ReplayReserve, Reserve, FailReserve, Release,
           ReleaseNothing, Finalize, Outcome, Decides, InPhase
  <1>2. row \in Reservation /\ RowTrue(row) /\ RowGrows(row, row)
    BY <1>1, DecidingTruth
  <1>3. CASE RefuseConflict(s)
    BY <1>1, <1>2, <1>3, CommitPromises DEF RefuseConflict, Tells
  <1>4. CASE Refuse(s)
    <2>1. Tells("ALREADY_COMPENSATED", row) /\ Tells("INVALID_STATE", row)
      BY DEF Tells
    <2>2. Commit(s, row, "ALREADY_COMPENSATED") \/ Commit(s, row, "INVALID_STATE")
      BY <1>4 DEF Refuse, Outcome
    <2> QED
      BY <1>1, <1>2, <2>1, <2>2, CommitPromises
  <1>5. CASE ReplayReserve(s)
    <2>1. Commit(s, row, row.reserveResult) /\ row.reserveResult # None
      BY <1>5 DEF ReplayReserve, Outcome
    <2>2. Tells(row.reserveResult, row)
      BY <2>1, <1>2 DEF RowTrue, Tells
    <2> QED
      BY <1>1, <1>2, <2>1, <2>2, CommitPromises
  <1>6. ASSUME NEW status, NEW result,
               \/ status = "RESERVED" /\ result = "RESERVED"
               \/ status = "FAILED" /\ result = "INSUFFICIENT_STOCK",
               TakesStock(tx[s].command, row), Commit(s, Reserved(s, status, result), result)
        PROVE  Promises
    <2> DEFINE new == Reserved(s, status, result)
    <2>1. row.status = "ABSENT"
      BY <1>2, <1>6 DEF TakesStock, RowTrue, Reservation, None
    <2>2. new.status = status /\ new.reserveResult = result
      BY <1>2 DEF Reserved, Owned, Reservation
    <2>3. row.reserveResult = None /\ StepEffect(row) = "none"
      BY <1>2, <2>1 DEF RowTrue, StepEffect
    <2> HIDE DEF new, row
    <2>4. RowTrue(new) /\ Tells(result, new)
      BY <1>6, <2>2 DEF RowTrue, Tells
    <2>5. RowGrows(row, new)
      BY <1>6, <2>1, <2>2, <2>3 DEF RowGrows, StepEffect, Promise!Follows
    <2> QED
      BY <1>1, <1>6, <2>4, <2>5, CommitPromises DEF new, row
  <1>7. ASSUME NEW new, NEW result, Commit(s, new, result),
               new.reserveResult = row.reserveResult,
               \/ /\ row.status = "RESERVED" /\ new.status = "RELEASED" /\ result = "RELEASED"
               \/ /\ row.status \in {"ABSENT", "FAILED", "RELEASED"} /\ new.status = "RELEASED"
                  /\ result = "NOOP"
               \/ /\ row.status \in {"RESERVED", "FINALIZED"} /\ new.status = "FINALIZED"
                  /\ result = "FINALIZED"
        PROVE  Promises
    <2>1. RowTrue(new) /\ Tells(result, new)
      BY <1>2, <1>7 DEF RowTrue, Tells
    <2>2. StepEffect(new) \in Promise!Follows[StepEffect(row)]
      BY <1>2, <1>7 DEF RowTrue, StepEffect, Promise!Follows, None
    <2>3. RowGrows(row, new)
      BY <1>7, <2>2 DEF RowGrows
    <2> QED
      BY <1>1, <1>7, <2>1, <2>3, CommitPromises
  <1>8. CASE Reserve(s) \/ FailReserve(s)
    BY <1>6, <1>8 DEF Reserve, FailReserve
  <1>9. CASE Release(s)
    <2> DEFINE new == [row EXCEPT !.status = "RELEASED"]
    <2>1. Commit(s, new, "RELEASED") /\ row.status = "RESERVED"
      BY <1>9 DEF Release, ReturnsStock
    <2>2. new.status = "RELEASED" /\ new.reserveResult = row.reserveResult
      BY <1>2 DEF Reservation
    <2> HIDE DEF new, row
    <2> QED
      BY <2>1, <2>2, <1>7 DEF row
  <1>10. CASE ReleaseNothing(s)
    <2> DEFINE new == [Owned(s) EXCEPT !.status = "RELEASED"]
    <2>1. Commit(s, new, "NOOP") /\ row.status \in {"ABSENT", "FAILED", "RELEASED"}
      BY <1>10 DEF ReleaseNothing, Outcome
    <2>2. new.status = "RELEASED" /\ new.reserveResult = row.reserveResult
      BY <1>2 DEF Reservation, Owned
    <2> HIDE DEF new, row
    <2> QED
      BY <2>1, <2>2, <1>7 DEF row
  <1>11. CASE Finalize(s)
    <2> DEFINE new == [row EXCEPT !.status = "FINALIZED"]
    <2>1. Commit(s, new, "FINALIZED") /\ row.status \in {"RESERVED", "FINALIZED"}
      BY <1>11 DEF Finalize, Outcome
    <2>2. new.status = "FINALIZED" /\ new.reserveResult = row.reserveResult
      BY <1>2 DEF Reservation
    <2> HIDE DEF new, row
    <2> QED
      BY <2>1, <2>2, <1>7 DEF row
  <1> QED
    BY <1>3, <1>4, <1>5, <1>8, <1>9, <1>10, <1>11 DEF Decide

LEMMA NextPromises == IInv /\ TruthInv /\ IInv' /\ [Next]_vars => Promises
  <1> SUFFICES ASSUME IInv, TruthInv, IInv', [Next]_vars PROVE Promises
    OBVIOUS
  <1>1. ASSUME UNCHANGED <<reservations, receipts>>
        PROVE  TruthInv'
    BY <1>1 DEF TruthInv
  <1>2. ASSUME UNCHANGED <<reservations, answers>>
        PROVE  UNCHANGED Promise!vars
    BY <1>2 DEF Promise!vars, Telling
  <1>3. ASSUME \/ \E s \in Sessions : \E c \in Commands : Begin(s, c)
               \/ \E s \in Sessions : LockOrder(s) \/ InsertReceipt(s) \/ LockProduct(s) \/ Abort(s)
               \/ UNCHANGED vars
        PROVE  Promises
    <2>1. UNCHANGED <<reservations, receipts, answers>>
      BY <1>3 DEF Begin, LockOrder, InsertReceipt, LockProduct, Abort, vars
    <2> QED
      BY <2>1, <1>1, <1>2 DEF Promises
  <1>4. ASSUME NEW s \in Sessions, ReplayReceipt(s)
        PROVE  Promises
    <2> DEFINE c == tx[s].command
               o == c.orderId
    <2>1. c \in Commands /\ o \in Orders
      BY <1>4, OpenTransaction, CommandFields DEF ReplayReceipt, InPhase
    <2>2. UNCHANGED <<reservations, receipts>>
          /\ \E result : answers' = answers \cup {[command |-> c, result |-> result]}
      BY <1>4 DEF ReplayReceipt, Respond
    <2>3. TruthInv'
      BY <2>2, <1>1
    <2>4. reservations' = [reservations EXCEPT ![o] = reservations[o]]
      BY <2>2 DEF IInv, TypeOK
    <2>5. StepEffect(reservations[o]) \in Promise!Follows[StepEffect(reservations[o])]
      BY <2>1, StaysItself DEF TruthInv, IInv, TypeOK, RowGrows
    <2>6. PICK result : answers' = answers \cup {[command |-> c, result |-> result]}
      BY <2>2
    <2>7. [command |-> c, result |-> result].command.orderId = o
      OBVIOUS
    <2> HIDE DEF o
    <2>8. Promise!Next
      BY <2>1, <2>3, <2>4, <2>5, <2>6, <2>7, AnswerIsPromised
    <2> QED
      BY <2>3, <2>8 DEF Promises
  <1> QED
    BY <1>3, <1>4, DecidePromises DEF Next, Acquire

LEMMA InitPromises == Init => TruthInv /\ Promise!Init
  BY DEF Init, TruthInv, RowTrue, NoReservation, StepEffect, Promise!Init

(* Stock is taken at most once, given back at most once and never after it  *)
(* was finalized, and what a saga is told of it stays true.                 *)
THEOREM InventoryImplementsParticipant == Spec => ImplementsParticipant
  <1>1. IInv /\ [Next]_vars => IInv'
    BY NextIInv
  <1>2. IInv /\ IInv' /\ TruthInv /\ [Next]_vars => TruthInv' /\ [Promise!Next]_(Promise!vars)
    BY NextPromises DEF Promises
  <1> QED
    BY InitIInv, <1>1, <1>2, InitPromises, PTL DEF Spec, ImplementsParticipant, Promise!Spec
=============================================================================
