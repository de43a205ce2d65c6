---------------------------- MODULE MCInventory ----------------------------
(***************************************************************************)
(* Small instances of Inventory for TLC: two products, two orders whose    *)
(* baskets overlap, and the commands that the runs execute.                *)
(***************************************************************************)
EXTENDS Inventory, TLC

Keyboard == 1
Mouse == 2
Withdrawn == 3
Unlisted == 4

Both == Keyboard :> 1 @@ Mouse :> 1
Unsellable == Mouse :> 1 @@ Withdrawn :> 1 @@ Unlisted :> 1

Send(key, operation, order, saga, items) ==
  [idempotencyKey |-> key, operation |-> operation, orderId |-> order,
   sagaId |-> saga, items |-> items]

MCProducts == {Keyboard, Mouse, Withdrawn}
MCActiveProducts == {Keyboard, Mouse}
MCStock == Keyboard :> 2 @@ Mouse :> 1 @@ Withdrawn :> 1

(* Two orders want the last mouse; the first is reserved under two keys,    *)
(* also comes with products that are not on sale, is released under two     *)
(* keys, and has a key used by another saga.                                *)
MCCommands ==
  {Send("reserve", "RESERVE_INVENTORY", "o1", "s1", Both),
   Send("twin", "RESERVE_INVENTORY", "o1", "s1", Both),
   Send("again", "RESERVE_INVENTORY", "o1", "s1", Unsellable),
   Send("release", "RELEASE_INVENTORY", "o1", "s1", NoItems),
   Send("release", "RELEASE_INVENTORY", "o1", "s2", NoItems),
   Send("undo", "RELEASE_INVENTORY", "o1", "s1", NoItems),
   Send("finalize", "FINALIZE_INVENTORY", "o1", "s1", NoItems),
   Send("o2:reserve", "RESERVE_INVENTORY", "o2", "s2", Both)}
=============================================================================
