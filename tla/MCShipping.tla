----------------------------- MODULE MCShipping -----------------------------
(***************************************************************************)
(* Shipping for TLC: the commands that one order may receive.              *)
(***************************************************************************)
EXTENDS Shipping, TLC

Send(key, operation, saga, content) ==
  [idempotencyKey |-> key, operation |-> operation, orderId |-> "o1",
   sagaId |-> saga, content |-> content]

(* Other keys for the same requests, a key used for two commands, another   *)
(* address, and a foreign saga.                                             *)
OrderCommands ==
  {Send("create", "CREATE_SHIPMENT", "s1", "home"),
   Send("again", "CREATE_SHIPMENT", "s1", "home"),
   Send("again", "CREATE_SHIPMENT", "s1", "office"),
   Send("cancel", "CANCEL_SHIPMENT", "s1", None),
   Send("undo", "CANCEL_SHIPMENT", "s1", None),
   Send("foreign", "CREATE_SHIPMENT", "s2", "home"),
   Send("other", "CANCEL_SHIPMENT", "s2", None)}
=============================================================================
