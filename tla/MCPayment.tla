----------------------------- MODULE MCPayment -----------------------------
(***************************************************************************)
(* Small instances of Payment for TLC: the commands that one order may     *)
(* receive.                                                                *)
(***************************************************************************)
EXTENDS Payment, TLC

Send(key, operation, saga, amount, method) ==
  [idempotencyKey |-> key, operation |-> operation, orderId |-> "o1",
   sagaId |-> saga, amount |-> amount, method |-> method]

SendCharge(key, method) == Send(key, "CHARGE_PAYMENT", "s1", "due", method)
SendRefund(key, saga) == Send(key, "REFUND_PAYMENT", saga, None, None)

(* One order, prepaid or paid on delivery, whichever command comes first:   *)
(* other keys for the same requests, a key used for two commands, another   *)
(* amount, and a foreign saga.                                              *)
OrderCommands ==
  {SendCharge("charge", "BANK_TRANSFER"),
   SendCharge("again", "BANK_TRANSFER"),
   Send("again", "CHARGE_PAYMENT", "s1", "changed", "BANK_TRANSFER"),
   SendCharge("cod", "COD"),
   Send("foreign", "CHARGE_PAYMENT", "s2", "due", "COD"),
   SendRefund("refund", "s1"),
   SendRefund("undo", "s1")}

(* An order paid on delivery.                                               *)
CodCommands ==
  {SendCharge("charge", "COD"), SendCharge("again", "COD"), SendRefund("refund", "s1")}
=============================================================================
