---------------------------- MODULE MCMessaging ----------------------------
(***************************************************************************)
(* A small instance of Messaging for TLC.                                  *)
(***************************************************************************)
EXTENDS Messaging, TLC

CONSTANTS m1, bad

(* A refund, and a message that no consumer accepts.                        *)
Sent == {m1, bad}
SentKeys == m1 :> "refund" @@ bad :> "other"
=============================================================================
