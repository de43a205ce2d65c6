---------------------------- MODULE OrderSystem ----------------------------
(***************************************************************************)
(* The whole system behind POST /orders: the orchestrator of module        *)
(* Orchestrator, whose environment is no longer free to answer as it likes *)
(* but is the three participants of module Participants, joined by the     *)
(* queues.  A published command may be executed at any later time, any     *)
(* number of times, also long after its order has ended; its participant   *)
(* answers it once (module Messaging: EffectOnce, OneTrueResult), and the  *)
(* answer may come late or never.                                          *)
(***************************************************************************)
EXTENDS Orchestrator

VARIABLES
  effect,   \* participant -> order -> how far it has brought its step
  told,     \* participant -> order -> the definitive results it has given out
  answers   \* order -> the answers to its commands

environment == <<effect, told, answers>>
systemVars == <<vars, environment>>

P == INSTANCE Participants

(* RETRY: UNKNOWN, or a failure that is not the business rejection.         *)
Answer == [command : Nat, outcome : {"SUCCEEDED", "REJECTED", "RETRY"}]

SystemInit ==
  /\ Init
  /\ P!Init
  /\ answers = [o \in Orders |-> {}]

-----------------------------------------------------------------------------
(* The participants.                                                       *)

InBroker(o, n) ==
  /\ n \in DOMAIN outbox[o]
  /\ outbox[o][n].delivery # "queued"

Execute(o, n) ==
  /\ InBroker(o, n)
  /\ P!Executes(o, outbox[o][n].operation)
  /\ UNCHANGED <<vars, answers>>

Unanswered(o, n) == \A a \in answers[o] : a.command # n

Respond(o, n, outcome) ==
  /\ InBroker(o, n)
  /\ Unanswered(o, n)
  /\ answers' = [answers EXCEPT ![o] = @ \cup {[command |-> n, outcome |-> outcome]}]
  /\ UNCHANGED vars

RespondDefinitively(o, n) ==
  \E outcome \in {"SUCCEEDED", "REJECTED"} :
    /\ Respond(o, n, outcome)
    /\ P!Answers(o, outbox[o][n].operation, outcome)

RespondRetryable(o, n) ==
  /\ Respond(o, n, "RETRY")
  /\ UNCHANGED <<effect, told>>

Serve(o, n) == Execute(o, n) \/ RespondDefinitively(o, n) \/ RespondRetryable(o, n)

-----------------------------------------------------------------------------
(* The orchestrator, receiving what the participants have answered.        *)

Answered(o, n, outcomes) ==
  \E a \in answers[o] : a.command = n /\ a.outcome \in outcomes

ReceiveAnswer(o, n) ==
  \/ /\ Answered(o, n, {"SUCCEEDED", "REJECTED", "RETRY"})
     /\ ReceiveStale(o, n)
  \/ /\ Answered(o, n, {"SUCCEEDED"})
     /\ \/ ReceiveCompensated(o, n)
        \/ ReceiveStepSucceeded(o, n)
        \/ ReceiveFinalized(o, n)
  \/ /\ Answered(o, n, {"REJECTED"})
     /\ ReceiveRejected(o, n)
  \/ /\ Answered(o, n, {"RETRY"})
     /\ ReceiveRetryable(o, n)

Orchestrate ==
  \/ \E o \in Orders : Request(o)
  \/ \E o \in Orders : \E n \in DOMAIN outbox[o] : ReceiveAnswer(o, n)
  \/ \E o \in Orders : \E n \in DOMAIN outbox[o] : Relay(o, n)
  \/ \E o \in Orders : PassTime(o)
  \/ \E w \in Workers : \E batch \in SUBSET Claimable : ClaimRecovery(w, batch)
  \/ \E w \in Workers : \E o \in holding[w] : RecoverClaim(w, o)
  \/ \E w \in Workers : AbandonScan(w)

SystemNext ==
  \/ Orchestrate /\ UNCHANGED environment
  \/ \E o \in Orders : \E n \in DOMAIN outbox[o] : Serve(o, n)

SystemSpec == SystemInit /\ [][SystemNext]_systemVars

FairSystemSpec == SystemSpec /\ Fairness

-----------------------------------------------------------------------------
(* Properties.                                                             *)

(* What an order reports is true of all three participants: a COMPLETED     *)
(* order is paid, its stock taken for good and its parcel under way; a      *)
(* FAILED one holds nothing at any of them, and never will again, though    *)
(* commands that were answered UNKNOWN, answered late or never answered may *)
(* still be executed after it has ended.                                    *)
EndingsTrue ==
  \A o \in Orders :
    /\ saga[o].status = "COMPLETED" =>
         /\ effect["payment"][o] = "done"
         /\ effect["inventory"][o] = "final"
         /\ effect["shipping"][o] = "done"
    /\ saga[o].status = "FAILED" =>
         \A service \in Services : effect[service][o] \in {"none", "void", "undone"}
=============================================================================
