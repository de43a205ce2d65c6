----------------------------- MODULE Messaging -----------------------------
(***************************************************************************)
(* One hop of a message (shared/src/messaging): from the outbox of the     *)
(* service that sends it, by the relay, through RabbitMQ, to the handler   *)
(* of the service that consumes it, whose inbox and result are written     *)
(* with the business effect.  The broker hands a message over at least     *)
(* once: relays and handlers may stop between any two steps, connections   *)
(* may close at any time, and a handler goes on although its connection is *)
(* closed and its message is with another one.                             *)
(*                                                                         *)
(* The business operation is abstract: it owns its key while it executes,  *)
(* keeps a receipt of its outcome, and may turn out UNKNOWN or throw.  A   *)
(* refund or a cancellation that failed may be tried again: its receipt    *)
(* stays open.                                                             *)
(***************************************************************************)
EXTENDS Naturals, Sequences

CONSTANTS
  Messages,       \* message ids
  Invalid,        \* those that no consumer accepts: malformed, or misrouted
  KeyOf,          \* message -> idempotency key of the command it carries
  Reversals,      \* keys of the refunds and cancellations
  Relays,         \* processes of the sender
  Handlers,       \* connections of the consumer, each with a prefetch of 1
  RetryLimit,     \* copies made of a message whose handler throws (2)
  DeliveryLimit,  \* returns of a copy to its queue (x-delivery-limit, 5)
  MaxPublishes    \* bound of the model: publishes in all

Keys == {KeyOf[m] : m \in Messages}
Outcomes == {"SUCCEEDED", "FAILED"}
None == "none"

(* What an execution may answer without completing its receipt.             *)
Undecided(k) == {"UNKNOWN"} \cup (IF k \in Reversals THEN {"FAILED"} ELSE {})

ASSUME ConstantsAssumption ==
  /\ Invalid \subseteq Messages
  /\ None \notin Messages
  /\ KeyOf \in [Messages -> Keys]
  /\ Reversals \subseteq Keys
  /\ RetryLimit \in Nat
  /\ DeliveryLimit \in Nat
  /\ MaxPublishes \in Nat

VARIABLES
  outbox,     \* message -> its row of the sender's message_outbox
  publishes,  \* how often a relay has published (bounds the model only)
  relay,      \* relay -> the row its open transaction has published, or None
  queues,     \* queue -> copy -> how many of it are there
  work,       \* handler -> the delivery it works on, or Idle
  inbox,      \* messages in the consumer's message_inbox
  results,    \* message -> the results enqueued for it, oldest first
  receipts    \* key -> outcome of the business operation, None before

sender == <<outbox, publishes, relay>>
consumer == <<inbox, results, receipts>>
vars == <<outbox, publishes, relay, queues, work, inbox, results, receipts>>

-----------------------------------------------------------------------------
(* Queues and deliveries.                                                  *)

Queues == {"main", "retry", "dead"}

(* `retries` is the saga-retries header, `returns` the broker's own count;   *)
(* what a dead copy has counted no longer matters.                          *)
Copy == [message : Messages, retries : 0..RetryLimit, returns : 0..DeliveryLimit]

FirstCopy(m) == [message |-> m, retries |-> 0, returns |-> 0]

(* A delivery goes through received, checked, executing, replying and done; *)
(* it may end failed or rejected.                                           *)
Idle == [phase |-> "idle"]

InPhase(h, phase) == work[h].phase = phase
MessageOf(h) == work[h].copy.message
KeyAt(h) == KeyOf[MessageOf(h)]

Moves(h, phase, result) ==
  work' = [work EXCEPT ![h].phase = phase, ![h].result = result]

With(q, c) == [queues EXCEPT ![q][c] = @ + 1]

Init ==
  /\ outbox = [m \in Messages |-> "absent"]
  /\ publishes = 0
  /\ relay = [p \in Relays |-> None]
  /\ queues = [q \in Queues |-> [c \in Copy |-> 0]]
  /\ work = [h \in Handlers |-> Idle]
  /\ inbox = {}
  /\ results = [m \in Messages |-> <<>>]
  /\ receipts = [k \in Keys |-> None]

-----------------------------------------------------------------------------
(* The sender.                                                             *)

(* With the state change that calls for the message, in one transaction.    *)
Enqueue(m) ==
  /\ outbox[m] = "absent"
  /\ outbox' = [outbox EXCEPT ![m] = "queued"]
  /\ UNCHANGED <<publishes, relay, queues, work, consumer>>

RowFree(m) == \A p \in Relays : relay[p] # m

(* The transaction stays open from the publish to its commit.               *)
RelayPublish(p, m) ==
  /\ relay[p] = None
  /\ outbox[m] = "queued"
  /\ RowFree(m)
  /\ publishes < MaxPublishes
  /\ relay' = [relay EXCEPT ![p] = m]
  /\ publishes' = publishes + 1
  /\ queues' = With("main", FirstCopy(m))
  /\ UNCHANGED <<outbox, work, consumer>>

RelayMark(p) ==
  /\ relay[p] # None
  /\ outbox' = [outbox EXCEPT ![relay[p]] = "published"]
  /\ relay' = [relay EXCEPT ![p] = None]
  /\ UNCHANGED <<publishes, queues, work, consumer>>

(* The confirm is lost, the commit fails or the process stops: the broker   *)
(* has the message and the outbox does not know.                            *)
RelayFail(p) ==
  /\ relay[p] # None
  /\ relay' = [relay EXCEPT ![p] = None]
  /\ UNCHANGED <<outbox, publishes, queues, work, consumer>>

-----------------------------------------------------------------------------
(* The broker.                                                             *)

Deliver(h, c) ==
  /\ work[h] = Idle
  /\ queues["main"][c] > 0
  /\ queues' = [queues EXCEPT !["main"][c] = @ - 1]
  /\ work' = [work EXCEPT ![h] =
                [phase |-> "received", copy |-> c, result |-> None, connected |-> TRUE]]
  /\ UNCHANGED <<sender, consumer>>

Expire(c) ==
  /\ queues["retry"][c] > 0
  /\ queues' = [queues EXCEPT !["retry"][c] = @ - 1, !["main"][c] = @ + 1]
  /\ UNCHANGED <<sender, work, consumer>>

(* Mutant: messages are acknowledged as they are delivered.                 *)
ReturnNothing(c) == queues' = queues

(* A copy that is not acknowledged goes back, a limited number of times.    *)
Return(c) ==
  queues' = IF c.returns < DeliveryLimit
            THEN With("main", [c EXCEPT !.returns = @ + 1])
            ELSE With("dead", FirstCopy(c.message))

(* The connection closes and the process goes on with the message, of which *)
(* it can neither send a copy nor tell the broker; its counts are with the  *)
(* one that went back.                                                      *)
Disconnect(h) ==
  /\ work[h] # Idle
  /\ work[h].connected
  /\ Return(work[h].copy)
  /\ work' = [work EXCEPT ![h].connected = FALSE, ![h].copy = FirstCopy(MessageOf(h))]
  /\ UNCHANGED <<sender, consumer>>

(* The process stops; the database frees its locks.                         *)
Crash(h) ==
  /\ work[h] # Idle
  /\ IF work[h].connected THEN Return(work[h].copy) ELSE queues' = queues
  /\ work' = [work EXCEPT ![h] = Idle]
  /\ UNCHANGED <<sender, consumer>>

-----------------------------------------------------------------------------
(* participantHandler().                                                   *)

Reject(h) ==
  /\ InPhase(h, "received")
  /\ MessageOf(h) \in Invalid
  /\ Moves(h, "rejected", None)
  /\ UNCHANGED <<sender, queues, consumer>>

CheckInbox(h) ==
  /\ InPhase(h, "received")
  /\ MessageOf(h) \notin Invalid
  /\ Moves(h, IF MessageOf(h) \in inbox THEN "done" ELSE "checked", None)
  /\ UNCHANGED <<sender, queues, consumer>>

(* Mutant: the business operation does not try for its lock.                *)
NeverBusy(h) == FALSE

Busy(h) == \E g \in Handlers : InPhase(g, "executing") /\ KeyAt(g) = KeyAt(h)

ReplyBusy(h) ==
  /\ InPhase(h, "checked")
  /\ Busy(h)
  /\ Moves(h, "replying", "UNKNOWN")
  /\ UNCHANGED <<sender, queues, consumer>>

ReplyReceipt(h) ==
  /\ InPhase(h, "checked")
  /\ ~Busy(h)
  /\ receipts[KeyAt(h)] # None
  /\ Moves(h, "replying", receipts[KeyAt(h)])
  /\ UNCHANGED <<sender, queues, consumer>>

StartExecution(h) ==
  /\ InPhase(h, "checked")
  /\ ~Busy(h)
  /\ receipts[KeyAt(h)] = None
  /\ Moves(h, "executing", None)
  /\ UNCHANGED <<sender, queues, consumer>>

(* The commit hook: remember() and, if that inserted, enqueue().            *)
Commit(m, result) ==
  /\ inbox' = inbox \cup {m}
  /\ results' = IF m \in inbox THEN results
                ELSE [results EXCEPT ![m] = Append(@, result)]

(* Mutant: the hook runs outside of the business transaction, which fails.  *)
FinishOutside(h, result) ==
  /\ InPhase(h, "executing")
  /\ result \notin Undecided(KeyAt(h))
  /\ Commit(MessageOf(h), result)
  /\ Moves(h, "failed", None)
  /\ UNCHANGED <<sender, queues, receipts>>

(* The business transaction, with the hook inside.                          *)
FinishExecution(h, result) ==
  /\ InPhase(h, "executing")
  /\ result \notin Undecided(KeyAt(h))
  /\ receipts' = [receipts EXCEPT ![KeyAt(h)] = result]
  /\ Commit(MessageOf(h), result)
  /\ Moves(h, "replying", result)
  /\ UNCHANGED <<sender, queues>>

(* The provider did not answer, or it turned a refund or cancellation down. *)
LeaveOpen(h, result) ==
  /\ InPhase(h, "executing")
  /\ result \in Undecided(KeyAt(h))
  /\ Moves(h, "replying", result)
  /\ UNCHANGED <<sender, queues, consumer>>

(* The hook once more, for results that no business transaction committed.  *)
Reply(h) ==
  /\ InPhase(h, "replying")
  /\ Commit(MessageOf(h), work[h].result)
  /\ Moves(h, "done", None)
  /\ UNCHANGED <<sender, queues, receipts>>

Throw(h) ==
  /\ work[h].phase \in {"received", "checked", "executing", "replying"}
  /\ Moves(h, "failed", None)
  /\ UNCHANGED <<sender, queues, consumer>>

-----------------------------------------------------------------------------
(* RabbitWorker.handle(), after the handler returned or threw.             *)

(* Mutant: a message whose handler threw is acknowledged all the same.      *)
AcknowledgeFailed(h) ==
  /\ work[h].phase \in {"failed", "rejected"}
  /\ work[h].connected
  /\ Moves(h, "done", None)
  /\ UNCHANGED <<sender, queues, consumer>>

(* The copy is confirmed before the message is acknowledged.                *)
CopyMessage(h) ==
  LET c == work[h].copy
      last == InPhase(h, "rejected") \/ c.retries >= RetryLimit IN
  /\ work[h].phase \in {"failed", "rejected"}
  /\ work[h].connected
  /\ queues' = IF last
               THEN With("dead", FirstCopy(c.message))
               ELSE With("retry", [c EXCEPT !.retries = @ + 1, !.returns = 0])
  /\ Moves(h, "done", None)
  /\ UNCHANGED <<sender, consumer>>

(* Without its connection a handler can neither acknowledge nor copy.       *)
Leave(h) ==
  /\ \/ InPhase(h, "done")
     \/ work[h].phase \in {"failed", "rejected"} /\ ~work[h].connected
  /\ work' = [work EXCEPT ![h] = Idle]
  /\ UNCHANGED <<sender, queues, consumer>>

Relaying(p) ==
  \/ \E m \in Messages : RelayPublish(p, m)
  \/ RelayMark(p)

Handle(h) ==
  \/ Reject(h)
  \/ CheckInbox(h)
  \/ ReplyBusy(h)
  \/ ReplyReceipt(h)
  \/ StartExecution(h)
  \/ \E result \in Outcomes : FinishExecution(h, result)
  \/ \E result \in Outcomes \cup {"UNKNOWN"} : LeaveOpen(h, result)
  \/ Reply(h)
  \/ CopyMessage(h)
  \/ Leave(h)

Next ==
  \/ \E m \in Messages : Enqueue(m)
  \/ \E p \in Relays : Relaying(p) \/ RelayFail(p)
  \/ \E c \in Copy : Expire(c) \/ \E h \in Handlers : Deliver(h, c)
  \/ \E h \in Handlers : Handle(h) \/ Throw(h) \/ Disconnect(h) \/ Crash(h)

Spec == Init /\ [][Next]_vars

(* The broker delivers what it has, a process that handles a message goes   *)
(* on (provider calls and statements have deadlines), and a retry expires   *)
(* after a second.                                                          *)
FairSpec ==
  /\ Spec
  /\ WF_vars(\E c \in Copy : Expire(c))
  /\ WF_vars(\E c \in Copy, h \in Handlers : Deliver(h, c))
  /\ \A h \in Handlers : WF_vars(Handle(h))

-----------------------------------------------------------------------------
(* Properties.                                                             *)

InQueue(m) ==
  \/ \E q \in Queues, c \in Copy : c.message = m /\ queues[q][c] > 0
  \/ \E h \in Handlers : work[h] # Idle /\ work[h].connected /\ MessageOf(h) = m

(* A message that left the outbox for good has been answered, or the broker *)
(* still has it: no crash, lost connection or failed retry makes it vanish. *)
NothingLost ==
  \A m \in Messages : outbox[m] = "published" => m \in inbox \/ InQueue(m)

(* A message has one result, from when it is in the inbox, however many     *)
(* copies of it are handled at once; it is the outcome that was committed,  *)
(* UNKNOWN, or the failure of a refund or cancellation that is still open.  *)
OneTrueResult ==
  \A m \in Messages :
    /\ Len(results[m]) = IF m \in inbox THEN 1 ELSE 0
    /\ \A i \in DOMAIN results[m] : results[m][i] \in {receipts[KeyOf[m]]} \cup Undecided(KeyOf[m])

(* The business operation takes effect once per key, although handlers that *)
(* lost their connection work on beside the ones that took over.            *)
EffectOnce ==
  \A h \in Handlers : InPhase(h, "executing") =>
    /\ receipts[KeyAt(h)] = None
    /\ \A g \in Handlers \ {h} : InPhase(g, "executing") => KeyAt(g) # KeyAt(h)

(* Every message that is published is answered or ends in the dead queue,   *)
(* whatever fails: nothing is retried for ever and nothing waits for ever.  *)
Handled ==
  \A m \in Messages :
    outbox[m] = "published" ~>
      m \in inbox \/ \E c \in Copy : c.message = m /\ queues["dead"][c] > 0
=============================================================================
