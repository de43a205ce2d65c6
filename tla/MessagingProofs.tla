-------------------------- MODULE MessagingProofs --------------------------
(***************************************************************************)
(* Proofs about module Messaging, for any messages, keys, relays, handlers *)
(* and limits: no message vanishes, a message has one result and a true    *)
(* one, and the operation of a key takes effect once.                      *)
(***************************************************************************)
EXTENDS Messaging, TLAPS

Phases == {"received", "checked", "executing", "replying", "done", "failed", "rejected"}
Replies == Outcomes \cup {"UNKNOWN"}

Delivery ==
  [phase : Phases, copy : Copy, result : Replies \cup {None}, connected : BOOLEAN]

TypeInv ==
  /\ outbox \in [Messages -> {"absent", "queued", "published"}]
  /\ relay \in [Relays -> Messages \cup {None}]
  /\ queues \in [Queues -> [Copy -> Nat]]
  /\ work \in [Handlers -> {Idle} \cup Delivery]
  /\ inbox \in SUBSET Messages
  /\ results \in [Messages -> Seq(Replies)]
  /\ receipts \in [Keys -> Outcomes \cup {None}]

-----------------------------------------------------------------------------
(* The inductive invariant.                                                *)

Queued(m) == \E q \in Queues, c \in Copy : c.message = m /\ queues[q][c] > 0

(* A handler that is done has not acknowledged yet, but it does not count:  *)
(* the message is in the inbox by then, or a copy of it in a queue.         *)
Carried(m) ==
  \E h \in Handlers :
    /\ work[h] \in Delivery
    /\ work[h].connected
    /\ work[h].phase # "done"
    /\ MessageOf(h) = m

Safe(m) == m \in inbox \/ Queued(m) \/ Carried(m)

(* What a relay has published is safe, and so is what the outbox says is.   *)
Kept ==
  /\ \A m \in Messages : outbox[m] = "published" => Safe(m)
  /\ \A p \in Relays : relay[p] # None => Safe(relay[p])

(* What a handler is about to tell is the outcome that was committed.       *)
RepliesTrue ==
  \A h \in Handlers : InPhase(h, "replying") =>
    /\ work[h].result \in Replies
    /\ work[h].result \in {receipts[KeyAt(h)]} \cup Undecided(KeyAt(h))

IInv == TypeInv /\ Kept /\ RepliesTrue /\ OneTrueResult /\ EffectOnce

-----------------------------------------------------------------------------
(* Deliveries and queues.                                                  *)

(* A handler that is in a phase of handle() holds a delivery.               *)
LEMMA Delivered ==
  ASSUME TypeInv, NEW h \in Handlers, work[h].phase # "idle"
  PROVE /\ work[h] \in Delivery
        /\ MessageOf(h) \in Messages
        /\ KeyAt(h) \in Keys
<1>1. work[h] \in Delivery
  BY DEF TypeInv, Idle
<1>2. MessageOf(h) \in Messages
  BY <1>1 DEF Delivery, Copy, MessageOf
<1> QED
  BY <1>1, <1>2, ConstantsAssumption DEF KeyAt, Keys

LEMMA CopyFields ==
  ASSUME NEW c \in Copy
  PROVE /\ c.message \in Messages /\ c.retries \in 0..RetryLimit /\ c.returns \in 0..DeliveryLimit
        /\ FirstCopy(c.message) \in Copy
  BY ConstantsAssumption DEF Copy, FirstCopy

(* Adding a copy to a queue takes nothing away from any.                    *)
LEMMA Added ==
  ASSUME TypeInv, NEW q \in Queues, NEW c \in Copy, queues' = With(q, c)
  PROVE /\ queues' \in [Queues -> [Copy -> Nat]]
        /\ Queued(c.message)'
        /\ \A m : Queued(m) => Queued(m)'
<1>1. queues' = [queues EXCEPT ![q] = [queues[q] EXCEPT ![c] = queues[q][c] + 1]]
  BY DEF With, TypeInv
<1>2. queues' \in [Queues -> [Copy -> Nat]]
  BY <1>1 DEF TypeInv
<1>3. \A p \in Queues, d \in Copy : queues'[p][d] >= queues[p][d]
  BY <1>1 DEF TypeInv
<1>4. queues'[q][c] > 0
  BY <1>1 DEF TypeInv
<1>5. \A p \in Queues, d \in Copy : queues[p][d] > 0 => queues'[p][d] > 0
  BY <1>2, <1>3 DEF TypeInv
<1> QED
  BY <1>2, <1>4, <1>5 DEF Queued

(* What goes back to the broker is in a queue again.                        *)
LEMMA Returned ==
  ASSUME TypeInv, NEW c \in Copy, Return(c)
  PROVE /\ queues' \in [Queues -> [Copy -> Nat]]
        /\ Queued(c.message)'
        /\ \A m : Queued(m) => Queued(m)'
<1>1. CASE c.returns < DeliveryLimit
  <2> DEFINE d == [c EXCEPT !.returns = @ + 1]
  <2>1. d \in Copy /\ d.message = c.message
    BY <1>1, ConstantsAssumption DEF Copy
  <2>2. queues' = With("main", d)
    BY <1>1 DEF Return
  <2> QED
    BY <2>1, <2>2, Added DEF Queues
<1>2. CASE ~(c.returns < DeliveryLimit)
  <2>1. queues' = With("dead", FirstCopy(c.message))
    BY <1>2 DEF Return
  <2>2. FirstCopy(c.message) \in Copy /\ FirstCopy(c.message).message = c.message
    BY CopyFields DEF FirstCopy
  <2> QED
    BY <2>1, <2>2, Added DEF Queues
<1> QED
  BY <1>1, <1>2

-----------------------------------------------------------------------------
(* A step of a handler that leaves the queues alone.                       *)

LEMMA Moved ==
  ASSUME TypeInv, NEW h \in Handlers, work[h].phase # "idle",
         NEW phase \in Phases, NEW result \in Replies \cup {None}, Moves(h, phase, result)
  PROVE /\ work' \in [Handlers -> {Idle} \cup Delivery]
        /\ work'[h] \in Delivery
        /\ work'[h].phase = phase /\ work'[h].result = result
        /\ work'[h].copy = work[h].copy /\ work'[h].connected = work[h].connected
        /\ \A g \in Handlers \ {h} : work'[g] = work[g]
<1>1. work[h] \in Delivery
  BY Delivered
<1>2. work' = [work EXCEPT ![h] = [work[h] EXCEPT !.phase = phase, !.result = result]]
  BY <1>1 DEF Moves, TypeInv
<1>3. [work[h] EXCEPT !.phase = phase, !.result = result] \in Delivery
  BY <1>1 DEF Delivery
<1>4. work'[h] = [work[h] EXCEPT !.phase = phase, !.result = result]
  BY <1>2 DEF TypeInv
<1>5. work' \in [Handlers -> {Idle} \cup Delivery] /\ work'[h] \in Delivery
  BY <1>2, <1>3, <1>4 DEF TypeInv
<1>6. \A g \in Handlers \ {h} : work'[g] = work[g]
  BY <1>2 DEF TypeInv
<1>7. /\ work'[h].phase = phase /\ work'[h].result = result
      /\ work'[h].copy = work[h].copy /\ work'[h].connected = work[h].connected
  BY <1>1, <1>4 DEF Delivery
<1> QED
  BY <1>5, <1>6, <1>7

(* It keeps every message safe unless it is done with one that is not in    *)
(* the inbox.                                                               *)
LEMMA SafeWhenMoved ==
  ASSUME TypeInv, NEW h \in Handlers, work[h].phase # "idle",
         NEW phase \in Phases, NEW result \in Replies \cup {None}, Moves(h, phase, result),
         queues' = queues, inbox \subseteq inbox',
         phase = "done" => MessageOf(h) \in inbox'
  PROVE \A m : Safe(m) => Safe(m)'
<1> SUFFICES ASSUME NEW m, Safe(m) PROVE Safe(m)'
  OBVIOUS
<1>1. CASE m \in inbox \/ Queued(m)
  BY <1>1 DEF Safe, Queued
<1>2. CASE Carried(m)
  <2>1. PICK g \in Handlers : /\ work[g] \in Delivery /\ work[g].connected
                              /\ work[g].phase # "done" /\ MessageOf(g) = m
    BY <1>2 DEF Carried
  <2>2. CASE g # h
    <3>1. work'[g] = work[g]
      BY <2>2, Moved
    <3> QED
      BY <2>1, <3>1 DEF Safe, Carried, MessageOf
  <2>3. CASE g = h /\ phase # "done"
    BY <2>1, <2>3, Moved DEF Safe, Carried, MessageOf
  <2>4. CASE g = h /\ phase = "done"
    BY <2>1, <2>4 DEF Safe
  <2> QED
    BY <2>2, <2>3, <2>4
<1> QED
  BY <1>1, <1>2 DEF Safe

(* A handler whose message goes back, or that does not count, may change as *)
(* it likes.                                                                *)
LEMMA SafeWhenReturned ==
  ASSUME TypeInv, NEW h \in Handlers,
         \A g \in Handlers \ {h} : work'[g] = work[g],
         \A m : Queued(m) => Queued(m)',
         inbox' = inbox,
         \/ work[h] = Idle
         \/ ~work[h].connected
         \/ work[h].phase = "done"
         \/ \A m : MessageOf(h) = m => Queued(m)'
  PROVE \A m : Safe(m) => Safe(m)'
<1> SUFFICES ASSUME NEW m, Safe(m) PROVE Safe(m)'
  OBVIOUS
<1>1. CASE m \in inbox \/ Queued(m)
  BY <1>1 DEF Safe
<1>2. CASE Carried(m)
  <2>1. PICK g \in Handlers : /\ work[g] \in Delivery /\ work[g].connected
                              /\ work[g].phase # "done" /\ MessageOf(g) = m
    BY <1>2 DEF Carried
  <2>2. CASE g # h
    <3>1. work'[g] = work[g]
      BY <2>2
    <3> QED
      BY <2>1, <3>1 DEF Safe, Carried, MessageOf
  <2>3. CASE g = h
    <3>1. work[h] # Idle
      BY <2>1, <2>3 DEF Delivery, Phases, Idle
    <3> QED
      BY <2>1, <2>3, <3>1 DEF Safe
  <2> QED
    BY <2>2, <2>3
<1> QED
  BY <1>1, <1>2 DEF Safe

-----------------------------------------------------------------------------
(* What keeps the parts of the invariant.                                  *)

LEMMA KeptWhenSafe ==
  ASSUME Kept, \A m : Safe(m) => Safe(m)', UNCHANGED <<outbox, relay>>
  PROVE Kept'
  BY DEF Kept

(* A handler changes and comes into no phase that says anything.            *)
LEMMA QuietHandler ==
  ASSUME TypeInv, RepliesTrue, OneTrueResult, EffectOnce, NEW h \in Handlers,
         \A g \in Handlers \ {h} : work'[g] = work[g],
         work'[h].phase \notin {"replying", "executing"},
         UNCHANGED consumer
  PROVE RepliesTrue' /\ OneTrueResult' /\ EffectOnce'
<1>1. UNCHANGED <<inbox, results, receipts>>
  BY DEF consumer
<1>2. RepliesTrue'
  BY <1>1 DEF RepliesTrue, InPhase, KeyAt, MessageOf
<1>3. OneTrueResult'
  BY <1>1 DEF OneTrueResult
<1>4. EffectOnce'
  <2> SUFFICES ASSUME NEW g \in Handlers, InPhase(g, "executing")'
      PROVE /\ receipts[KeyAt(g)]' = None
            /\ \A f \in Handlers \ {g} : InPhase(f, "executing")' => KeyAt(f)' # KeyAt(g)'
    BY DEF EffectOnce
  <2>1. g # h /\ work'[g] = work[g]
    BY DEF InPhase
  <2>2. \A f \in Handlers : InPhase(f, "executing")' => f # h /\ work'[f] = work[f]
    BY DEF InPhase
  <2>3. /\ receipts[KeyAt(g)] = None
        /\ \A f \in Handlers \ {g} : InPhase(f, "executing") => KeyAt(f) # KeyAt(g)
    BY <2>1 DEF EffectOnce, InPhase
  <2> QED
    BY <1>1, <2>1, <2>2, <2>3 DEF InPhase, KeyAt, MessageOf
<1> QED
  BY <1>2, <1>3, <1>4

LEMMA HandlersUnchanged ==
  ASSUME RepliesTrue, OneTrueResult, EffectOnce, UNCHANGED <<work, consumer>>
  PROVE RepliesTrue' /\ OneTrueResult' /\ EffectOnce'
  BY DEF RepliesTrue, OneTrueResult, EffectOnce, consumer, InPhase, KeyAt, MessageOf

-----------------------------------------------------------------------------
(* The sender and the broker.                                              *)

LEMMA EnqueueStep ==
  ASSUME IInv, NEW m \in Messages, Enqueue(m)
  PROVE IInv'
<1>1. TypeInv'
  BY DEF IInv, TypeInv, Enqueue, consumer
<1>2. \A n : Safe(n) => Safe(n)'
  BY DEF Enqueue, consumer, Safe, Queued, Carried, MessageOf
<1>3. Kept'
  BY <1>2 DEF IInv, TypeInv, Kept, Enqueue
<1>4. RepliesTrue' /\ OneTrueResult' /\ EffectOnce'
  BY HandlersUnchanged DEF IInv, Enqueue
<1> QED
  BY <1>1, <1>3, <1>4 DEF IInv

LEMMA RelayPublishStep ==
  ASSUME IInv, NEW p \in Relays, NEW m \in Messages, RelayPublish(p, m)
  PROVE IInv'
<1>1. FirstCopy(m) \in Copy /\ FirstCopy(m).message = m
  BY ConstantsAssumption DEF Copy, FirstCopy
<1>2. /\ queues' \in [Queues -> [Copy -> Nat]]
      /\ Queued(m)'
      /\ \A n : Queued(n) => Queued(n)'
  BY <1>1, Added DEF IInv, RelayPublish, Queues
<1>3. TypeInv'
  BY <1>2 DEF IInv, TypeInv, RelayPublish, consumer
<1>4. \A n : Safe(n) => Safe(n)'
  BY <1>2 DEF RelayPublish, consumer, Safe, Carried, MessageOf
<1>5. Kept'
  BY <1>2, <1>4 DEF IInv, TypeInv, Kept, RelayPublish, Safe
<1>6. RepliesTrue' /\ OneTrueResult' /\ EffectOnce'
  BY HandlersUnchanged DEF IInv, RelayPublish
<1> QED
  BY <1>3, <1>5, <1>6 DEF IInv

LEMMA RelayEnds ==
  ASSUME IInv, NEW p \in Relays, RelayMark(p) \/ RelayFail(p)
  PROVE IInv'
<1>1. UNCHANGED <<queues, work, inbox, results, receipts>>
  BY DEF RelayMark, RelayFail, consumer
<1>2. TypeInv'
  BY <1>1 DEF IInv, TypeInv, RelayMark, RelayFail
<1>3. \A n : Safe(n) => Safe(n)'
  BY <1>1 DEF Safe, Queued, Carried, MessageOf
<1>4. Kept'
  BY <1>3 DEF IInv, TypeInv, Kept, RelayMark, RelayFail
<1>5. RepliesTrue' /\ OneTrueResult' /\ EffectOnce'
  BY <1>1, HandlersUnchanged DEF IInv, consumer
<1> QED
  BY <1>2, <1>4, <1>5 DEF IInv

LEMMA ExpireStep ==
  ASSUME IInv, NEW c \in Copy, Expire(c)
  PROVE IInv'
<1>1. queues' = [queues EXCEPT !["retry"] = [queues["retry"] EXCEPT ![c] = queues["retry"][c] - 1],
                               !["main"] = [queues["main"] EXCEPT ![c] = queues["main"][c] + 1]]
  BY DEF IInv, TypeInv, Expire
<1>2. queues["retry"][c] - 1 \in Nat /\ queues["main"][c] + 1 \in Nat
  BY DEF IInv, TypeInv, Expire, Queues
<1>3. queues' \in [Queues -> [Copy -> Nat]]
  BY <1>1, <1>2 DEF IInv, TypeInv, Queues
<1>4. \A n : Queued(n) => Queued(n)'
  <2> SUFFICES ASSUME NEW q \in Queues, NEW d \in Copy, queues[q][d] > 0
               PROVE \E r \in Queues : queues'[r][d] > 0
    BY DEF Queued
  <2>1. CASE d = c
    <3>1. queues'["main"][c] = queues["main"][c] + 1
      BY <1>1 DEF IInv, TypeInv, Queues
    <3>2. queues'["main"][c] > 0
      BY <3>1 DEF IInv, TypeInv, Queues
    <3> QED
      BY <2>1, <3>2 DEF Queues
  <2>2. CASE d # c
    <3>1. queues'[q][d] = queues[q][d]
      BY <1>1, <2>2 DEF IInv, TypeInv, Queues
    <3> QED
      BY <3>1
  <2> QED
    BY <2>1, <2>2
<1>5. TypeInv'
  BY <1>3 DEF IInv, TypeInv, Expire, sender, consumer
<1>6. \A n : Safe(n) => Safe(n)'
  BY <1>4 DEF Expire, consumer, Safe, Carried, MessageOf
<1>7. Kept'
  BY <1>6, KeptWhenSafe DEF IInv, Expire, sender
<1>8. RepliesTrue' /\ OneTrueResult' /\ EffectOnce'
  BY HandlersUnchanged DEF IInv, Expire
<1> QED
  BY <1>5, <1>7, <1>8 DEF IInv

LEMMA DeliverStep ==
  ASSUME IInv, NEW h \in Handlers, NEW c \in Copy, Deliver(h, c)
  PROVE IInv'
<1> DEFINE d == [phase |-> "received", copy |-> c, result |-> None, connected |-> TRUE]
<1>1. d \in Delivery
  BY DEF Delivery, Phases
<1>2. /\ work' = [work EXCEPT ![h] = d]
      /\ queues' = [queues EXCEPT !["main"] = [queues["main"] EXCEPT ![c] = queues["main"][c] - 1]]
  BY DEF IInv, TypeInv, Deliver
<1>3. queues["main"][c] - 1 \in Nat
  BY DEF IInv, TypeInv, Deliver, Queues
<1>4. queues' \in [Queues -> [Copy -> Nat]]
  BY <1>2, <1>3 DEF IInv, TypeInv, Queues
<1>5. TypeInv'
  BY <1>1, <1>2, <1>4 DEF IInv, TypeInv, Deliver, sender, consumer
<1>6. work'[h] = d /\ \A g \in Handlers \ {h} : work'[g] = work[g]
  BY <1>2 DEF IInv, TypeInv
<1>7. \A n : Safe(n) => Safe(n)'
  <2> SUFFICES ASSUME NEW n, Safe(n) PROVE Safe(n)'
    OBVIOUS
  <2>1. CASE n \in inbox
    BY <2>1 DEF Safe, Deliver, consumer
  <2>2. CASE Queued(n)
    <3>1. PICK q \in Queues, e \in Copy : e.message = n /\ queues[q][e] > 0
      BY <2>2 DEF Queued
    <3>2. CASE e = c
      BY <1>1, <1>6, <3>1, <3>2 DEF Safe, Carried, MessageOf
    <3>3. CASE e # c
      <4>1. queues'[q][e] = queues[q][e]
        BY <1>2, <3>3 DEF IInv, TypeInv, Queues
      <4> QED
        BY <3>1, <4>1 DEF Safe, Queued
    <3> QED
      BY <3>2, <3>3
  <2>3. CASE Carried(n)
    <3>1. PICK g \in Handlers : /\ work[g] \in Delivery /\ work[g].connected
                                /\ work[g].phase # "done" /\ MessageOf(g) = n
      BY <2>3 DEF Carried
    <3>2. g # h
      BY <3>1 DEF Deliver, Idle, Delivery, Phases
    <3> QED
      BY <1>6, <3>1, <3>2 DEF Safe, Carried, MessageOf
  <2> QED
    BY <2>1, <2>2, <2>3 DEF Safe
<1>8. Kept'
  BY <1>7, KeptWhenSafe DEF IInv, Deliver, sender
<1>9. RepliesTrue' /\ OneTrueResult' /\ EffectOnce'
  BY <1>6, QuietHandler DEF IInv, Deliver
<1> QED
  BY <1>5, <1>8, <1>9 DEF IInv

(* The connection closes: nothing but the copy and the connection change.   *)
LEMMA DisconnectStep ==
  ASSUME IInv, NEW h \in Handlers, Disconnect(h)
  PROVE IInv'
<1>1. work[h] \in Delivery
  BY DEF IInv, TypeInv, Disconnect
<1>2. PICK c \in Copy : c = work[h].copy
  BY <1>1 DEF Delivery
<1>3. /\ queues' \in [Queues -> [Copy -> Nat]]
      /\ \A m : MessageOf(h) = m => Queued(m)'
      /\ \A m : Queued(m) => Queued(m)'
  BY <1>2, Returned DEF IInv, Disconnect, MessageOf
<1> DEFINE d == [work[h] EXCEPT !.connected = FALSE, !.copy = FirstCopy(MessageOf(h))]
<1>4. work' = [work EXCEPT ![h] = d]
  BY <1>1 DEF IInv, TypeInv, Disconnect
<1>5. FirstCopy(MessageOf(h)) \in Copy /\ FirstCopy(MessageOf(h)).message = MessageOf(h)
  BY <1>2, CopyFields DEF MessageOf, FirstCopy
<1>6. /\ d \in Delivery
      /\ d.phase = work[h].phase /\ d.result = work[h].result
      /\ d.copy.message = MessageOf(h)
  BY <1>1, <1>5 DEF Delivery
<1>7. TypeInv'
  BY <1>3, <1>4, <1>6 DEF IInv, TypeInv, Disconnect, sender, consumer
<1>8. work'[h] = d /\ \A g \in Handlers \ {h} : work'[g] = work[g]
  BY <1>4 DEF IInv, TypeInv
<1>9. \A m : Safe(m) => Safe(m)'
  BY <1>3, <1>8, SafeWhenReturned DEF IInv, Disconnect, consumer
<1>10. Kept'
  BY <1>9, KeptWhenSafe DEF IInv, Disconnect, sender
<1>11. \A g \in Handlers : /\ work'[g].phase = work[g].phase
                           /\ work'[g].result = work[g].result
                           /\ KeyAt(g)' = KeyAt(g)
  BY <1>6, <1>8 DEF KeyAt, MessageOf
<1>12. RepliesTrue' /\ OneTrueResult' /\ EffectOnce'
  <2>1. UNCHANGED <<inbox, results, receipts>>
    BY DEF Disconnect, consumer
  <2>2. RepliesTrue'
    BY <1>11, <2>1 DEF IInv, RepliesTrue, InPhase
  <2>3. OneTrueResult'
    BY <2>1 DEF IInv, OneTrueResult
  <2>4. EffectOnce'
    BY <1>11, <2>1 DEF IInv, EffectOnce, InPhase
  <2> QED
    BY <2>2, <2>3, <2>4
<1> QED
  BY <1>7, <1>10, <1>12 DEF IInv

LEMMA CrashStep ==
  ASSUME IInv, NEW h \in Handlers, Crash(h)
  PROVE IInv'
<1>1. work[h] \in Delivery
  BY DEF IInv, TypeInv, Crash
<1>2. PICK c \in Copy : c = work[h].copy
  BY <1>1 DEF Delivery
<1>3. /\ queues' \in [Queues -> [Copy -> Nat]]
      /\ \A m : Queued(m) => Queued(m)'
      /\ ~work[h].connected \/ \A m : MessageOf(h) = m => Queued(m)'
  <2>1. CASE work[h].connected
    BY <1>2, <2>1, Returned DEF IInv, Crash, MessageOf
  <2>2. CASE ~work[h].connected
    <3>1. queues' = queues
      BY <2>2 DEF Crash
    <3> QED
      BY <2>2, <3>1 DEF IInv, TypeInv, Queued
  <2> QED
    BY <2>1, <2>2
<1>4. TypeInv'
  BY <1>3 DEF IInv, TypeInv, Crash, sender, consumer
<1>5. work'[h] = Idle /\ \A g \in Handlers \ {h} : work'[g] = work[g]
  BY DEF IInv, TypeInv, Crash
<1>6. \A m : Safe(m) => Safe(m)'
  BY <1>3, <1>5, SafeWhenReturned DEF IInv, Crash, consumer
<1>7. Kept'
  BY <1>6, KeptWhenSafe DEF IInv, Crash, sender
<1>8. RepliesTrue' /\ OneTrueResult' /\ EffectOnce'
  BY <1>5, QuietHandler DEF IInv, Crash, Idle
<1> QED
  BY <1>4, <1>7, <1>8 DEF IInv

-----------------------------------------------------------------------------
(* The handler.                                                            *)

(* A move that commits nothing: the parts of the invariant about messages.  *)
LEMMA MoveStep ==
  ASSUME IInv, NEW h \in Handlers, work[h].phase # "idle",
         NEW phase \in Phases, NEW result \in Replies \cup {None}, Moves(h, phase, result),
         phase = "done" => MessageOf(h) \in inbox,
         UNCHANGED <<sender, queues, consumer>>
  PROVE TypeInv' /\ Kept'
<1>1. UNCHANGED <<outbox, publishes, relay, queues, inbox, results, receipts>>
  BY DEF sender, consumer
<1>2. TypeInv'
  BY <1>1, Moved DEF IInv, TypeInv
<1>3. \A m : Safe(m) => Safe(m)'
  BY <1>1, SafeWhenMoved DEF IInv
<1> QED
  BY <1>1, <1>2, <1>3, KeptWhenSafe DEF IInv

LEMMA QuietMove ==
  ASSUME IInv, NEW h \in Handlers, work[h].phase # "idle",
         NEW phase \in Phases \ {"replying", "executing"}, Moves(h, phase, None),
         phase = "done" => MessageOf(h) \in inbox,
         UNCHANGED <<sender, queues, consumer>>
  PROVE IInv'
<1>1. TypeInv' /\ Kept'
  BY MoveStep
<1>2. /\ work'[h].phase \notin {"replying", "executing"}
      /\ \A g \in Handlers \ {h} : work'[g] = work[g]
  BY Moved DEF IInv
<1>3. RepliesTrue' /\ OneTrueResult' /\ EffectOnce'
  BY <1>2, QuietHandler DEF IInv
<1> QED
  BY <1>1, <1>3 DEF IInv

LEMMA RejectStep ==
  ASSUME IInv, NEW h \in Handlers, Reject(h) \/ Throw(h)
  PROVE IInv'
<1>1. work[h].phase # "idle" /\ UNCHANGED <<sender, queues, consumer>>
  BY DEF Reject, Throw, InPhase
<1>2. Moves(h, "rejected", None) \/ Moves(h, "failed", None)
  BY DEF Reject, Throw
<1> QED
  BY <1>1, <1>2, QuietMove DEF Phases

LEMMA CheckInboxStep ==
  ASSUME IInv, NEW h \in Handlers, CheckInbox(h)
  PROVE IInv'
<1>1. work[h].phase # "idle" /\ UNCHANGED <<sender, queues, consumer>>
  BY DEF CheckInbox, InPhase
<1>2. CASE MessageOf(h) \in inbox
  <2>1. Moves(h, "done", None)
    BY <1>2 DEF CheckInbox
  <2> QED
    BY <1>1, <1>2, <2>1, QuietMove DEF Phases
<1>3. CASE MessageOf(h) \notin inbox
  <2>1. Moves(h, "checked", None)
    BY <1>3 DEF CheckInbox
  <2> QED
    BY <1>1, <2>1, QuietMove DEF Phases
<1> QED
  BY <1>2, <1>3

(* A handler comes to reply with what is true, and commits nothing yet.     *)
LEMMA ReplyingStep ==
  ASSUME IInv, NEW h \in Handlers, work[h].phase # "idle",
         NEW result \in Replies, result \in {receipts[KeyAt(h)]} \cup Undecided(KeyAt(h)),
         Moves(h, "replying", result),
         UNCHANGED <<sender, queues, consumer>>
  PROVE IInv'
<1>1. TypeInv' /\ Kept'
  BY MoveStep DEF Phases
<1>2. /\ work'[h].phase = "replying" /\ work'[h].result = result
      /\ work'[h].copy = work[h].copy
      /\ \A g \in Handlers \ {h} : work'[g] = work[g]
  BY Moved DEF IInv, Phases
<1>3. UNCHANGED <<inbox, results, receipts>>
  BY DEF consumer
<1>4. RepliesTrue'
  BY <1>2, <1>3 DEF IInv, RepliesTrue, InPhase, KeyAt, MessageOf
<1>5. OneTrueResult'
  BY <1>3 DEF IInv, OneTrueResult
<1>6. EffectOnce'
  <2>1. \A g \in Handlers : InPhase(g, "executing")' => g # h /\ work'[g] = work[g]
    BY <1>2 DEF InPhase
  <2> QED
    BY <1>3, <2>1 DEF IInv, EffectOnce, InPhase, KeyAt, MessageOf
<1> QED
  BY <1>1, <1>4, <1>5, <1>6 DEF IInv

LEMMA ReplyOpenStep ==
  ASSUME IInv, NEW h \in Handlers, NEW result \in Replies,
         \/ ReplyBusy(h) /\ result = "UNKNOWN"
         \/ LeaveOpen(h, result)
  PROVE IInv'
<1>1. /\ work[h].phase # "idle"
      /\ Moves(h, "replying", result)
      /\ UNCHANGED <<sender, queues, consumer>>
  BY DEF ReplyBusy, LeaveOpen, InPhase
<1>2. result \in Undecided(KeyAt(h))
  BY DEF ReplyBusy, LeaveOpen, Undecided
<1> QED
  BY <1>1, <1>2, ReplyingStep

LEMMA ReplyReceiptStep ==
  ASSUME IInv, NEW h \in Handlers, ReplyReceipt(h)
  PROVE IInv'
<1>1. /\ work[h].phase # "idle"
      /\ Moves(h, "replying", receipts[KeyAt(h)])
      /\ UNCHANGED <<sender, queues, consumer>>
  BY DEF ReplyReceipt, InPhase
<1>2. KeyAt(h) \in Keys
  BY <1>1, Delivered DEF IInv
<1>3. receipts[KeyAt(h)] \in Replies
  BY <1>2 DEF IInv, TypeInv, ReplyReceipt, Replies
<1> QED
  BY <1>1, <1>3, ReplyingStep

(* The key of a handler that starts has no receipt and nobody else's hands  *)
(* on it.                                                                   *)
LEMMA StartExecutionStep ==
  ASSUME IInv, NEW h \in Handlers, StartExecution(h)
  PROVE IInv'
<1>1. /\ work[h].phase # "idle"
      /\ Moves(h, "executing", None)
      /\ UNCHANGED <<sender, queues, consumer>>
  BY DEF StartExecution, InPhase
<1>2. TypeInv' /\ Kept'
  BY <1>1, MoveStep DEF Phases
<1>3. /\ work'[h].phase = "executing"
      /\ work'[h].copy = work[h].copy
      /\ \A g \in Handlers \ {h} : work'[g] = work[g]
  BY <1>1, Moved DEF IInv, Phases
<1>4. UNCHANGED <<inbox, results, receipts>>
  BY <1>1 DEF consumer
<1>5. \A g \in Handlers : KeyAt(g)' = KeyAt(g)
  BY <1>3 DEF KeyAt, MessageOf
<1>6. RepliesTrue'
  BY <1>3, <1>4, <1>5 DEF IInv, RepliesTrue, InPhase
<1>7. OneTrueResult'
  BY <1>4 DEF IInv, OneTrueResult
<1>8. EffectOnce'
  <2>1. receipts[KeyAt(h)] = None
    BY DEF StartExecution
  <2>2. \A g \in Handlers \ {h} : InPhase(g, "executing") => KeyAt(g) # KeyAt(h)
    BY DEF StartExecution, Busy
  <2>3. \A g \in Handlers \ {h} : InPhase(g, "executing")' <=> InPhase(g, "executing")
    BY <1>3 DEF InPhase
  <2> QED
    BY <1>4, <1>5, <2>1, <2>2, <2>3 DEF IInv, EffectOnce
<1> QED
  BY <1>2, <1>6, <1>7, <1>8 DEF IInv

-----------------------------------------------------------------------------
(* Commits.                                                                *)

(* The commit hook adds one result to a message that has none.              *)
LEMMA Committed ==
  ASSUME IInv, NEW m \in Messages, NEW result \in Replies, Commit(m, result),
         result \in {receipts'[KeyOf[m]]} \cup Undecided(KeyOf[m]),
         \A n \in Messages : receipts'[KeyOf[n]] = receipts[KeyOf[n]] \/ receipts[KeyOf[n]] = None
  PROVE /\ inbox' \in SUBSET Messages /\ inbox \subseteq inbox' /\ m \in inbox'
        /\ results' \in [Messages -> Seq(Replies)]
        /\ OneTrueResult'
<1>1. inbox' \in SUBSET Messages /\ inbox \subseteq inbox' /\ m \in inbox'
  BY DEF IInv, TypeInv, Commit
<1>2. results' \in [Messages -> Seq(Replies)]
  BY DEF IInv, TypeInv, Commit
<1>3. ASSUME NEW n \in Messages
      PROVE /\ Len(results'[n]) = IF n \in inbox' THEN 1 ELSE 0
            /\ \A i \in DOMAIN results'[n] : results'[n][i] \in {receipts'[KeyOf[n]]} \cup Undecided(KeyOf[n])
  <2>1. CASE n = m /\ m \notin inbox
    <3>1. results[n] = <<>>
      BY <2>1 DEF IInv, TypeInv, OneTrueResult
    <3>2. results'[n] = <<result>>
      BY <2>1, <3>1 DEF IInv, TypeInv, Commit
    <3> QED
      BY <1>1, <2>1, <3>2
  <2>2. CASE ~(n = m /\ m \notin inbox)
    <3>1. results'[n] = results[n] /\ (n \in inbox' <=> n \in inbox)
      BY <2>2 DEF IInv, TypeInv, Commit
    <3>2. \A i \in DOMAIN results[n] : /\ results[n][i] \in {receipts[KeyOf[n]]} \cup Undecided(KeyOf[n])
                                       /\ results[n][i] \in Replies
      BY DEF IInv, TypeInv, OneTrueResult
    <3>3. None \notin Replies
      BY DEF None, Replies, Outcomes
    <3> QED
      BY <3>1, <3>2, <3>3 DEF IInv, OneTrueResult
  <2> QED
    BY <2>1, <2>2
<1> QED
  BY <1>1, <1>2, <1>3 DEF OneTrueResult

LEMMA FinishExecutionStep ==
  ASSUME IInv, NEW h \in Handlers, NEW result \in Outcomes, FinishExecution(h, result)
  PROVE IInv'
<1>1. work[h].phase # "idle" /\ Moves(h, "replying", result)
  BY DEF FinishExecution, InPhase
<1>2. MessageOf(h) \in Messages /\ KeyAt(h) \in Keys
  BY <1>1, Delivered DEF IInv
<1>3. result \in Replies /\ "replying" \in Phases
  BY DEF Replies, Phases
<1>4. /\ work' \in [Handlers -> {Idle} \cup Delivery]
      /\ work'[h].phase = "replying" /\ work'[h].result = result
      /\ work'[h].copy = work[h].copy
      /\ \A g \in Handlers \ {h} : work'[g] = work[g]
  BY <1>1, <1>3, Moved DEF IInv
<1>5. /\ receipts' \in [Keys -> Outcomes \cup {None}]
      /\ receipts'[KeyAt(h)] = result
      /\ \A k \in Keys \ {KeyAt(h)} : receipts'[k] = receipts[k]
  BY <1>2 DEF IInv, TypeInv, FinishExecution
<1>6. receipts[KeyAt(h)] = None
  BY DEF IInv, EffectOnce, FinishExecution
<1>7. \A n \in Messages : receipts'[KeyOf[n]] = receipts[KeyOf[n]] \/ receipts[KeyOf[n]] = None
  BY <1>5, <1>6 DEF Keys
<1>8. Commit(MessageOf(h), result) /\ receipts'[KeyOf[MessageOf(h)]] = result
  BY <1>5 DEF FinishExecution, KeyAt
<1>9. /\ inbox' \in SUBSET Messages /\ inbox \subseteq inbox'
      /\ results' \in [Messages -> Seq(Replies)]
      /\ OneTrueResult'
  BY <1>2, <1>3, <1>7, <1>8, Committed
<1>10. TypeInv'
  BY <1>4, <1>5, <1>9 DEF IInv, TypeInv, FinishExecution, sender
<1>11. Kept'
  <2>1. \A m : Safe(m) => Safe(m)'
    BY <1>1, <1>3, <1>9, SafeWhenMoved DEF IInv, FinishExecution
  <2> QED
    BY <2>1, KeptWhenSafe DEF IInv, FinishExecution, sender
<1>12. \A g \in Handlers : KeyAt(g)' = KeyAt(g)
  BY <1>4 DEF KeyAt, MessageOf
<1>13. RepliesTrue'
  <2> SUFFICES ASSUME NEW g \in Handlers, InPhase(g, "replying")'
               PROVE /\ work'[g].result \in Replies
                     /\ work'[g].result \in {receipts'[KeyAt(g)]} \cup Undecided(KeyAt(g))
    BY <1>12 DEF RepliesTrue
  <2>1. CASE g = h
    BY <1>3, <1>4, <1>5, <2>1
  <2>2. CASE g # h
    <3>1. work'[g] = work[g]
      BY <1>4, <2>2
    <3>2. /\ work[g].result \in Replies
          /\ work[g].result \in {receipts[KeyAt(g)]} \cup Undecided(KeyAt(g))
      BY <3>1 DEF IInv, RepliesTrue, InPhase
    <3>3. KeyAt(g) \in Keys
      BY <3>1, Delivered DEF IInv, InPhase
    <3>4. None \notin Replies
      BY DEF None, Replies, Outcomes
    <3> QED
      BY <1>5, <1>6, <3>1, <3>2, <3>3, <3>4
  <2> QED
    BY <2>1, <2>2
<1>14. EffectOnce'
  <2> SUFFICES ASSUME NEW g \in Handlers, InPhase(g, "executing")'
               PROVE /\ receipts'[KeyAt(g)] = None
                     /\ \A f \in Handlers \ {g} : InPhase(f, "executing")' => KeyAt(f) # KeyAt(g)
    BY <1>12 DEF EffectOnce
  <2>1. \A f \in Handlers : InPhase(f, "executing")' => f # h /\ InPhase(f, "executing")
    BY <1>4 DEF InPhase
  <2>2. /\ receipts[KeyAt(g)] = None
        /\ \A f \in Handlers \ {g} : InPhase(f, "executing") => KeyAt(f) # KeyAt(g)
    BY <2>1 DEF IInv, EffectOnce
  <2>3. KeyAt(h) # KeyAt(g) /\ KeyAt(g) \in Keys
    BY <2>1, <2>2, Delivered DEF IInv, FinishExecution, InPhase
  <2> QED
    BY <1>5, <2>1, <2>2, <2>3
<1> QED
  BY <1>9, <1>10, <1>11, <1>13, <1>14 DEF IInv

LEMMA ReplyStep ==
  ASSUME IInv, NEW h \in Handlers, Reply(h)
  PROVE IInv'
<1>1. /\ work[h].phase # "idle" /\ Moves(h, "done", None)
      /\ Commit(MessageOf(h), work[h].result)
      /\ UNCHANGED <<outbox, publishes, relay, queues, receipts>>
  BY DEF Reply, InPhase, sender
<1>2. MessageOf(h) \in Messages
  BY <1>1, Delivered DEF IInv
<1>3. /\ work[h].result \in Replies
      /\ work[h].result \in {receipts[KeyOf[MessageOf(h)]]} \cup Undecided(KeyOf[MessageOf(h)])
  BY DEF IInv, RepliesTrue, Reply, KeyAt
<1>4. /\ inbox' \in SUBSET Messages /\ inbox \subseteq inbox' /\ MessageOf(h) \in inbox'
      /\ results' \in [Messages -> Seq(Replies)]
      /\ OneTrueResult'
  BY <1>1, <1>2, <1>3, Committed
<1>5. /\ work' \in [Handlers -> {Idle} \cup Delivery]
      /\ work'[h].phase = "done"
      /\ \A g \in Handlers \ {h} : work'[g] = work[g]
  BY <1>1, Moved DEF IInv, Phases
<1>6. TypeInv'
  BY <1>1, <1>4, <1>5 DEF IInv, TypeInv
<1>7. \A m : Safe(m) => Safe(m)'
  BY <1>1, <1>4, SafeWhenMoved DEF IInv, Phases
<1>8. Kept'
  BY <1>1, <1>7, KeptWhenSafe DEF IInv
<1>9. RepliesTrue'
  BY <1>1, <1>5 DEF IInv, RepliesTrue, InPhase, KeyAt, MessageOf
<1>10. EffectOnce'
  <2>1. \A g \in Handlers : InPhase(g, "executing")' => g # h /\ work'[g] = work[g]
    BY <1>5 DEF InPhase
  <2> QED
    BY <1>1, <2>1 DEF IInv, EffectOnce, InPhase, KeyAt, MessageOf
<1> QED
  BY <1>4, <1>6, <1>8, <1>9, <1>10 DEF IInv

-----------------------------------------------------------------------------
(* RabbitWorker.handle() after the handler.                                *)

LEMMA CopyMessageStep ==
  ASSUME IInv, NEW h \in Handlers, CopyMessage(h)
  PROVE IInv'
<1>1. work[h].phase # "idle" /\ Moves(h, "done", None) /\ "done" \in Phases
  BY DEF CopyMessage, Phases
<1>2. work[h] \in Delivery
  BY <1>1, Delivered DEF IInv
<1>3. PICK c \in Copy : c = work[h].copy
  BY <1>2 DEF Delivery
<1>4. /\ queues' \in [Queues -> [Copy -> Nat]]
      /\ \A m : MessageOf(h) = m => Queued(m)'
      /\ \A m : Queued(m) => Queued(m)'
  <2>1. CASE InPhase(h, "rejected") \/ c.retries >= RetryLimit
    <3>1. queues' = With("dead", FirstCopy(c.message))
      BY <1>3, <2>1 DEF CopyMessage
    <3>2. FirstCopy(c.message) \in Copy /\ FirstCopy(c.message).message = c.message
      BY CopyFields DEF FirstCopy
    <3> QED
      BY <1>3, <3>1, <3>2, Added DEF IInv, Queues, MessageOf
  <2>2. CASE ~(InPhase(h, "rejected") \/ c.retries >= RetryLimit)
    <3> DEFINE d == [c EXCEPT !.retries = @ + 1, !.returns = 0]
    <3>1. queues' = With("retry", d)
      BY <1>3, <2>2 DEF CopyMessage
    <3>2. c.retries \in 0..RetryLimit /\ ~(c.retries >= RetryLimit)
      BY <2>2, CopyFields
    <3>3. c.retries + 1 \in 0..RetryLimit /\ 0 \in 0..DeliveryLimit
      BY <3>2, ConstantsAssumption
    <3>4. d \in Copy /\ d.message = c.message
      BY <3>3 DEF Copy
    <3> QED
      BY <1>3, <3>1, <3>4, Added DEF IInv, Queues, MessageOf
  <2> QED
    BY <2>1, <2>2
<1>5. /\ work' \in [Handlers -> {Idle} \cup Delivery]
      /\ work'[h].phase = "done"
      /\ \A g \in Handlers \ {h} : work'[g] = work[g]
  BY <1>1, Moved DEF IInv
<1>6. TypeInv'
  BY <1>4, <1>5 DEF IInv, TypeInv, CopyMessage, sender, consumer
<1>7. \A m : Safe(m) => Safe(m)'
  BY <1>4, <1>5, SafeWhenReturned DEF IInv, CopyMessage, consumer
<1>8. Kept'
  BY <1>7, KeptWhenSafe DEF IInv, CopyMessage, sender
<1>9. RepliesTrue' /\ OneTrueResult' /\ EffectOnce'
  BY <1>5, QuietHandler DEF IInv, CopyMessage
<1> QED
  BY <1>6, <1>8, <1>9 DEF IInv

LEMMA LeaveStep ==
  ASSUME IInv, NEW h \in Handlers, Leave(h)
  PROVE IInv'
<1>1. /\ work[h].phase = "done" \/ ~work[h].connected
      /\ work' = [work EXCEPT ![h] = Idle]
      /\ UNCHANGED <<outbox, publishes, relay, queues, inbox, results, receipts>>
  BY DEF Leave, InPhase, sender, consumer
<1>2. work'[h] = Idle /\ \A g \in Handlers \ {h} : work'[g] = work[g]
  BY <1>1 DEF IInv, TypeInv
<1>3. TypeInv'
  BY <1>1 DEF IInv, TypeInv
<1>4. \A m : Queued(m) => Queued(m)'
  BY <1>1 DEF Queued
<1>5. \A m : Safe(m) => Safe(m)'
  BY <1>1, <1>2, <1>4, SafeWhenReturned DEF IInv
<1>6. Kept'
  BY <1>1, <1>5, KeptWhenSafe DEF IInv
<1>7. RepliesTrue' /\ OneTrueResult' /\ EffectOnce'
  BY <1>1, <1>2, QuietHandler DEF IInv, Idle, consumer
<1> QED
  BY <1>3, <1>6, <1>7 DEF IInv

-----------------------------------------------------------------------------
(* The invariant.                                                          *)

LEMMA InitInv == Init => IInv
<1> SUFFICES ASSUME Init PROVE IInv
  OBVIOUS
<1>1. TypeInv
  BY ConstantsAssumption DEF Init, TypeInv, Idle
<1>2. Kept
  BY DEF Init, Kept
<1>3. RepliesTrue /\ EffectOnce
  BY DEF Init, RepliesTrue, EffectOnce, InPhase, Idle
<1>4. OneTrueResult
  <2> SUFFICES ASSUME NEW m \in Messages
               PROVE Len(results[m]) = (IF m \in inbox THEN 1 ELSE 0) /\ DOMAIN results[m] = {}
    BY DEF OneTrueResult
  <2>1. results[m] = <<>> /\ m \notin inbox
    BY DEF Init
  <2>2. Len(<<>>) = 0 /\ DOMAIN <<>> = {}
    OBVIOUS
  <2> QED
    BY <2>1, <2>2
<1> QED
  BY <1>1, <1>2, <1>3, <1>4 DEF IInv

LEMMA StutterStep ==
  ASSUME IInv, UNCHANGED vars
  PROVE IInv'
<1>1. UNCHANGED <<outbox, publishes, relay, queues, work, inbox, results, receipts>>
  BY DEF vars
<1>2. TypeInv'
  BY <1>1 DEF IInv, TypeInv
<1>3. Kept'
  BY <1>1 DEF IInv, Kept, Safe, Queued, Carried, MessageOf
<1>4. RepliesTrue' /\ OneTrueResult' /\ EffectOnce'
  BY <1>1, HandlersUnchanged DEF IInv, consumer
<1> QED
  BY <1>2, <1>3, <1>4 DEF IInv

LEMMA NextInv == IInv /\ [Next]_vars => IInv'
<1> SUFFICES ASSUME IInv, [Next]_vars PROVE IInv'
  OBVIOUS
<1>1. CASE \E m \in Messages : Enqueue(m)
  BY <1>1, EnqueueStep
<1>2. CASE \E p \in Relays : Relaying(p) \/ RelayFail(p)
  BY <1>2, RelayPublishStep, RelayEnds DEF Relaying
<1>3. CASE \E c \in Copy : Expire(c) \/ \E h \in Handlers : Deliver(h, c)
  BY <1>3, ExpireStep, DeliverStep
<1>4. ASSUME NEW h \in Handlers, Handle(h)
      PROVE IInv'
  <2>1. CASE Reject(h)
    BY <2>1, RejectStep
  <2>2. CASE CheckInbox(h)
    BY <2>2, CheckInboxStep
  <2>3. CASE ReplyBusy(h) \/ \E result \in Replies : LeaveOpen(h, result)
    BY <2>3, ReplyOpenStep DEF Replies
  <2>4. CASE ReplyReceipt(h)
    BY <2>4, ReplyReceiptStep
  <2>5. CASE StartExecution(h)
    BY <2>5, StartExecutionStep
  <2>6. CASE \E result \in Outcomes : FinishExecution(h, result)
    BY <2>6, FinishExecutionStep
  <2>7. CASE Reply(h)
    BY <2>7, ReplyStep
  <2>8. CASE CopyMessage(h)
    BY <2>8, CopyMessageStep
  <2>9. CASE Leave(h)
    BY <2>9, LeaveStep
  <2> QED
    BY <1>4, <2>1, <2>2, <2>3, <2>4, <2>5, <2>6, <2>7, <2>8, <2>9 DEF Handle, Replies
<1>5. ASSUME NEW h \in Handlers, Throw(h) \/ Disconnect(h) \/ Crash(h)
      PROVE IInv'
  BY <1>5, RejectStep, DisconnectStep, CrashStep
<1>6. CASE UNCHANGED vars
  BY <1>6, StutterStep
<1> QED
  BY <1>1, <1>2, <1>3, <1>4, <1>5, <1>6 DEF Next

(* Every reachable state satisfies the inductive invariant.                 *)
THEOREM Invariance == Spec => []IInv
  BY InitInv, NextInv, PTL DEF Spec

-----------------------------------------------------------------------------
(* The theorems.                                                           *)

LEMMA SafeIsKept ==
  ASSUME TypeInv, NEW m, Safe(m)
  PROVE m \in inbox \/ InQueue(m)
<1>1. CASE Carried(m)
  <2>1. PICK h \in Handlers : work[h] \in Delivery /\ work[h].connected /\ MessageOf(h) = m
    BY <1>1 DEF Carried
  <2>2. work[h] # Idle
    BY <2>1 DEF Delivery, Phases, Idle
  <2> QED
    BY <2>1, <2>2 DEF InQueue
<1> QED
  BY <1>1 DEF Safe, Queued, InQueue

(* A message that left the outbox for good has been answered, or the broker *)
(* has it: whichever relays and handlers stop, and wherever.                *)
THEOREM NothingIsLost == Spec => []NothingLost
<1>1. IInv => NothingLost
  BY SafeIsKept DEF IInv, Kept, NothingLost
<1> QED
  BY <1>1, Invariance, PTL

(* A message has one result: the outcome that was committed, UNKNOWN, or    *)
(* the failure of a refund or cancellation, however many copies of it, and  *)
(* of others under its key, are handled at once.                            *)
THEOREM ResultsAreTrue == Spec => []OneTrueResult
<1>1. IInv => OneTrueResult
  BY DEF IInv
<1> QED
  BY <1>1, Invariance, PTL

(* The operation of a key takes effect once, however often and under        *)
(* however many message ids its command was sent.                           *)
THEOREM EffectIsOnce == Spec => []EffectOnce
<1>1. IInv => EffectOnce
  BY DEF IInv
<1> QED
  BY <1>1, Invariance, PTL
=============================================================================
