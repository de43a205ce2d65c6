------------------------------ MODULE HttpSaga ------------------------------
(***************************************************************************)
(* The saga driven by requests over HTTP: OrderService.run and compensate  *)
(* (order-orchestrator/src/orders/service.ts) with HttpTransport, composed *)
(* with the three participants of module Participants.  A request that     *)
(* gets the session lock of its order carries the saga on from its row, one*)
(* call after the other, each between two transactions of their own, until *)
(* a result is not a success; there is no other recovery than the next     *)
(* request.                                                                *)
(*                                                                         *)
(* A request may die anywhere: its process crashes, its connection to the  *)
(* database is lost, a transaction fails.  A call that was made may be     *)
(* executed at any later time, also after its caller has timed out or died.*)
(***************************************************************************)
EXTENDS SagaContracts

CONSTANTS
  Orders,       \* the orders customers may place
  Connections,  \* the pool's connections, each serving one request at a time
  Methods       \* the payment methods in use

ASSUME ConnectionsAssumption == None \notin Connections

VARIABLES
  saga,     \* order -> its row of saga_instances
  request,  \* connection -> the request it serves, or Idle
  lock,     \* order -> the connection that holds its advisory lock, or None
  stale,    \* connections whose row has been overwritten by another request
  calls,    \* the calls made to participants so far
  effect,   \* participant -> order -> how far it has brought its step
  told      \* participant -> order -> the definitive results it has given out

participants == <<effect, told>>
vars == <<saga, request, lock, stale, calls, participants>>

P == INSTANCE Participants

-----------------------------------------------------------------------------
(* Rows, requests and results.                                             *)

NewRow(status) ==
  [status |-> status,
   currentOperation |-> "CHARGE_PAYMENT",
   completedSteps |-> <<>>,
   compensatedSteps |-> <<>>,
   inventoryFinalized |-> FALSE]

(* `row` is the saga as the request last read or wrote it; the version that *)
(* it has there is the row's own unless the request is in `stale`.          *)
Idle == [phase |-> "idle"]
Locking(o) == [phase |-> "locked", order |-> o]
Leaving(o) == [phase |-> "leaving", order |-> o]
Serving(o, row) == [phase |-> "deciding", order |-> o, row |-> row]
Calling(o, row) == [phase |-> "calling", order |-> o, row |-> row]
Answered(o, row, outcome) ==
  [phase |-> "answered", order |-> o, row |-> row, outcome |-> outcome]

InPhase(c, phase) == request[c].phase = phase

CommandFor(o, row) == [order |-> o, operation |-> NextOperation(row)]

(* REJECTED: the business rejection of the operation; FAILED: another one.  *)
StatusFor == [SUCCEEDED |-> 200, UNKNOWN |-> 202, REJECTED |-> 422, FAILED |-> 409]

(* Mutant: any status but 200 counts as a failure to answer.                *)
MatchesOnlySuccess(outcome, status) == outcome = "SUCCEEDED" /\ status = 200

(* The statuses with which the transport believes a result.                 *)
Matches(outcome, status) ==
  CASE outcome = "SUCCEEDED" -> status = 200
    [] outcome = "UNKNOWN" -> status = 202
    [] OTHER -> status \in {409, 422}

Received(outcome) ==
  IF Matches(outcome, StatusFor[outcome]) THEN outcome ELSE "UNKNOWN"

Init ==
  /\ saga = [o \in Orders |-> NewRow("ABSENT")]
  /\ request = [c \in Connections |-> Idle]
  /\ lock = [o \in Orders |-> None]
  /\ stale = {}
  /\ calls = {}
  /\ P!Init

-----------------------------------------------------------------------------
(* The beginning and the end of a request.                                 *)

Accept(o) ==
  /\ saga[o].status = "ABSENT"
  /\ \E method \in Methods :
       saga' = [saga EXCEPT ![o] =
                  NewRow(IF method = "BANK_TRANSFER" THEN "PENDING_PAYMENT" ELSE "IN_PROGRESS")]
  /\ UNCHANGED <<request, lock, stale, calls, participants>>

(* Mutant: no session lock.                                                 *)
FreeForAll(o, c) == TRUE

(* Session locks are re-entrant: a connection gets again what it still has. *)
LockFree(o, c) == lock[o] \in {None, c}

(* run(): a request that does not get the lock returns.                     *)
TakeLock(c, o) ==
  /\ request[c] = Idle
  /\ saga[o].status # "ABSENT"
  /\ LockFree(o, c)
  /\ lock' = [lock EXCEPT ![o] = c]
  /\ request' = [request EXCEPT ![c] = Locking(o)]
  /\ UNCHANGED <<saga, stale, calls, participants>>

Read(c) ==
  LET o == request[c].order IN
  /\ InPhase(c, "locked")
  /\ request' = [request EXCEPT ![c] =
                   IF saga[o].status \in Active THEN Serving(o, saga[o]) ELSE Leaving(o)]
  /\ UNCHANGED <<saga, lock, stale, calls, participants>>

(* The `finally` of run(): unlock, or discard the connection if that fails, *)
(* which ends the session and its locks; its place is taken by a new one.   *)
Unlock(c) ==
  /\ request' = [request EXCEPT ![c] = Idle]
  /\ lock' = [o \in Orders |-> IF lock[o] = c THEN None ELSE lock[o]]
  /\ stale' = stale \ {c}
  /\ UNCHANGED <<saga, calls, participants>>

Leave(c) == InPhase(c, "leaving") /\ Unlock(c)

(* A crash, a lost connection or a failed transaction, anywhere.            *)
Die(c) ==
  /\ request[c] # Idle
  /\ ~InPhase(c, "leaving")
  /\ Unlock(c)

Working(c) == request[c].phase \in {"deciding", "calling", "answered"}

(* transition(): writes the row and a new version of it, and throws, so     *)
(* that the request dies, if another request has written it meanwhile.      *)
Write(c, row) ==
  LET o == request[c].order IN
  /\ c \notin stale
  /\ saga' = [saga EXCEPT ![o] = row]
  /\ stale' = stale \cup {d \in Connections \ {c} : Working(d) /\ request[d].order = o}

-----------------------------------------------------------------------------
(* One step of a request.                                                  *)

(* The intent is persisted before the call is made.  A row that is not      *)
(* Consistent makes the request throw: it dies.                             *)
Dispatch(c) ==
  LET r == request[c] IN
  /\ InPhase(c, "deciding")
  /\ Consistent(r.row)
  /\ NextOperation(r.row) # None
  /\ Write(c, r.row)
  /\ calls' = calls \cup {CommandFor(r.order, r.row)}
  /\ request' = [request EXCEPT ![c] = Calling(r.order, r.row)]
  /\ UNCHANGED <<lock, participants>>

Answer(c, outcome) ==
  /\ InPhase(c, "calling")
  /\ request' = [request EXCEPT ![c] =
                   Answered(request[c].order, request[c].row, Received(outcome))]
  /\ UNCHANGED <<saga, lock, stale, calls>>

(* The participant's definitive answer to this call.                        *)
AnswerDefinitively(c) ==
  \E outcome \in {"SUCCEEDED", "REJECTED"} :
    /\ Answer(c, outcome)
    /\ \E x \in calls :
         /\ x = CommandFor(request[c].order, request[c].row)
         /\ P!Answers(x.order, x.operation, outcome)

(* UNKNOWN, the transport's timeout, an error response, a result of another *)
(* command; or a failure that is not the business rejection.                *)
AnswerOtherwise(c) ==
  /\ \E outcome \in {"UNKNOWN", "FAILED"} : Answer(c, outcome)
  /\ UNCHANGED participants

(* What follows a result: the row is written and the request goes on or is  *)
(* over.                                                                    *)
Continue(c, row) ==
  /\ Write(c, row)
  /\ request' = [request EXCEPT ![c] = Serving(request[c].order, row)]
  /\ UNCHANGED <<lock, calls, participants>>

Stop(c, row) ==
  /\ Write(c, row)
  /\ request' = [request EXCEPT ![c] = Leaving(request[c].order)]
  /\ UNCHANGED <<lock, calls, participants>>

Result(c, status, outcomes) ==
  /\ InPhase(c, "answered")
  /\ request[c].row.status = status
  /\ request[c].outcome \in outcomes

(* Nothing is known for certain, or nothing a saga may act on.              *)
StopInDoubt(c) ==
  /\ \/ Result(c, "IN_PROGRESS", {"UNKNOWN", "FAILED"})
     \/ Result(c, "COMPENSATING", {"UNKNOWN", "FAILED", "REJECTED"})
  /\ Stop(c, request[c].row)

(* Mutant: any failure turns the order around.                              *)
TurnAroundOnFailure(c) ==
  LET row == request[c].row IN
  /\ Result(c, "IN_PROGRESS", {"REJECTED", "FAILED"})
  /\ IF row.completedSteps = <<>>
     THEN Stop(c, [row EXCEPT !.status = "FAILED"])
     ELSE Continue(c, [row EXCEPT !.status = "COMPENSATING"])

TurnAround(c) ==
  LET row == request[c].row IN
  /\ Result(c, "IN_PROGRESS", {"REJECTED"})
  /\ IF row.completedSteps = <<>>
     THEN Stop(c, [row EXCEPT !.status = "FAILED"])
     ELSE Continue(c, [row EXCEPT !.status = "COMPENSATING"])

Advance(c) ==
  LET row == request[c].row IN
  /\ Result(c, "IN_PROGRESS", {"SUCCEEDED"})
  /\ row.currentOperation # "FINALIZE_INVENTORY"
  /\ Continue(c, [row EXCEPT !.completedSteps = Append(@, StepFor[row.currentOperation]),
                             !.currentOperation = Successor[row.currentOperation]])

Complete(c) ==
  LET row == request[c].row IN
  /\ Result(c, "IN_PROGRESS", {"SUCCEEDED"})
  /\ row.currentOperation = "FINALIZE_INVENTORY"
  /\ Stop(c, [row EXCEPT !.status = "COMPLETED", !.inventoryFinalized = TRUE])

Compensate(c) ==
  LET row == request[c].row IN
  /\ Result(c, "COMPENSATING", {"SUCCEEDED"})
  /\ Continue(c, [row EXCEPT !.compensatedSteps = Append(@, NextUndo(row))])

Close(c) ==
  LET row == request[c].row IN
  /\ InPhase(c, "deciding")
  /\ row.status = "COMPENSATING"
  /\ ConsistentCompensation(row)
  /\ Undone(row)
  /\ Stop(c, [row EXCEPT !.status = "FAILED"])

(* What a request does with a definitive result, and at the head of its     *)
(* loop.                                                                    *)
Apply(c) == TurnAround(c) \/ Advance(c) \/ Complete(c) \/ Compensate(c)
Decide(c) == Dispatch(c) \/ Close(c)

(* What a request does whatever happens: a call that is not answered in ten *)
(* seconds counts as UNKNOWN.                                               *)
GoOn(c) == AnswerOtherwise(c) \/ StopInDoubt(c) \/ Leave(c)

(* A participant executes a call, whoever still waits for it.               *)
Execute(x) ==
  /\ P!Executes(x.order, x.operation)
  /\ UNCHANGED <<saga, request, lock, stale, calls>>

Next ==
  \/ \E o \in Orders : Accept(o) \/ \E c \in Connections : TakeLock(c, o)
  \/ \E c \in Connections :
       \/ Read(c)
       \/ Leave(c)
       \/ Decide(c)
       \/ AnswerDefinitively(c)
       \/ AnswerOtherwise(c)
       \/ Apply(c)
       \/ StopInDoubt(c)
       \/ Die(c)
  \/ \E x \in calls : Execute(x)

Spec == Init /\ [][Next]_vars

(* Recovery is driven by requests: someone keeps asking for the order, a    *)
(* participant executes what it was called for and does not for ever fail   *)
(* to answer, and not every request dies.                                   *)
Fairness ==
  \A o \in Orders :
    /\ WF_vars(\E c \in Connections : TakeLock(c, o))
    /\ WF_vars(\E c \in Connections : lock[o] = c /\ GoOn(c))
    /\ SF_vars(\E c \in Connections : lock[o] = c /\ Read(c))
    /\ SF_vars(\E c \in Connections : lock[o] = c /\ Decide(c))
    /\ SF_vars(\E c \in Connections : lock[o] = c /\ AnswerDefinitively(c))
    /\ SF_vars(\E c \in Connections : lock[o] = c /\ Apply(c))
    /\ \A operation \in Operations :
         WF_vars(Execute([order |-> o, operation |-> operation])
                 /\ [order |-> o, operation |-> operation] \in calls)

FairSpec == Spec /\ Fairness

-----------------------------------------------------------------------------
(* Properties.                                                             *)

(* The lock makes the version check of transition() superfluous: whatever   *)
(* requests die and whatever they leave behind, the row that a request goes *)
(* by is the row as it is, until the request is over.                       *)
OneWriter ==
  /\ stale = {}
  /\ \A c \in Connections : Working(c) => request[c].row = saga[request[c].order]

(* What an order reports is true of all three participants, although calls  *)
(* whose callers gave up may still be executed after it has ended.          *)
EndingsTrue ==
  \A o \in Orders :
    /\ saga[o].status = "COMPLETED" =>
         /\ effect["payment"][o] = "done"
         /\ effect["inventory"][o] = "final"
         /\ effect["shipping"][o] = "done"
    /\ saga[o].status = "FAILED" =>
         \A service \in Services : effect[service][o] \in {"none", "void", "undone"}

(* An order that is asked for again and again ends: neither a request that  *)
(* died nor an answer that was lost leaves it locked, or stuck in between.  *)
RetriesEnd ==
  \A o \in Orders : saga[o].status \in Active ~> saga[o].status \in Terminal

-----------------------------------------------------------------------------

(* The last undo and the end of the order are two transactions; the order   *)
(* has failed with the first, and Close only says so.                       *)
SagaStatus(s) ==
  IF s.status = "COMPENSATING" /\ Held(s) = <<>> THEN "FAILED" ELSE s.status

Abstract == INSTANCE Saga WITH
  status <- [o \in Orders |-> SagaStatus(saga[o])],
  held <- [o \in Orders |-> Held(saga[o])]

(* Driven by requests, too, the saga goes through the steps of module Saga, *)
(* in its order, and ends all or nothing, as it does behind the broker.     *)
ImplementsSaga == Abstract!Spec
=============================================================================
