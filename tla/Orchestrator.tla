---------------------------- MODULE Orchestrator ----------------------------
(***************************************************************************)
(* The saga orchestrator behind RabbitMQ: BrokerOrderService and its       *)
(* RecoveryWorker (order-orchestrator/src/saga).  One saga row per order,  *)
(* one outbox of commands per order.  Every handler of the service is one  *)
(* database transaction that starts by locking the row (SELECT ... FOR     *)
(* UPDATE), hence one action; a transaction that throws or a process that  *)
(* dies inside one leaves no trace, hence no action.                       *)
(*                                                                         *)
(* Participants and the broker are the environment: any command the relay  *)
(* has handed to the broker may be answered, at any later time, with any   *)
(* outcome its operation admits, or never.  Time is abstract: a deadline   *)
(* stored in the row or the outbox is a member of `due`, `overdue` or      *)
(* `lapsed` once the clock has passed it.                                  *)
(***************************************************************************)
EXTENDS SagaContracts, FiniteSets

CONSTANTS
  Orders,       \* the orders customers may place
  Workers,      \* recovery workers, one per orchestrator process
  Methods,      \* the payment methods in use, a subset of PaymentMethods
  RetryLimit,   \* attempts of one command before an operator is asked (3)
  MaxResumes    \* bound of the model: manual resumes per order

PaymentMethods == {"COD", "BANK_TRANSFER"}

ASSUME ConstantsAssumption ==
  /\ RetryLimit \in Nat \ {0}
  /\ MaxResumes \in Nat
  /\ Methods \subseteq PaymentMethods
  /\ None \notin Workers

VARIABLES
  saga,      \* order -> its row of saga_instances
  outbox,    \* order -> the commands enqueued for it, oldest first
  inbox,     \* order -> commands whose result message_inbox remembers
  dead,      \* order -> commands whose result was sent to dead.orders
  due,       \* orders whose nextAttemptAt has passed
  overdue,   \* orders whose pending command was published a timeout ago
  lapsed,    \* orders whose leaseExpiresAt has passed
  holding,   \* worker -> claims its scan has still to process
  resumes    \* order -> manual resumes so far (bounds the model only)

clocks == <<due, overdue, lapsed>>
vars == <<saga, outbox, inbox, dead, due, overdue, lapsed, holding, resumes>>

-----------------------------------------------------------------------------
(* The saga row.                                                           *)

Statuses == {"ABSENT", "PENDING_PAYMENT"} \cup Active \cup Terminal

Reasons == {"INCONSISTENT_PROGRESS", "MISSING_COMMAND",
            "RECOVERY_RETRIES_EXHAUSTED", "COMMAND_RETRIES_EXHAUSTED"}

(* A command id is its position in the order's outbox; 0 is null.  The     *)
(* column currentStep is always StepFor[currentOperation].                 *)
Row ==
  [status : Statuses,
   paymentMethod : PaymentMethods,
   currentOperation : ForwardOperations,
   completedSteps : Seq(StepNames),
   compensatedSteps : Seq(StepNames),
   inventoryFinalized : BOOLEAN,
   pendingMessageId : Nat,
   brokerAttempts : Nat,
   recoveryAttempts : Nat,
   interventionReason : Reasons \cup {None},
   leaseOwner : Workers \cup {None}]

(* `queued`: enqueued; `sent`: in the broker while published_at is still    *)
(* null (the relay crashed, or has yet to commit); `published`: marked.    *)
Command == [operation : Operations, delivery : {"queued", "sent", "published"}]

NewRow(status, method) ==
  [status |-> status,
   paymentMethod |-> method,
   currentOperation |-> "CHARGE_PAYMENT",
   completedSteps |-> <<>>,
   compensatedSteps |-> <<>>,
   inventoryFinalized |-> FALSE,
   pendingMessageId |-> 0,
   brokerAttempts |-> 0,
   recoveryAttempts |-> 0,
   interventionReason |-> None,
   leaseOwner |-> None]

(* `common` of receive(): what every applied result clears.                 *)
Cleared(s) ==
  [s EXCEPT !.pendingMessageId = 0, !.interventionReason = None, !.leaseOwner = None]

(* Mutant: progress opens a new cycle of attempts but not of recoveries.    *)
FreshBrokerAttempts(s) == [s EXCEPT !.brokerAttempts = 0]

FreshCounters(s) == [s EXCEPT !.brokerAttempts = 0, !.recoveryAttempts = 0]

-----------------------------------------------------------------------------
(* What handlers do to the row and the outbox.                             *)

(* save() without a command: all of its callers but the claim end the lease. *)
Save(o, s) ==
  /\ saga' = [saga EXCEPT ![o] = s]
  /\ overdue' = IF s.pendingMessageId = 0 THEN overdue \ {o} ELSE overdue
  /\ lapsed' = lapsed \ {o}
  /\ UNCHANGED outbox

(* Mutant: the reason is cleared together with the lease.                   *)
InterveneUnmarked(o, s, reason) ==
  /\ Save(o, [s EXCEPT !.interventionReason = None, !.leaseOwner = None])
  /\ UNCHANGED due

Intervene(o, s, reason) ==
  /\ Save(o, [s EXCEPT !.interventionReason = reason, !.leaseOwner = None])
  /\ UNCHANGED due

(* dispatch(): enqueue the next command in the same transaction, or close   *)
(* the saga when everything has been undone.  Its next() throws on a row    *)
(* that is not Consistent; no caller has one (ProgressConsistent, and the   *)
(* Ready of each step in OrchestratorProofs), so a throw is no outcome.     *)
Dispatch(o, s) ==
  IF NextOperation(s) = None
  THEN /\ Save(o, [s EXCEPT !.status = "FAILED", !.pendingMessageId = 0, !.leaseOwner = None])
       /\ UNCHANGED due
  ELSE /\ saga' = [saga EXCEPT ![o] =
                     [s EXCEPT !.pendingMessageId = Len(outbox[o]) + 1,
                               !.brokerAttempts = @ + 1,
                               !.leaseOwner = None]]
       /\ outbox' = [outbox EXCEPT ![o] =
                       Append(@, [operation |-> NextOperation(s), delivery |-> "queued"])]
       /\ due' = due \ {o}
       /\ overdue' = overdue \ {o}
       /\ lapsed' = lapsed \ {o}

-----------------------------------------------------------------------------
(* Requests of customers and operators.                                    *)

(* accept(): the row, and its first command unless a transfer is awaited.   *)
Accept(o, method) ==
  /\ saga[o].status = "ABSENT"
  /\ IF method = "BANK_TRANSFER"
     THEN /\ saga' = [saga EXCEPT ![o] = NewRow("PENDING_PAYMENT", method)]
          /\ UNCHANGED <<outbox, clocks>>
     ELSE Dispatch(o, NewRow("IN_PROGRESS", method))
  /\ UNCHANGED <<inbox, dead, holding, resumes>>

(* Mutant: a transfer confirmed twice starts the saga twice.                *)
ConfirmPaymentAgain(o) ==
  /\ saga[o].status # "ABSENT"
  /\ saga[o].paymentMethod = "BANK_TRANSFER"
  /\ Dispatch(o, [saga[o] EXCEPT !.status = "IN_PROGRESS"])
  /\ UNCHANGED <<inbox, dead, holding, resumes>>

ConfirmPayment(o) ==
  /\ saga[o].status = "PENDING_PAYMENT"
  /\ saga[o].paymentMethod = "BANK_TRANSFER"
  /\ Dispatch(o, [saga[o] EXCEPT !.status = "IN_PROGRESS"])
  /\ UNCHANGED <<inbox, dead, holding, resumes>>

(* run(), called by every POST of the order and by the operator's resume.   *)
(* It throws, and leaves the row alone, when next() does.                   *)
Resume(o) ==
  /\ saga[o].status \notin {"ABSENT"} \cup Terminal
  /\ saga[o].pendingMessageId = 0 \/ saga[o].interventionReason # None
  /\ Consistent(saga[o])
  /\ resumes[o] < MaxResumes
  /\ resumes' = [resumes EXCEPT ![o] = @ + 1]
  /\ Dispatch(o, [FreshCounters(saga[o]) EXCEPT !.interventionReason = None])
  /\ UNCHANGED <<inbox, dead, holding>>

-----------------------------------------------------------------------------
(* receive(): results of participants, late and in any order.  A result    *)
(* delivered again is already in the inbox and changes nothing.            *)

Arrives(o, n) ==
  /\ n \in DOMAIN outbox[o]
  /\ outbox[o][n].delivery # "queued"
  /\ n \notin inbox[o]
  /\ inbox' = [inbox EXCEPT ![o] = @ \cup {n}]
  /\ UNCHANGED <<holding, resumes>>

(* Mutant: the delayed result of an earlier attempt is taken for progress.  *)
AwaitedByAnyAttempt(o, n) ==
  /\ saga[o].pendingMessageId # 0
  /\ saga[o].status \notin Terminal

Awaited(o, n) ==
  /\ saga[o].pendingMessageId = n
  /\ saga[o].status \notin Terminal

(* Delayed results from prior attempts cannot overwrite newer progress.     *)
ReceiveStale(o, n) ==
  /\ Arrives(o, n)
  /\ ~Awaited(o, n)
  /\ UNCHANGED <<saga, outbox, dead, clocks>>

ReceiveCompensated(o, n) ==
  /\ Arrives(o, n)
  /\ Awaited(o, n)
  /\ saga[o].status = "COMPENSATING"
  /\ LET s == FreshCounters(Cleared(saga[o]))
     IN Dispatch(o, [s EXCEPT !.compensatedSteps = Append(@, NextUndo(saga[o]))])
  /\ UNCHANGED dead

(* UNKNOWN, an unexpected failure, or a failed compensation: try again      *)
(* unless the attempts are used up.                                         *)
ReceiveRetryable(o, n) ==
  /\ Arrives(o, n)
  /\ Awaited(o, n)
  /\ IF saga[o].brokerAttempts >= RetryLimit
     THEN /\ Intervene(o, Cleared(saga[o]), "COMMAND_RETRIES_EXHAUSTED")
          /\ dead' = [dead EXCEPT ![o] = @ \cup {n}]
     ELSE /\ Dispatch(o, Cleared(saga[o]))
          /\ UNCHANGED dead

(* A business rejection of payment, stock or shipping.                      *)
ReceiveRejected(o, n) ==
  /\ Arrives(o, n)
  /\ Awaited(o, n)
  /\ saga[o].status = "IN_PROGRESS"
  /\ outbox[o][n].operation \in {"CHARGE_PAYMENT", "RESERVE_INVENTORY", "CREATE_SHIPMENT"}
  /\ LET s == FreshCounters(Cleared(saga[o]))
     IN IF s.completedSteps = <<>>
        THEN Save(o, [s EXCEPT !.status = "FAILED"]) /\ UNCHANGED due
        ELSE Dispatch(o, [s EXCEPT !.status = "COMPENSATING"])
  /\ UNCHANGED dead

(* Mutant: the step is recorded and the cursor stays where it was.          *)
ReceiveStepKeepsCursor(o, n) ==
  /\ Arrives(o, n)
  /\ Awaited(o, n)
  /\ saga[o].status = "IN_PROGRESS"
  /\ outbox[o][n].operation # "FINALIZE_INVENTORY"
  /\ LET s == FreshCounters(Cleared(saga[o]))
     IN Dispatch(o, [s EXCEPT !.completedSteps = Append(@, StepFor[s.currentOperation])])
  /\ UNCHANGED dead

ReceiveStepSucceeded(o, n) ==
  /\ Arrives(o, n)
  /\ Awaited(o, n)
  /\ saga[o].status = "IN_PROGRESS"
  /\ outbox[o][n].operation # "FINALIZE_INVENTORY"
  /\ LET s == FreshCounters(Cleared(saga[o]))
     IN Dispatch(o, [s EXCEPT !.completedSteps = Append(@, StepFor[s.currentOperation]),
                              !.currentOperation = Successor[s.currentOperation]])
  /\ UNCHANGED dead

ReceiveFinalized(o, n) ==
  /\ Arrives(o, n)
  /\ Awaited(o, n)
  /\ saga[o].status = "IN_PROGRESS"
  /\ outbox[o][n].operation = "FINALIZE_INVENTORY"
  /\ Save(o, [FreshCounters(Cleared(saga[o])) EXCEPT !.status = "COMPLETED",
                                                     !.inventoryFinalized = TRUE])
  /\ UNCHANGED <<dead, due>>

-----------------------------------------------------------------------------
(* The recovery worker: scan() claims a batch, then treats its claims one   *)
(* by one, each in a transaction that checks the lease again.  A lease      *)
(* token is worker w: w claims anew only when its scan is over, and an      *)
(* order only when its lease is free or lapsed, so w never holds two.       *)

(* Mutant: the lease of a dead worker is never taken over.                  *)
ClaimableUnleased ==
  {o \in Orders :
     /\ saga[o].status \in Active
     /\ saga[o].interventionReason = None
     /\ o \in due
     /\ saga[o].leaseOwner = None}

Claimable ==
  {o \in Orders :
     /\ saga[o].status \in Active
     /\ saga[o].interventionReason = None
     /\ o \in due
     /\ saga[o].leaseOwner = None \/ o \in lapsed}

(* claimRecovery(): SKIP LOCKED and the batch size leave some of them out.  *)
ClaimRecovery(w, batch) ==
  /\ holding[w] = {}
  /\ batch # {}
  /\ batch \subseteq Claimable
  /\ saga' = [o \in Orders |->
                IF o \in batch THEN [saga[o] EXCEPT !.leaseOwner = w] ELSE saga[o]]
  /\ lapsed' = lapsed \ batch
  /\ holding' = [holding EXCEPT ![w] = batch]
  /\ UNCHANGED <<outbox, inbox, dead, due, overdue, resumes>>

HoldsLease(w, o) ==
  /\ saga[o].leaseOwner = w
  /\ o \notin lapsed
  /\ saga[o].interventionReason = None
  /\ saga[o].status \in Active

(* Mutant: an unpublished command counts as one whose answer is overdue.    *)
AwaitsAnswer(o) ==
  LET n == saga[o].pendingMessageId
  IN n \in DOMAIN outbox[o] /\ outbox[o][n].delivery = "published" /\ o \notin overdue

(* The relay still owns the pending command, or its answer may yet come.    *)
AwaitsDelivery(o) ==
  LET n == saga[o].pendingMessageId
  IN n \in DOMAIN outbox[o] /\ (outbox[o][n].delivery # "published" \/ o \notin overdue)

(* Mutant: recoveries and retries each have a budget of their own.          *)
RecoveryFaultBySilence(o) ==
  LET s == saga[o]
  IN IF ~Consistent(s) THEN "INCONSISTENT_PROGRESS"
     ELSE IF s.pendingMessageId \notin {0} \cup DOMAIN outbox[o] THEN "MISSING_COMMAND"
     ELSE IF AwaitsDelivery(o) THEN None
     ELSE IF s.recoveryAttempts >= RetryLimit THEN "RECOVERY_RETRIES_EXHAUSTED"
     ELSE None

RecoveryFault(o) ==
  LET s == saga[o]
  IN IF ~Consistent(s) THEN "INCONSISTENT_PROGRESS"
     ELSE IF s.pendingMessageId \notin {0} \cup DOMAIN outbox[o] THEN "MISSING_COMMAND"
     ELSE IF AwaitsDelivery(o) THEN None
     ELSE IF s.recoveryAttempts >= RetryLimit \/ s.brokerAttempts >= RetryLimit
          THEN "RECOVERY_RETRIES_EXHAUSTED"
     ELSE None

Processes(w, o) ==
  /\ o \in holding[w]
  /\ holding' = [holding EXCEPT ![w] = @ \ {o}]
  /\ UNCHANGED <<inbox, dead, resumes>>

RecoverFenced(w, o) ==
  /\ Processes(w, o)
  /\ ~HoldsLease(w, o)
  /\ UNCHANGED <<saga, outbox, clocks>>

RecoverIntervene(w, o) ==
  /\ Processes(w, o)
  /\ HoldsLease(w, o)
  /\ RecoveryFault(o) # None
  /\ Intervene(o, saga[o], RecoveryFault(o))

RecoverWait(w, o) ==
  /\ Processes(w, o)
  /\ HoldsLease(w, o)
  /\ RecoveryFault(o) = None
  /\ AwaitsDelivery(o)
  /\ Save(o, [saga[o] EXCEPT !.leaseOwner = None])
  /\ due' = due \ {o}

RecoverResend(w, o) ==
  /\ Processes(w, o)
  /\ HoldsLease(w, o)
  /\ RecoveryFault(o) = None
  /\ ~AwaitsDelivery(o)
  /\ Dispatch(o, [saga[o] EXCEPT !.pendingMessageId = 0,
                                 !.recoveryAttempts = @ + 1])

(* The process dies or the database fails: the scan is given up and the     *)
(* leases of its remaining claims stay until they lapse.                    *)
AbandonScan(w) ==
  /\ holding[w] # {}
  /\ holding' = [holding EXCEPT ![w] = {}]
  /\ UNCHANGED <<saga, outbox, inbox, dead, clocks, resumes>>

-----------------------------------------------------------------------------
(* The outbox relay (relayOnce): publish inside the transaction, then mark. *)
(* A crash in between leaves the message in the broker and unmarked.  The   *)
(* relay takes the oldest unmarked command that no other process has        *)
(* locked, so those before n are each in the hands of another process.      *)

Unmarked(o, n) == {m \in 1..(n - 1) : outbox[o][m].delivery # "published"}

RelayPublish(o, n) ==
  /\ n \in DOMAIN outbox[o]
  /\ outbox[o][n].delivery = "queued"
  /\ Cardinality(Unmarked(o, n)) < Cardinality(Workers)
  /\ outbox' = [outbox EXCEPT ![o][n].delivery = "sent"]
  /\ UNCHANGED <<saga, inbox, dead, clocks, holding, resumes>>

RelayMark(o, n) ==
  /\ n \in DOMAIN outbox[o]
  /\ outbox[o][n].delivery = "sent"
  /\ outbox' = [outbox EXCEPT ![o][n].delivery = "published"]
  /\ UNCHANGED <<saga, inbox, dead, clocks, holding, resumes>>

-----------------------------------------------------------------------------
(* The clock passes a stored deadline.                                     *)

PassNextAttempt(o) ==
  /\ saga[o].status \in Active
  /\ o \notin due
  /\ due' = due \cup {o}
  /\ UNCHANGED <<saga, outbox, inbox, dead, overdue, lapsed, holding, resumes>>

PassResponseDeadline(o) ==
  /\ saga[o].pendingMessageId \in DOMAIN outbox[o]
  /\ outbox[o][saga[o].pendingMessageId].delivery = "published"
  /\ o \notin overdue
  /\ overdue' = overdue \cup {o}
  /\ UNCHANGED <<saga, outbox, inbox, dead, due, lapsed, holding, resumes>>

PassLease(o) ==
  /\ saga[o].leaseOwner # None
  /\ o \notin lapsed
  /\ lapsed' = lapsed \cup {o}
  /\ UNCHANGED <<saga, outbox, inbox, dead, due, overdue, holding, resumes>>

-----------------------------------------------------------------------------

Init ==
  /\ saga = [o \in Orders |-> NewRow("ABSENT", "COD")]
  /\ outbox = [o \in Orders |-> <<>>]
  /\ inbox = [o \in Orders |-> {}]
  /\ dead = [o \in Orders |-> {}]
  /\ due = {}
  /\ overdue = {}
  /\ lapsed = {}
  /\ holding = [w \in Workers |-> {}]
  /\ resumes = [o \in Orders |-> 0]

Request(o) ==
  \/ \E method \in Methods : Accept(o, method)
  \/ ConfirmPayment(o)
  \/ Resume(o)

Receive(o, n) ==
  \/ ReceiveStale(o, n)
  \/ ReceiveCompensated(o, n)
  \/ ReceiveRetryable(o, n)
  \/ ReceiveRejected(o, n)
  \/ ReceiveStepSucceeded(o, n)
  \/ ReceiveFinalized(o, n)

(* What a claim whose lease still stands comes to.                          *)
Recover(w, o) ==
  \/ RecoverIntervene(w, o)
  \/ RecoverWait(w, o)
  \/ RecoverResend(w, o)

RecoverClaim(w, o) == RecoverFenced(w, o) \/ Recover(w, o)

Relay(o, n) == RelayPublish(o, n) \/ RelayMark(o, n)

PassTime(o) == PassNextAttempt(o) \/ PassResponseDeadline(o) \/ PassLease(o)

Next ==
  \/ \E o \in Orders : Request(o)
  \/ \E o \in Orders : \E n \in DOMAIN outbox[o] : Receive(o, n)
  \/ \E o \in Orders : \E n \in DOMAIN outbox[o] : Relay(o, n)
  \/ \E o \in Orders : PassTime(o)
  \/ \E w \in Workers : \E batch \in SUBSET Claimable : ClaimRecovery(w, batch)
  \/ \E w \in Workers : \E o \in holding[w] : RecoverClaim(w, o)
  \/ \E w \in Workers : AbandonScan(w)

Spec == Init /\ [][Next]_vars

(* The relay polls every 250 ms and stored deadlines pass.  The recovery    *)
(* timer always re-arms itself (scan().finally) and scans the longest due   *)
(* sagas first, so a scan ends and an order is claimed again; a scan        *)
(* may die, and a lease may lapse first, any number of times but not        *)
(* every time (a lease of 30 s against a scan of ten transactions).         *)
(* Nothing is assumed of participants, customers or operators.              *)
Fairness ==
  /\ \A o \in Orders :
       /\ WF_vars(PassNextAttempt(o))
       /\ WF_vars(PassResponseDeadline(o))
       /\ WF_vars(PassLease(o))
       /\ WF_vars(\E n \in DOMAIN outbox[o] : Relay(o, n))
       /\ SF_vars(\E w \in Workers : \E batch \in SUBSET Claimable :
                     o \in batch /\ ClaimRecovery(w, batch))
       /\ \A w \in Workers : WF_vars(o \in holding[w] /\ RecoverClaim(w, o))
       /\ SF_vars(\E w \in Workers : o \in holding[w] /\ Recover(w, o))

FairSpec == Spec /\ Fairness

-----------------------------------------------------------------------------
(* Properties.                                                             *)

TypeOK ==
  /\ saga \in [Orders -> Row]
  /\ outbox \in [Orders -> Seq(Command)]
  /\ inbox \in [Orders -> SUBSET Nat]
  /\ dead \in [Orders -> SUBSET Nat]
  /\ due \subseteq Orders
  /\ overdue \subseteq Orders
  /\ lapsed \subseteq Orders
  /\ holding \in [Workers -> SUBSET Orders]
  /\ resumes \in [Orders -> 0..MaxResumes]

(* A saga that is neither settled nor awaiting its payment always has       *)
(* progress that next() accepts: recovery never meets INCONSISTENT_PROGRESS *)
(* and a resume never throws, whatever results and recoveries interleave.   *)
ProgressConsistent ==
  \A o \in Orders : saga[o].status \in Active => Consistent(saga[o])

(* An order only ends COMPLETED with every step done, nothing undone and    *)
(* the stock finalized, and only ends FAILED when each completed step was   *)
(* undone, last first; a finalized order is never compensated.              *)
TerminalSettled ==
  \A o \in Orders :
    LET s == saga[o]
    IN /\ s.status = "COMPLETED" =>
            s.completedSteps = Steps /\ s.compensatedSteps = <<>> /\ s.inventoryFinalized
       /\ s.status = "FAILED" =>
            /\ Len(s.compensatedSteps) = Len(s.completedSteps)
            /\ \A i \in DOMAIN s.completedSteps :
                 s.compensatedSteps[i] = s.completedSteps[Len(s.completedSteps) + 1 - i]
       /\ s.inventoryFinalized => s.status = "COMPLETED"

(* No saga is lost: one that is active and not handed to an operator has    *)
(* exactly its newest command outstanding, for the operation its progress   *)
(* calls for and with no result taken yet, so an answer or a timeout will   *)
(* move it.  Recovery therefore never meets MISSING_COMMAND.                *)
CommandOutstanding ==
  \A o \in Orders :
    LET s == saga[o]
        n == s.pendingMessageId
    IN s.status \in Active /\ s.interventionReason = None =>
         /\ n > 0 /\ n = Len(outbox[o])
         /\ outbox[o][n].operation = NextOperation(s)
         /\ n \notin inbox[o]

(* An operator is only asked when the attempts of the command are used up,  *)
(* never earlier, and the attempts never exceed the limit.                  *)
InterventionDeserved ==
  \A o \in Orders :
    LET s == saga[o]
    IN /\ s.brokerAttempts <= RetryLimit
       /\ s.interventionReason # None =>
            /\ s.interventionReason \in
                 {"RECOVERY_RETRIES_EXHAUSTED", "COMMAND_RETRIES_EXHAUSTED"}
            /\ s.brokerAttempts = RetryLimit

(* Retries after answers, recoveries after silence and manual resumes all   *)
(* draw on one budget: an operation is never sent more than RetryLimit      *)
(* times per cycle, a cycle being opened by the saga's progress or a resume. *)
RetryBudget ==
  \A o \in Orders, operation \in Operations :
    Cardinality({n \in DOMAIN outbox[o] : outbox[o][n].operation = operation})
      <= RetryLimit * (1 + resumes[o])

(* While the broker is down an order keeps one undelivered command: a       *)
(* command is never superseded before the broker has it.                    *)
NoBacklog ==
  \A o \in Orders : \A n \in DOMAIN outbox[o] :
    n < Len(outbox[o]) => outbox[o][n].delivery # "queued"

(* A lease is only ever held on a saga that recovery may still move.        *)
LeasesOnActive ==
  \A o \in Orders :
    saga[o].leaseOwner # None =>
      saga[o].status \in Active /\ saga[o].interventionReason = None

(* A command is superseded only by its own answer, or when the broker has   *)
(* had it for a whole response timeout: neither a fenced worker, a repeated *)
(* POST nor a stale result sends a second command early.                    *)
NoPrematureResend ==
  [][\A o \in Orders :
       LET n == saga[o].pendingMessageId
       IN n # 0 /\ saga'[o].pendingMessageId # n =>
            \/ n \in inbox'[o]
            \/ outbox[o][n].delivery = "published" /\ o \in overdue]_vars

(* Every accepted order that is under way settles or is handed to an        *)
(* operator, even when no participant ever answers.                         *)
Settles ==
  \A o \in Orders :
    saga[o].status \in Active ~>
      saga[o].status \in Terminal \/ saga[o].interventionReason # None

-----------------------------------------------------------------------------
(* The abstract saga, held being the completed steps not yet undone.        *)

Abstract == INSTANCE Saga WITH
  status <- [o \in Orders |-> saga[o].status],
  held <- [o \in Orders |-> Held(saga[o])]

(* Orchestration implements the saga: with every retry, stale answer, lost  *)
(* lease and recovery hidden, the rows still go through the abstract saga's *)
(* steps, in its order, and end all or nothing.                             *)
ImplementsSaga == Abstract!Spec
=============================================================================
