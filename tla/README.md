# Verification of the order-processing saga

TLA+ models of the order-processing system in `src/`, the TLC runs that check them
on small instances, and TLAPS proofs of what matters most for instances of any size.
Everything is translated from the TypeScript source; `PROJECT.json` maps each
definition to the lines it stands for. Comments in the modules call the variants of
a definition that a plausible bug would produce *mutants*: each property is shown to
fail when its mutant replaces the definition.

Contents: [the system](#1-the-system), [the modules](#2-the-modules),
[the runs](#3-the-runs), [the proofs](#4-the-proofs), [findings](#5-findings),
[limits](#6-what-is-not-modelled), [the plan](#7-plan).

## 1. The system

A customer's order is a *saga*: charge the payment, reserve stock, create the
shipment, finalize the stock. If a step is rejected, the steps that took effect are
undone in reverse. Every service has a database of its own; commands and results
travel through RabbitMQ by way of an outbox and an inbox table in each database.

| Component (source) | State | Operations | What is hard | What makes it correct |
|---|---|---|---|---|
| **Orchestrator** (`services/order-orchestrator/src/saga`) | `saga_instances`, `message_outbox`, `message_inbox` | accept, confirm payment, resume, receive a result, claim and recover | stale, repeated and missing answers; recovery workers that race with answers and with each other; leases that lapse; three retry counters; a broker that is down | one command outstanding per active saga; progress consistent and never rewound; all-or-nothing endings that are true of the participants; operators asked only when a command's attempts are used up; one budget of attempts; no early resend; every saga settles |
| **Inventory** (`services/inventory-service`) | `products`, `reservations`, `command_receipts` | reserve, release, finalize | transactions that compete for rows of overlapping baskets; a release before its reserve; duplicates under the same or another key | stock neither promised twice nor lost; what was answered stays true; one answer per command; no lock cycle |
| **Payment** (`services/payment-service`) | `payments`, `refunds`, `command_receipts`; the provider's accounts and requests | charge, refund | an external call between separate commits; lost answers; refunds that overtake charges | the rows agree with the provider; no charge follows an answered refund; one final answer per command, and a failed refund stays open |
| **Shipping** (`services/shipping-service`) | as payment: `shipments`, `shipment_cancellations`; the provider's parcels | create, cancel | as payment; a cancellation that finds a creation unresolved | the rows agree with the provider; no parcel follows an answered cancellation; one final answer per command, and a failed cancellation stays open |
| **Messaging** (`shared/src/messaging`) | outbox and inbox tables, main, retry and dead queues, channels | relay, deliver, retry, dead-letter, acknowledge | a crash between publish and mark, and between copy and acknowledge; concurrent duplicates; a result chosen by whoever wins the inbox | no message vanishes: each is handled, in a queue, in the outbox, or in the dead queue; one result per message, one effect per operation |
| **HTTP saga** (`OrderService.run`, `saga/httpTransport.ts`) | `saga_instances`; the session lock of an order; a row held by a request across its calls | run one saga step by step in a request | requests that die between two transactions; calls that are executed after their caller gave up; optimistic versions | one writer at a time; endings true of the participants; all or nothing; an order that is asked for again ends. The broker mode, which `index.ts` starts, overrides `run` |
| **Checkout** (`apps/web` checkout store and proxy; `orders/service.ts`, `app.ts`) | the checkout store of a tab; requests under way; `orders` | submit, retry, settle, reset; POST /orders: accept, run, read the status | answers that are lost or late, a POST of three transactions, reloads | one order per checkout; a refused checkout has no order; the outcome is never forgotten before it is known; every checkout ends |
| **Order page** (`lib/orders`, `lib/api/api.ts`) | the cached order, pending requests | poll, refresh, resume, confirm, leave | a read that arrives after a newer answer; a lost answer to a resume; errors and snapshots that end the polling | the page never goes back to an older version, and comes to show the end or why it stopped |
| **Order timeline** (`lib/orders/progress.ts`) | none of its own: a function of the row | a status per operation and per compensation | tables of its own, kept apart from the orchestrator's | it shows what the orchestrator goes on with, and what the participants have done |
| **Authentication** (`services/auth-service`) | `users`, `sessions`, tokens, rate limits | register, log in, Google sign-in, log out, verify, reset | statements of one request that commit apart; a login under way while the password is reset; one link redeemed twice; two sign-ins that claim one address | a login leaves no session of a password that was replaced; a link works once; a linked Google account stays |
| shells, migrations, observability, pages | none the saga reads | | | |

How they interact: the orchestrator writes a command to its outbox in the
transaction that advances the saga; a relay publishes it to the owner's queue; the
participant executes it and writes the result to its own outbox in the transaction
of its business effect; the orchestrator applies the result and writes the next
command. Delivery is at least once at every hop, in any order. Recovery
workers claim sagas whose `nextAttemptAt` has passed and send a command again
when its answer is overdue.

The hazards that follow from this are listed in `PROJECT.json` at the lines where
they bite, with the properties that would catch them.

## 2. The modules

```
SagaContracts                     the tables all sagas share
Saga                              what a saga promises its customer
Participant                       what a participant promises a saga
Participants                      the three of them, as an orchestrator meets them

Orchestrator --- implements Saga
  OrderSystem = Orchestrator + Participants --- implements Saga
    OrderTimeline = OrderSystem + what the order page shows of it
HttpSaga = requests + Participants --- implements Saga

Inventory, Payment, Shipping --- each implements Participant
Messaging        Checkout        OrderPage        Auth

SagaRows          what a row rests on and its steps, for the proofs of the two sagas
OrchestratorProofs, HttpSagaProofs, InventoryProofs, PaymentProofs,
ShippingProofs, MessagingProofs, CheckoutProofs, AuthProofs
MC<Module>        instance of a module for TLC
```

The chain from code to promise is: Payment, Inventory and Shipping, modelled down to
their statements and locks, implement Participant; Orchestrator, composed with three
Participants (OrderSystem), implements Saga and ends truthfully. What stands between
them, one effect and one true result per message, is what Messaging shows.

**SagaContracts** holds the tables every saga module shares: operations, steps, the
steps completed before an operation and those to undo after it, and the checks of
`next()` and `nextCompensation()` (`stateMachine.ts`, `compensate.ts`, `contracts.ts`).

**Saga** says what an orchestrator promises: steps take effect in order, a
rejection turns the saga around, what took effect is undone one step at a time, the
end is COMPLETED with every step or FAILED with none.

**Participant** says what a participant promises, without commands, keys, receipts,
locks or a provider. An order's step is `none`, `done`, `undone`, `final` (finalized
stock) or `void` (undone before it was ever done, which must keep it from being done
later). `told` holds the definitive results given out (DONE, REFUSED, UNDONE, FINAL), which
have to be true of the step when they are given and for ever after.
**Participants** joins three of them with the vocabulary of commands: `Executes` is
a command that takes effect, `Answers` one that is answered definitively.

### Orchestrator

One row per order in `saga`, its commands in `outbox` (a message id is a position),
the answered ones in `inbox`, dead-lettered ones in `dead`.

* Every handler of `BrokerOrderService` is one transaction that begins with
  `SELECT ... FOR UPDATE` on the row, so it is one action, with everything it does:
  `Accept`, `ConfirmPayment`, `Resume`; the outcomes of `receive()`, one action each
  (`ReceiveStale`, `ReceiveCompensated`, `ReceiveRetryable`, `ReceiveRejected`,
  `ReceiveStepSucceeded`, `ReceiveFinalized`); the outcomes of `recoverClaim()`
  (`RecoverFenced`, `RecoverIntervene`, `RecoverWait`, `RecoverResend`).
  `ClaimRecovery` claims a batch in a transaction of its own; the claims are then
  processed one by one, with anything in between, and a scan may die
  (`AbandonScan`). The relay's publish and its commit are two actions, because it
  may die in between.
* A transaction that throws is rolled back, hence no action. In particular the
  consistency checks of `next()` and `nextCompensation()` throw; that they never do
  on an active saga is the property `ProgressConsistent`.
* Time: a stored deadline is `due` (nextAttemptAt), `overdue` (response
  deadline) or `lapsed` (lease) once the clock has passed it. How long it takes is
  left open, so every timing is covered.
* Participants and broker are the environment: a command that has reached the
  broker may be answered with any outcome of its operation, later, repeatedly or
  never.
* Left out because nothing distinguishes on it: `currentStep` (a function of
  `currentOperation`), `version` and `saga_transitions` (history, no guard of this
  class reads them), `lastResult`, the order's content. The lease token stands for
  its worker. Results with a wrong correlation raise `InvalidMessage` and change no
  saga; module Messaging has them as `Invalid` messages.

### OrderSystem

Orchestrator with its environment narrowed down to the participants. A command in
the broker may be executed at any later time, any number of times, also after its
order has ended (`Execute`); it is answered once, definitively (`RespondDefinitively`:
what the participant may truly say) or with a doubt (`RespondRetryable`), and
`answers` may be received late or never. The actions of Orchestrator are taken as
they are; `ReceiveAnswer` picks the outcomes that fit the answer. `EndingsTrue`
relates two sides that never see each other: the status of a row and what stands in
the databases of three services.

### OrderTimeline

`sagaProgress()` of the order page derives a status per operation and per
compensation from the row alone. `Forward` and `Compensation` are its two tables,
with its own list of steps in reverse. "Running" and the "Failed" of a last attempt
that may be repeated are one status here, InHand: the row's `lastResult`, which tells them apart, is not
modelled. `TimelineTrue` compares what is shown with the operation the orchestrator
goes on with and with `effect`.

### HttpSaga

The same rows, driven by requests: `run()` takes the session lock of the order
(`TakeLock`; a request that does not get it leaves), reads the row (`Read`), and goes
round its loop: `Dispatch` commits and calls, `AnswerDefinitively` or `AnswerOtherwise`
is what `httpTransport` makes of the response, `Apply` and `StopInDoubt` commit the
consequence. `row` is the saga as the request last read or wrote it. `transition()`
writes under the version it read; `stale` names the connections whose version is
out of date, so that `Write` fails them as the code does. A request may `Die`
anywhere, upon which its lock is gone but its calls are not: a call may be executed at
any later time. The transport believes a result only if the HTTP status matches
it (`Matches`), and the statuses the participants answer with are in `StatusFor`. The
last undo and the end of the order are two transactions; the refinement
counts a compensating row that holds nothing as FAILED. Leases, attempts and
transitions, which this class writes and never reads, are left out.

### Inventory

`InventoryService.execute` is one transaction with several waits. A session goes
through `Begin`, `LockOrder` (advisory lock), `InsertReceipt` or `ReplayReceipt`
(which waits while another transaction holds the same key), `LockProduct` (one row at
a time, by id) and one decision that commits: `RefuseConflict`, `Refuse`,
`ReplayReserve`, `Reserve`, `FailReserve`, `Release`, `ReleaseNothing`, `Finalize`.
`Abort` may end a transaction anywhere and undoes everything: lock timeout, lost
connection or crash. Writes become visible at the commit; the order lock and the row
locks make the earlier reads current, and `ReadsCurrent` in the proofs says so.
A fingerprint is the command without its key. Missing and inactive products are not
told apart, as in the code. As a Participant its step is where the reservation
stands, and what it told is its answers.

### Payment

`PaymentService.execute` is *not* one transaction: it holds a session lock it only
tries for, and commits its receipt, the payment or refund row, the provider's
answer and its own result one after the other, with the provider call in between.
`run` holds each session's phase and the rows *as it read them*, which is what the
code decides by. `calls` is what was sent to the provider; a call may be executed by
the provider at any later time (`ProviderCharge`, `ProviderRefuse`,
`ProviderRefund`), also after the deadline of line 114, and its answer may never be
seen: `Abandon` ends an execution anywhere and frees the lock. UNKNOWN answers are
not recorded, since nothing is decided by them. The provider's `mode` (success,
reject, lost answer) is a choice at each call. The provider is keyed by
`commandKey(sagaId, operation)` whatever key the client used, which `SameKey` models.
The branches that its cache makes unreachable (another payload, another saga) are in
`Refused` nevertheless. The local provider never turns a refund down, but the service
is written and tested for one that may (`tests/payment/payment.test.mjs:171`):
`RefundTurnedDown` is that answer, for which the provider keeps nothing. A failed refund
leaves its receipt open (`FailRefund`; lines 69 to 71), so the same command may be
answered FAILED first and REFUNDED later; `Final` tells which answers settle their
command, and `OneFinalAnswer` is about those. As a Participant its step is where the money is at the
provider, not what its own rows say.

### Shipping

The same pattern over `ShippingService`, with its own rules: a cancellation is
recorded as requested before a pending creation is resolved (`RequestCancel`,
`ResolveCreate`), a creation that finds it is refused, and a failed cancellation
leaves its receipt open (`LeaveOpen`; lines 155 to 157), so that a repeat tries again and
may succeed. `CancelTurnedDown` is the provider that refuses one, as
`tests/shipping/shipping.test.mjs:189` has it and the local one never does. `shipments` holds the
latest row of each order; `parcels` is the provider's, and its step as a Participant. The
schema's check that links a cancelled row to its shipment is part of `ShipmentRecordTrue`.

### Messaging

One hop of `shared/src/messaging`, from a sender's outbox to a consumer's inbox.
The relay publishes while its transaction holds the row (`RelayPublish`) and commits
afterwards (`RelayMark`) or dies (`RelayFail`). `queues` counts the copies in the
main, retry and dead queues; a copy carries its `saga-retries` header and the
broker's delivery count. The counts of a dead copy, which nothing goes by, start over. A handler goes
through the phases of `RabbitWorker.handle` and
`participantHandler`; its connection may close under it, upon which the broker
returns the message while the handler runs on, and it may crash. The business
operation is abstract: it owns its key while it executes, so a second handler is
told UNKNOWN, and keeps a receipt of its outcome, except that a refund or cancellation
(`Reversals`) that failed leaves it open (`LeaveOpen`), like an execution in doubt: the
failure is answered, and a later command under the same key may succeed. `MaxPublishes` caps the publishes that
dying relays would repeat without end.

### Checkout

`store` is the checkout store of a tab, with its idempotency key and frozen
request; `net` holds the requests under way, whose stage says which of the three
transactions of POST /orders are behind them: `Accept` (`OrderService.accept`),
`Run` (`BrokerOrderService.run`), `ReadStatus`. `Fail` stands for every error of the
proxy, the session check or the service, at any stage, and `GiveUp` for timeouts
and lost answers: the request goes on without the one who sent it. 503 stands for
every answer that is neither an order nor 400 or 409; they all have the browser keep
the checkout. `Progress` is what the saga and the administrator do to the order's
status. There is one customer. The store survives a sign-out in the same tab,
so a retry under another account would be another customer's order (the key is
unique per customer); that is not modelled.

### OrderPage

One page of one order. `order` is the row as the service has it: status, intervention
and the version that `save()` counts up (module Orchestrator leaves the version out;
here it is what the cache goes by). `page.shown` is the snapshot in the cache,
`read`, `resume` and `confirm` are the pending requests, each of which may be served
at any time after it was sent and be answered late or never. `Polls` is
`pollingDelay() !== null`; that the error is only asked about after the
snapshot is its first conjunct. `Merge` is the cache's rule for reads,
`ResumeArrives` the one for resumes. RTK Query is modelled by its contract as the
code configures it: one read at a time, an invalidation that waits
until no request is pending, a mutation that outlives the page. Other pages,
whose resumes this one does not see, are `ResumeElsewhere`. `MaxVersion` bounds the versions.

### Auth

The account of one email address: `account` is its row in `users`, `sessions` the
rows that refer to it, `links` the token that each request issued. A request is sent
once, does one thing and goes through its statements: where the code works in a
transaction, the phases from the statement that takes the row lock up to the
commit, and what is written appears at the commit; where it does not
(`register`, `issueToken`), every statement commits by itself. `Fail` ends a request
anywhere. A login reads the account when it gets the row (`seen`) and decides by
that; `UpdateAccount` waits for it, as the UPDATE does. An insert that refers to the
account waits for a `FOR UPDATE`, but not for an UPDATE of other columns.

The session that registration ends with is inserted by a statement of its own, after
the mail was sent; `SessionsFollowPassword` is about logins and leaves it out. A registration
whose mail fails has inserted its user all the same (`Fail` after `Register`); that its
repetition is answered 409 changes nothing in the tables and is left out.

## 3. The runs

All instances are small on purpose: what can go wrong needs few actors.

| Run | Instance | What it shows |
|---|---|---|
| `orchestrator_workers` | 1 order, 2 workers, COD and transfer, 2 attempts, 1 resume, up to 7 commands; 1,205,310 states | `ProgressConsistent`, `TerminalSettled`, `CommandOutstanding`, `InterventionDeserved`, `RetryBudget`, `NoBacklog`, `NoPrematureResend`: no saga is lost, none is sent twice early, no operator is asked early, retries, recoveries and resumes share one budget |
| `order_system` | 1 order, 1 worker, COD and transfer, 1 attempt, 1 resume, all three participants, fairness; 43,310 | `EndingsTrue`: what an order reports is true of the participants; `TimelineTrue`: so is what the page shows; `ImplementsSaga`: refinement of Saga; `Settles`: every active saga ends or reaches an operator though nobody answers |
| `inventory` | 2 sessions, 8 commands of 2 orders that want the same last product; 514,086 | `NeverOversold`, `StockConserved`, `NoWaitCycle`, `OneAnswerPerCommand`, `TypeOK`; `ImplementsParticipant`: what was answered stays true, so releases and finalizations are final |
| `payment_repeats` | 2 sessions, 7 commands of an order, prepaid, COD and foreign; 480,152 | `OneFinalAnswer`: a settled command keeps its answer, a failed refund is never recorded as made; `RecordsTrue`, `ImplementsParticipant`: no charge follows its refund |
| `payment_cod` | 2 sessions, a COD order | violation, see [findings](#5-findings) |
| `shipping_repeats` | 2 sessions, 7 commands of an order; 460,246 | `OneFinalAnswer`: as for payments, of cancellations; `ShipmentRecordTrue`, `ImplementsParticipant`: no parcel follows its cancellation |
| `messaging` | one refund or one malformed message under way, 1 relay, 2 handlers, 1 retry, 1 return, fairness; 130,114 | `NothingLost`, `OneTrueResult`, `EffectOnce`; `Handled`: a published message is answered or dead-lettered |
| `http_saga` | 1 order, 3 connections, COD and transfer, fairness; 585 | `OneWriter`: the lock makes the version check superfluous; `EndingsTrue`, `ImplementsSaga`; `RetriesEnd`: an order that is asked for again and again ends |
| `checkout` | 1 tab, 2 checkouts, 2 requests under way, COD, transfer and refused contents, fairness; 235,087 | `OneOrderPerCheckout`, `RejectionTrue`, `OrderKnown`, `CheckoutSettles` |
| `checkout_transfer` | as `checkout` | violation, see [findings](#5-findings) |
| `order_page` | 1 page, 5 versions, fairness; 77,147 | `NeverRollsBack`; `ShowsEnding`: an open page comes to show the end of its order or why it stopped |
| `auth` | 4 requests, 2 passwords, 2 Google accounts, a lock after 2 failures; 90,895 | `SessionsFollowPassword`, `LinksWorkOnce`, `GoogleLinkStays` |

**Bounds.** `RetryLimit` of the orchestrator is 3 in the code. Two attempts
distinguish the first attempt, a retry and the exhausted limit; one suffices where
only the shape of the progress matters. `MaxResumes` caps the manual resumes, which
are otherwise unbounded, in the guard of `Resume`. `orchestrator_workers` also
cuts off behind its seventh command (`MaxCommands`, a state constraint of the MC
module): seven are a whole forward saga with a repeat, or a compensation
with retries before and after a resume; its safety properties are proved
without either bound. Two
workers are what a lost lease needs; they are interchangeable, hence the symmetry.
`order_system` has liveness properties and therefore neither symmetry nor constraint.
Orders share no state in the orchestrator
(each action changes one row), so the runs have one; the theorems hold for any set
of orders. In Inventory two
sessions whose baskets share two products are enough for a wait cycle; `NoDeadlock`
is proved for any number. In Payment and
Shipping the order lock lets one session in at a time; the second one is there for
the lock itself; their safety is proved for any number. The MC modules fix the *commands* clients ever send; each may be
sent at any time and any number of times. In Messaging one relay suffices for
what consumers see, since the row lock keeps a second one away from the row, and one
return or one retry copy per message already brings it to a second handler
while the first still runs; the limits in the code are 5 and 2. The command of the run is a
refund, which has every way to end: with a receipt, failed without one, in doubt; that a charge or
a reservation may fail with a receipt is in the proofs. `MaxPublishes` is 1: a
second publish looks to the consumer like the return of the first, and a resend under the
same key like a second message; the proofs have any number of both. Three
connections of HttpSaga are one that died with its call under way, one that works and
one that waits. In Checkout two
requests under way are a retry and the request it overtakes; the second key is what
a reset or a reload moves on to; its safety is proved for any number of tabs, keys and requests. Five versions of an order leave room for an
escalation, a resume, a turn and an ending while one read is under way. In
Auth the longest conflict takes four requests: one that issues a link and two that
redeem it, or one of each beside a login. `CHECK_DEADLOCK FALSE` is set for
orchestrator_workers, order_system, messaging, http_saga and auth only: they
stop when every order has settled, every message is done with, or every request was sent.

**Fairness.** `Orchestrator!Fairness`: the relay polls every 250 ms and stored
deadlines pass (weak fairness). The recovery timer re-arms itself in
`scan().finally` and claims the longest due sagas first, so an order that is
claimable again and again is claimed (strong), and a claim in hand is processed
(weak). A lease may lapse before its claim is reached, but not every time: 30 s
stand against at most ten short transactions (strong on `Recover`). Nothing is
assumed of participants, customers or operators, in `OrderSystem!FairSystemSpec` either.
`Messaging!FairSpec`: the broker hands over what is queued and the retry queue's
messages expire (1 s), and a handler that is not stopped goes on (weak); relays owe
nothing, since `Handled` begins with a published message.
`HttpSaga!FairSpec`: this saga moves only when it is asked, so the property is about an
order that is asked for again and again (weak fairness of `TakeLock`); a request goes on
(weak), the participants execute what they were called for (weak), and neither do all requests
die nor all answers get lost (strong on reading, deciding, a definitive answer and its
consequence). `Checkout!FairSpec`: time
passes and requests are served (weak), a customer who is offered a retry again and
again takes it (strong), and failures and lost answers end at some time; without
that nobody could promise an outcome. A customer whose email is never verified is
answered 403 each time: that is such a failure, and his checkout stays uncertain.
`OrderPage!FairSpec`: the polling timer fires and requests have an outcome (weak;
they have a timeout of 15 s), what is invalidated is read once nothing is pending
(strong, since polls may come in between), and reads do not fail for ever. The saga
need not move on, and nobody need refresh.

## 4. The proofs

Proved by TLAPS for all values of the constants under the modules' named assumptions.

**OrchestratorProofs.** For any set of orders and workers, any limit and any number
of resumes: `TypeCorrect`, `ProgressIsConsistent`, `TerminalIsSettled`,
`CommandIsOutstanding`, `InterventionIsDeserved`, `NoBacklogGrows`,
`LeasesAreOnActive`, `OrchestratorImplementsSaga`, `ResendsAreInTime`,
`BudgetIsRespected`. None of the invariants is inductive alone. The inductive invariant `IInv`
holds one statement per order and has four parts: *Progress* ties
status, cursor and the two step lists together (this is what makes
`ConsistentForward` and `ConsistentCompensation` true after each result);
*Counters* relates the three counters to the limit and the intervention;
*Pending* says that the pending command is the newest one and for which
operation; *Delivered* says that all older commands reached the broker and that only
commands which did are answered. `CommandOutstanding` needs all four: that a
recovery never finds `MISSING_COMMAND` follows from *Pending*, that it never finds
`INCONSISTENT_PROGRESS` from *Progress*. The step lemma goes through the actions of
`Next` one by one; every action changes one order's row, so the others keep theirs.
The refinement classifies what an action does to a row as one of the abstract saga's
steps or none (`RowStep` in SagaRows). `RetryBudget` counts commands in the outbox: *Budget*
adds that the open cycle has spent `brokerAttempts` on the operation in
hand and nothing yet on the operations still to come (`YetToCome`).

With the participants joined to it (OrderSystem, OrderTimeline): `EndingsAreTrue`,
`TimelineIsTrue` and `SystemImplementsSaga`. `SystemInv` stands beside `IInv` and relates
what nobody sees at once: a row, the commands sent for it, the results told and how far
each participant's step has come. A completed step was told DONE, a compensated one
UNDONE, the one that turned the saga around REFUSED (`RowTrue`); a participant has
undone, done or finalized only what it had a command for (`ServiceTrue`). A FAILED order
can hold nothing since each of its steps was refused, undone or never sent.
For the timeline the rows are listed by their shape (`RowShape`), the page's tables are
read off it, and *Budget* gives that what waits to be undone has not been sent for.

**HttpSagaProofs.** `OneWriterHolds`, `EndingsAreTrue`, `HttpImplementsSaga` for
any orders and connections: `LockInv` (a request in hand holds its order's lock, and its row is
the row), `TruthInv` (RowTrue and ServiceTrue over calls instead of commands), and the row steps of SagaRows.
The lemmas on tables and sequences at the head of the module are those of OrchestratorProofs, so that either can be read and checked alone.

**InventoryProofs.** `TypeCorrect`, `StockNeverOversold`, `ReleaseFinality`,
`FinalizeFinality`, `AnswersAgree`, `NoDeadlock`, `StockIsConserved`, `InventoryImplementsParticipant`, for any sessions, commands, products
and initial stock. `IInv` adds to the invariants of the runs: *LocksExclusive* (an
order, a key and a product have one holder each), *ReadsCurrent* (what a transaction
read is what is stored while it holds the locks; the heart of `NeverOversold`),
*HeldListed* (a reservation in effect lists products that exist),
*AnswersRecorded* (an answer is its receipt's result) and *ReceiptsKept* (a receipt
tells what happened to its reservation). Two lemmas do most of the work: a step
that only advances a transaction (`TransactionStep`) and one that commits
(`CommitStep`). `NoDeadlock` needs no counting: of any set of waiting sessions, one
that holds the highest product row, or else a later kind of lock, waits for nobody in the set.
`StockConserved` counts: the units that orders hold are the elements of a set (an order, a
product and a number), not a sum, so that what a commit does to stock is what it adds to or
takes from that set, and cardinalities of finite sets do the rest. `Conserved` says that the
set is finite and, with the stock left, as large as the stock there was.

**PaymentProofs.** `FinalAnswersAgree`, `RecordsAreTrue`, `PaymentImplementsParticipant`, for any
sessions and any set of commands in which a saga belongs to one order
(`SagaAssumption`; the orchestrator gives every order a saga of its own). One execution at a time has an order, and what it read is
what the rows are. Rows never let go of a saga, an amount or a result, so every
call for an order is the one its rows determine and the provider serves it once; hence what was told stays
true of the provider's account. `FinalAnswersAgree` has the provider turn refunds down at will:
a final answer is its receipt's, a receipt with a result has a final one and is not executed
again, and a failed refund has no part in either.

**ShippingProofs.** `FinalAnswersAgree`, `RecordsAreTrue`, `ShippingImplementsParticipant`, for
any sessions and any commands under the same `SagaAssumption`. The frame is that of PaymentProofs:
one execution at a time has an order. New is that an order has two records: a
cancellation notes whether there was a shipment to cancel, and the shipment is marked
CANCELLED by two readings, what the execution read at first and whether the
provider's shipment id is there by now. `RowTrue` and `ExecutionTrue` say that the two agree
with each other and with the provider, `RowGrows` that neither record forgets what was decided.

**CheckoutProofs.** `OneOrder`, `RejectionIsTrue`, `OrdersAreKnown`, for any tabs, keys, contents
and requests under way. A key goes with one content wherever it is, in a tab, in a request
or in an order (`OneContent`), so a retry is never answered 409 and only what the service
refuses anyway is answered 400; hence no order is made after a rejection. A request that
may still make an order has a key that is *Known*: some tab keeps it, a reload gave it up,
or its order was shown. Three lemmas carry the steps: what the service does (`ServiceStep`), a tab
that sends (`SendStep`), a tab that lets go of its request (`LetGoStep`).

**MessagingProofs.** `NothingIsLost`, `ResultsAreTrue`, `EffectIsOnce`, for any
messages, keys (so also resends under one key), relays, handlers, limits and publishes. A published
message is *Safe*: in the inbox, in a queue or with a connected handler that has not
finished; a receipt is kept, and each handler's reply and each result
is its receipt's outcome, UNKNOWN, or the failure of a refund or cancellation.

**AuthProofs.** `SessionsFollow`, `LinksAreUsedOnce`, `GoogleLinkIsKept`, for any
requests, passwords and accounts. They rest on who holds which row lock: one request at
a time has the account, one that signs in goes by the account as it is, and a link that is
being redeemed was not used before.

**Only model-checked.** The liveness properties `Settles`, `Handled`, `RetriesEnd`,
`CheckoutSettles` and `ShowsEnding` (fairness is out of the prover's reach), and
`NeverRollsBack` of OrderPage, which concerns one page with few requests.
No RECURSIVE operator is used.

## 5. Findings

Two places where the documents say something else than the code does, each a
violation run.

1. **COD compensation is not always a no-op** (`payment_cod`).
   `docs/PRESENTATION_GUIDE.md:107`: "a COD payment remains Pay on Delivery and
   compensation is a safe no-op". If the answer to the charge was lost, the payment
   is PENDING when the refund reads it. The refund resolves the charge to
   PAY_ON_DELIVERY (`payments/service.ts:58`), but line 61 tests the status it
   read before, so it asks the provider for a refund and the payment ends REFUNDED.
   The stale test does no harm to the records: `RecordsTrue` holds.
2. **A bank transfer is not accepted, as seen from the browser**
   (`checkout_transfer`). `docs/PRESENTATION_GUIDE.md:61`: "It is accepted, but it
   stops at Pending Payment." The order is stored as PENDING_PAYMENT, but POST
   /orders goes on to `run()`, whose `next()` throws for that status
   (`brokerOrders.ts:83`, `:372`), so the POST and each retry is answered with 503
   until an administrator confirms the payment. Meanwhile the browser shows
   an unknown outcome and cannot start another checkout.

Observed as well:

* A handler that lost its connection still executes its command; the message is
  delivered again, finds the order lock taken, is answered UNKNOWN and remembered in
  the inbox. The first handler then commits the effect, `remember` finds the message
  known, and no result goes out (`participant.ts:23`). The saga learns of the outcome
  when recovery sends the command again, whose receipt is replayed. `OneTrueResult`
  is stated accordingly: a result is the outcome, UNKNOWN, or the failure of a refund or
cancellation, which is final for nobody.
* `pollingDelay` looks at the snapshot before the error (`polling.ts:9`): if a
  snapshot that asks for an operator is shown and the read after a resume fails, the
  page stops polling although the error is temporary. It says so, and `ShowsEnding`
  allows for it.
* `tests/messaging/rabbit.test.mjs:118` and `:123` and
  `tests/orchestrator/orders.test.mjs:170`, `:185` and `:223` compensate
  orders posted without a payment method and expect their payment to be REFUNDED; the
  default is COD (`orders/service.ts:18`), whose refund leaves PAY_ON_DELIVERY.

## 6. What is not modelled

* HTTP validation, formatting, logging, metrics, authentication of service calls,
  migrations and seeds beyond the initial stock: they change no state that the
  saga reads.
* React pages and components other than the stores, caches and derivations named
  above: they render state that is kept elsewhere.
* Database failures other than a rollback or a lost connection; PostgreSQL's
  isolation, locks and unique constraints are taken as documented.
* Money and quantities are not computed with, except for stock, which is an integer
  far from its column's limit.
* Checkout: the draft and its form, a change of account in one tab. Order page: the reads of history,
  payment, reservation and shipment, the length of polling delays; `confirm` is one flag, so there
is no second confirmation from a page that was left and opened again while the first is
pending. Timeline: `lastResult`, texts,
  the list of events. Auth: rate limits per client, audit rows, hashing.
* OrderSystem takes one effect and one true result per message for granted
  rather than composing Messaging with it: the product is out of TLC's reach, and the two sides
  meet in exactly these properties.

## 7. Plan

Done, in this order: SagaContracts, Saga, Orchestrator, Inventory with proofs; Payment,
Messaging, Shipping, Checkout, OrderPage, Auth; Participant and Participants, implemented
by the three services; OrderSystem and OrderTimeline; HttpSaga; the proofs of all of them that
section 4 lists.

What would add most next:

1. `NeverRollsBack` as a theorem, for any number of versions.
2. The rate limits of Auth and the answers its customers get.
