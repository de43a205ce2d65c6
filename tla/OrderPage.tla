----------------------------- MODULE OrderPage -----------------------------
(***************************************************************************)
(* The page of one order (apps/web/src): a cached snapshot of the order,   *)
(* polling, manual refresh, resume and confirmation, and answers that come *)
(* in another order than the snapshots in them were taken.  The cache is   *)
(* RTK Query's: one read at a time, and an invalidation waits until no     *)
(* read and no mutation is pending.                                        *)
(*                                                                         *)
(* The order itself moves on by the saga (module Orchestrator), which      *)
(* counts a version at every change.                                       *)
(***************************************************************************)
EXTENDS Naturals

CONSTANTS
  MaxVersion   \* bound of the model: versions of the order

ASSUME ConstantsAssumption == MaxVersion \in Nat \ {0}

VARIABLES
  order,    \* the order as the service has it
  page,     \* whether it is open, and the cache entry that it shows
  read,     \* the GET that is pending
  resume,   \* the POST .../resume that is pending
  confirm   \* whether a POST .../confirm-payment is pending

vars == <<order, page, read, resume, confirm>>

-----------------------------------------------------------------------------
(* Orders, snapshots, requests.                                            *)

Follows ==
  [PENDING_PAYMENT |-> {"IN_PROGRESS"},
   IN_PROGRESS |-> {"IN_PROGRESS", "COMPENSATING", "COMPLETED", "FAILED"},
   COMPENSATING |-> {"COMPENSATING", "FAILED"}, COMPLETED |-> {}, FAILED |-> {}]

Terminal(o) == o.status \in {"COMPLETED", "FAILED"}

NoOrder == [version |-> 0, status |-> "none", intervention |-> FALSE]
Known(o) == o.version # 0

NoRequest == [stage |-> "none", state |-> NoOrder]
Sent == [stage |-> "sent", state |-> NoOrder]
Pending(request) == request.stage # "none"
Answered(request) == request.stage = "answered"

Init ==
  /\ \E status \in {"PENDING_PAYMENT", "IN_PROGRESS"} :
       order = [version |-> 1, status |-> status, intervention |-> FALSE]
  /\ page = [open |-> FALSE, shown |-> NoOrder, error |-> "none", invalid |-> FALSE]
  /\ read = NoRequest
  /\ resume = NoRequest
  /\ confirm = FALSE

-----------------------------------------------------------------------------
(* The service.                                                            *)

Changes(status, intervention) ==
  /\ order.version < MaxVersion
  /\ order' = [version |-> order.version + 1, status |-> status, intervention |-> intervention]

Advance ==
  /\ ~order.intervention
  /\ \E status \in Follows[order.status] : Changes(status, FALSE)
  /\ UNCHANGED <<page, read, resume, confirm>>

Escalate ==
  /\ order.status \in {"IN_PROGRESS", "COMPENSATING"}
  /\ ~order.intervention
  /\ Changes(order.status, TRUE)
  /\ UNCHANGED <<page, read, resume, confirm>>

(* By another page, or by a request whose answer this one gave up.          *)
ResumeElsewhere ==
  /\ order.intervention
  /\ Changes(order.status, FALSE)
  /\ UNCHANGED <<page, read, resume, confirm>>

-----------------------------------------------------------------------------
(* Reading.                                                                *)

(* Mutant: a read that failed is not followed by another.                   *)
PollsUnlessFailed ==
  /\ page.error = "none"
  /\ Known(page.shown)
  /\ ~Terminal(page.shown)
  /\ ~page.shown.intervention

(* pollingDelay() is not null.                                              *)
Polls ==
  /\ ~(Known(page.shown) /\ (Terminal(page.shown) \/ page.shown.intervention))
  /\ \/ page.error = "temporary"
     \/ page.error = "none" /\ Known(page.shown)

StartRead ==
  /\ page.open
  /\ ~Pending(read)
  /\ read' = Sent
  /\ UNCHANGED <<order, resume, confirm>>

Poll == Polls /\ StartRead /\ UNCHANGED page

Refresh == StartRead /\ UNCHANGED page

(* What a mutation invalidated is read again once nothing is pending.       *)
Recheck ==
  /\ page.invalid
  /\ ~Pending(resume) /\ ~confirm
  /\ StartRead
  /\ page' = [page EXCEPT !.invalid = FALSE]

ServeRead ==
  /\ read.stage = "sent"
  /\ read' = [stage |-> "answered", state |-> order]
  /\ UNCHANGED <<order, page, resume, confirm>>

(* Mutant: what arrives last is shown.                                      *)
Replace(current, incoming) == incoming

Merge(current, incoming) == IF incoming.version < current.version THEN current ELSE incoming

ReadArrives ==
  /\ Answered(read)
  /\ page' = [page EXCEPT !.shown = Merge(@, read.state), !.error = "none"]
  /\ read' = NoRequest
  /\ UNCHANGED <<order, resume, confirm>>

(* The snapshot that is shown stays; only a temporary error is retried.     *)
ReadFails ==
  /\ Pending(read)
  /\ \E error \in {"temporary", "permanent"} : page' = [page EXCEPT !.error = error]
  /\ read' = NoRequest
  /\ UNCHANGED <<order, resume, confirm>>

Open ==
  /\ ~page.open
  /\ \E shown \in {page.shown, NoOrder} :
       page' = [open |-> TRUE, shown |-> shown, error |-> "none", invalid |-> FALSE]
  /\ read' = Sent
  /\ UNCHANGED <<order, resume, confirm>>

(* Leaving aborts the pending read; mutations go on.                        *)
Leave ==
  /\ page.open
  /\ page' = [page EXCEPT !.open = FALSE]
  /\ read' = NoRequest
  /\ UNCHANGED <<order, resume, confirm>>

-----------------------------------------------------------------------------
(* Mutations.                                                              *)

(* Mutant: only an answer has the order read again.                         *)
ResumeGivenUp ==
  /\ Pending(resume)
  /\ resume' = NoRequest
  /\ UNCHANGED <<order, page, read, confirm>>

(* A cache entry that no page uses is removed instead of read again.        *)
Invalidated(shown) ==
  IF page.open THEN [page EXCEPT !.shown = shown, !.invalid = TRUE]
               ELSE [page EXCEPT !.shown = NoOrder]

(* The page shows its buttons.                                              *)
Operable == page.open /\ page.error = "none" /\ Known(page.shown)

Resume ==
  /\ Operable
  /\ ~Terminal(page.shown)
  /\ ~Pending(read) /\ ~Pending(resume)
  /\ resume' = Sent
  /\ UNCHANGED <<order, page, read, confirm>>

(* run() sends again what an operator has to look at, or what has no answer *)
(* to wait for; it throws at an order that waits for its payment.           *)
RunResume ==
  /\ resume.stage = "sent"
  /\ order.status # "PENDING_PAYMENT"
  /\ \/ ~Terminal(order) /\ Changes(order.status, FALSE)
     \/ ~order.intervention /\ UNCHANGED order
  /\ resume' = [resume EXCEPT !.stage = "ran"]
  /\ UNCHANGED <<page, read, confirm>>

ServeResume ==
  /\ resume.stage = "ran"
  /\ resume' = [stage |-> "answered", state |-> order]
  /\ UNCHANGED <<order, page, read, confirm>>

ResumeArrives ==
  /\ Answered(resume)
  /\ page' = Invalidated(IF Known(page.shown) /\ resume.state.version >= page.shown.version
                         THEN resume.state ELSE page.shown)
  /\ resume' = NoRequest
  /\ UNCHANGED <<order, read, confirm>>

ResumeFails ==
  /\ Pending(resume)
  /\ page' = Invalidated(page.shown)
  /\ resume' = NoRequest
  /\ UNCHANGED <<order, read, confirm>>

Confirm ==
  /\ Operable
  /\ page.shown.status = "PENDING_PAYMENT"
  /\ ~confirm
  /\ confirm' = TRUE
  /\ UNCHANGED <<order, page, read, resume>>

(* The page waits for the answer only to read the order again.              *)
ConfirmEnds ==
  /\ confirm
  /\ \/ order.status = "PENDING_PAYMENT" /\ Changes("IN_PROGRESS", FALSE)
     \/ UNCHANGED order
  /\ page' = Invalidated(page.shown)
  /\ confirm' = FALSE
  /\ UNCHANGED <<read, resume>>

Next ==
  \/ Advance \/ Escalate \/ ResumeElsewhere
  \/ Poll \/ Refresh \/ Recheck \/ ServeRead \/ ReadArrives \/ ReadFails
  \/ Open \/ Leave
  \/ Resume \/ RunResume \/ ServeResume \/ ResumeArrives \/ ResumeFails
  \/ Confirm \/ ConfirmEnds

Spec == Init /\ [][Next]_vars

(* The timer fires, requests are served and end one way or another, what is *)
(* invalidated is read again; reads do not fail for ever.                   *)
FairSpec ==
  /\ Spec
  /\ WF_vars(Poll)
  /\ WF_vars(ServeRead)
  /\ WF_vars(ReadArrives)
  /\ SF_vars(Recheck)
  /\ WF_vars(ResumeArrives \/ ResumeFails)
  /\ WF_vars(ConfirmEnds)
  /\ <>[][~ReadFails]_vars

-----------------------------------------------------------------------------
(* Properties.                                                             *)

(* What the page shows is never older than what it showed before, although  *)
(* a read that was pending when a resume was answered arrives after it.     *)
NeverRollsBack ==
  [][Known(page.shown) /\ Known(page.shown') => page.shown'.version >= page.shown.version]_vars

(* An open page comes to show how its order ended, unless it shows why it   *)
(* stopped polling: an operator is asked, or an error that no retry mends.  *)
(* One who resumed the order from this page need not ask again, although    *)
(* the answer may be lost and the snapshot that is shown ends the polling,  *)
(* unless the page shows that it failed to read the order after that.       *)
ShowsEnding ==
  /\ page.open /\ Terminal(order) ~>
       \/ Terminal(page.shown) \/ page.shown.intervention
       \/ page.error = "permanent" \/ ~page.open
  /\ Pending(resume) /\ Terminal(order) ~>
       Terminal(page.shown) \/ page.error # "none" \/ ~page.open
=============================================================================
