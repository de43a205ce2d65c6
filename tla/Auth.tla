-------------------------------- MODULE Auth --------------------------------
(***************************************************************************)
(* The authentication service (services/auth-service): the account of one  *)
(* email address, its sessions and the links mailed to it, while requests  *)
(* about it run at once.  Steps are statements or what is committed with   *)
(* one; a row lock is a guard, and what a transaction writes is seen when  *)
(* it commits.                                                             *)
(***************************************************************************)
EXTENDS Naturals, FiniteSets

CONSTANTS
  Requests,    \* bound of the model: requests, each sent once
  Passwords,
  Subjects,    \* Google accounts with this email address
  Limit,       \* failed logins in a row that lock the account
  None

ASSUME ConstantsAssumption ==
  /\ Limit \in Nat \ {0}
  /\ None \notin Requests \cup Passwords \cup Subjects

VARIABLES
  account,    \* the row of users, or NoAccount
  sessions,   \* the rows of sessions
  links,      \* the verification or reset token that a request issued
  request     \* what each request does

vars == <<account, sessions, links, request>>

-----------------------------------------------------------------------------
(* Rows and requests.                                                      *)

NoAccount == [exists |-> FALSE, password |-> None, subject |-> None,
              failed |-> 0, locked |-> FALSE, verified |-> FALSE]

(* A password nobody knows stands for the one generated for a Google user.  *)
NewAccount(password, subject) ==
  [NoAccount EXCEPT !.exists = TRUE, !.password = password, !.subject = subject,
                    !.verified = subject # None]

Session(r, by, password) == [maker |-> r, by |-> by, password |-> password]

NoLink == [state |-> "none", purpose |-> "none", mailed |-> FALSE]
NewLink(purpose) == [state |-> "live", purpose |-> purpose, mailed |-> FALSE]

Unsent == [phase |-> "unsent", kind |-> "none", value |-> None, link |-> None, seen |-> NoAccount]
Done == [Unsent EXCEPT !.phase = "done"]

InPhase(r, kind, phase) == request[r].kind = kind /\ request[r].phase = phase

Moves(r, phase) == request' = [request EXCEPT ![r].phase = phase]
Ends(r) == request' = [request EXCEPT ![r] = Done]

Init ==
  /\ account \in {NoAccount} \cup {NewAccount(p, None) : p \in Passwords}
  /\ sessions = {}
  /\ links = [r \in Requests |-> NoLink]
  /\ request = [r \in Requests |-> Unsent]

Starts(r, kind, phase, value, link) ==
  /\ request[r] = Unsent
  /\ request' = [request EXCEPT ![r] = [phase |-> phase, kind |-> kind, value |-> value,
                                        link |-> link, seen |-> account]]

-----------------------------------------------------------------------------
(* Row locks.                                                              *)

Selected(r) == InPhase(r, "login", "locked") \/ InPhase(r, "google", "locked")

(* No transaction has the account FOR UPDATE: rows that refer to it may be  *)
(* inserted.                                                                *)
AccountShared == \A r \in Requests : ~Selected(r)

AccountFree == AccountShared /\ \A r \in Requests : ~InPhase(r, "redeem", "updated")

(* Another transaction inserted the account and did not commit.             *)
Inserting == \E r \in Requests : InPhase(r, "google", "inserted")

LinkFree(l) ==
  \A r \in Requests : request[r].link = l =>
    ~InPhase(r, "redeem", "selected") /\ ~InPhase(r, "redeem", "updated")

-----------------------------------------------------------------------------
(* Registration and mailed links.                                          *)

Register(r) ==
  /\ ~account.exists /\ ~Inserting
  /\ \E p \in Passwords :
       /\ Starts(r, "register", "delete", p, None)
       /\ account' = NewAccount(p, None)
  /\ UNCHANGED <<sessions, links>>

RequestReset(r) ==
  /\ account.exists
  /\ Starts(r, "reset", "delete", None, None)
  /\ UNCHANGED <<account, sessions, links>>

Issues(r, phase) == InPhase(r, "register", phase) \/ InPhase(r, "reset", phase)

Purpose(r) == IF request[r].kind = "register" THEN "verify" ELSE "reset"

Replaceable(r) ==
  {l \in Requests : links[l].state \in {"live", "expired"} /\ links[l].purpose = Purpose(r)}

DeleteLinks(r) ==
  /\ Issues(r, "delete")
  /\ \A l \in Replaceable(r) : LinkFree(l)
  /\ links' = [l \in Requests |-> IF l \in Replaceable(r) THEN NoLink ELSE links[l]]
  /\ Moves(r, "insert")
  /\ UNCHANGED <<account, sessions>>

InsertLink(r) ==
  /\ Issues(r, "insert")
  /\ AccountShared
  /\ links' = [links EXCEPT ![r] = NewLink(Purpose(r))]
  /\ Moves(r, "mail")
  /\ UNCHANGED <<account, sessions>>

(* The link may have been replaced by now.                                  *)
MailLink(r) ==
  /\ Issues(r, "mail")
  /\ links' = [links EXCEPT ![r].mailed = TRUE]
  /\ IF request[r].kind = "register" THEN Moves(r, "session") ELSE Ends(r)
  /\ UNCHANGED <<account, sessions>>

FirstSession(r) ==
  /\ InPhase(r, "register", "session")
  /\ AccountShared
  /\ sessions' = sessions \cup {Session(r, "register", request[r].value)}
  /\ Ends(r)
  /\ UNCHANGED <<account, links>>

-----------------------------------------------------------------------------
(* Signing in with the password.                                           *)

(* Mutant: the account is read without FOR UPDATE.                          *)
LoginRead(r) ==
  /\ account.exists
  /\ \E p \in Passwords : Starts(r, "login", "locked", p, None)
  /\ UNCHANGED <<account, sessions, links>>

LoginLock(r) == AccountFree /\ LoginRead(r)

Valid(r) == ~request[r].seen.locked /\ request[r].value = request[r].seen.password

LoginFails(r) ==
  LET attempts == request[r].seen.failed + 1 IN
  /\ InPhase(r, "login", "locked")
  /\ ~Valid(r)
  /\ account' = IF request[r].seen.locked THEN account
                ELSE [account EXCEPT !.failed = attempts, !.locked = attempts >= Limit]
  /\ Ends(r)
  /\ UNCHANGED <<sessions, links>>

LoginSucceeds(r) ==
  /\ InPhase(r, "login", "locked")
  /\ Valid(r)
  /\ account' = [account EXCEPT !.failed = 0, !.locked = FALSE]
  /\ sessions' = {Session(r, "password", request[r].value)}
  /\ Ends(r)
  /\ UNCHANGED links

-----------------------------------------------------------------------------
(* Signing in with Google.                                                 *)

GoogleBySubject(r) ==
  /\ \E s \in Subjects :
       IF account.exists /\ account.subject = s
       THEN AccountFree /\ Starts(r, "google", "locked", s, None)
       ELSE Starts(r, "google", "unknown", s, None)
  /\ UNCHANGED <<account, sessions, links>>

(* Mutant: the account is read by its email without FOR UPDATE.             *)
GoogleReadsEmail(r) ==
  /\ InPhase(r, "google", "unknown")
  /\ IF ~account.exists THEN Moves(r, "new")
     ELSE IF account.subject \in {None, request[r].value} THEN Moves(r, "locked")
     ELSE Ends(r)
  /\ UNCHANGED <<account, sessions, links>>

GoogleByEmail(r) == (account.exists => AccountFree) /\ GoogleReadsEmail(r)

GoogleInserts(r) ==
  /\ InPhase(r, "google", "new")
  /\ ~account.exists /\ ~Inserting
  /\ Moves(r, "inserted")
  /\ UNCHANGED <<account, sessions, links>>

GoogleCommits(r) ==
  /\ \/ /\ InPhase(r, "google", "locked")
        /\ account' = IF request[r].seen.subject = request[r].value THEN account
                      ELSE [account EXCEPT !.subject = request[r].value, !.verified = TRUE]
     \/ /\ InPhase(r, "google", "inserted")
        /\ account' = NewAccount(None, request[r].value)
  /\ sessions' = {Session(r, "google", None)}
  /\ Ends(r)
  /\ UNCHANGED links

-----------------------------------------------------------------------------
(* Using a link: to verify the address, or to choose a new password.       *)

Live(l) == links[l].state = "live" /\ links[l].mailed

(* Mutant: the link is read without FOR UPDATE.                             *)
ReadLink(r) ==
  /\ \E l \in Requests, p \in Passwords : Live(l) /\ Starts(r, "redeem", "selected", p, l)
  /\ UNCHANGED <<account, sessions, links>>

LockLink(r) ==
  /\ \E l \in Requests, p \in Passwords :
       Live(l) /\ LinkFree(l) /\ Starts(r, "redeem", "selected", p, l)
  /\ UNCHANGED <<account, sessions, links>>

UpdateAccount(r) ==
  /\ InPhase(r, "redeem", "selected")
  /\ AccountFree
  /\ Moves(r, "updated")
  /\ UNCHANGED <<account, sessions, links>>

Uses(r, purpose) ==
  LET l == request[r].link IN
  /\ InPhase(r, "redeem", "updated")
  /\ links[l].purpose = purpose
  /\ links' = [links EXCEPT ![l].state = "used"]
  /\ Ends(r)

Verify(r) ==
  /\ Uses(r, "verify")
  /\ account' = [account EXCEPT !.verified = TRUE]
  /\ UNCHANGED sessions

ResetPassword(r) ==
  /\ Uses(r, "reset")
  /\ account' = [account EXCEPT !.password = request[r].value, !.failed = 0, !.locked = FALSE]
  /\ sessions' = {}

-----------------------------------------------------------------------------
(* Refusals, failures and time.                                            *)

(* A request ends where a statement, the mail or the process fails, or is   *)
(* refused: its transaction is rolled back, what it committed before stays. *)
Fail(r) ==
  /\ request[r].phase \notin {"unsent", "done"}
  /\ Ends(r)
  /\ UNCHANGED <<account, sessions, links>>

(* Logout, or a session that has expired.                                   *)
EndSession ==
  /\ \E x \in sessions : sessions' = sessions \ {x}
  /\ UNCHANGED <<account, links, request>>

Unlock ==
  /\ account.locked
  /\ account' = [account EXCEPT !.locked = FALSE]
  /\ UNCHANGED <<sessions, links, request>>

ExpireLink ==
  /\ \E l \in Requests :
       links[l].state = "live" /\ links' = [links EXCEPT ![l].state = "expired"]
  /\ UNCHANGED <<account, sessions, request>>

Cleanup ==
  LET Old(l) == links[l].state \in {"expired", "used"} IN
  /\ \A l \in Requests : links[l].state = "expired" => LinkFree(l)
  /\ \E kept \in SUBSET {l \in Requests : links[l].state = "used"} :
       links' = [l \in Requests |-> IF Old(l) /\ l \notin kept THEN NoLink ELSE links[l]]
  /\ UNCHANGED <<account, sessions, request>>

Next ==
  \/ \E r \in Requests :
       \/ Register(r) \/ RequestReset(r)
       \/ DeleteLinks(r) \/ InsertLink(r) \/ MailLink(r) \/ FirstSession(r)
       \/ LoginLock(r) \/ LoginFails(r) \/ LoginSucceeds(r)
       \/ GoogleBySubject(r) \/ GoogleByEmail(r) \/ GoogleInserts(r) \/ GoogleCommits(r)
       \/ LockLink(r) \/ UpdateAccount(r) \/ Verify(r) \/ ResetPassword(r)
       \/ Fail(r)
  \/ EndSession \/ Unlock \/ ExpireLink \/ Cleanup

Spec == Init /\ [][Next]_vars

-----------------------------------------------------------------------------
(* Properties.                                                             *)

(* A session that a password opened was opened with the account's password  *)
(* of now: a login that read the account before a reset of the password     *)
(* leaves no session behind it.                                             *)
SessionsFollowPassword ==
  \A x \in sessions : x.by = "password" => x.password = account.password

(* A password is replaced with a link that was not used before, however     *)
(* many requests redeem the same link at once.                              *)
LinksWorkOnce ==
  [][account.exists /\ account'.password # account.password
       => \E l \in Requests : links[l].state # "used" /\ links'[l].state = "used"]_vars

(* An account that is linked to a Google account stays linked to it, also   *)
(* when two of them claim the address at once.                              *)
GoogleLinkStays ==
  [][account.subject # None => account'.subject = account.subject]_vars
=============================================================================
