----------------------------- MODULE AuthProofs -----------------------------
(***************************************************************************)
(* Accounts, sessions and links stay in step, for any number of requests   *)
(* at once, of passwords and of Google accounts.  All of it rests on who   *)
(* holds which row lock: one request at a time has the account, a request  *)
(* that signs in goes by the account as it is, and a link that is being    *)
(* redeemed is redeemed by one request and was not used before.            *)
(***************************************************************************)
EXTENDS Auth, TLAPS

Account ==
  [exists : BOOLEAN, password : Passwords \cup {None}, subject : Subjects \cup {None},
   failed : Nat, locked : BOOLEAN, verified : BOOLEAN]

Link ==
  [state : {"none", "live", "expired", "used"}, purpose : {"none", "verify", "reset"},
   mailed : BOOLEAN]

Request ==
  [phase : {"unsent", "done", "delete", "insert", "mail", "session", "locked", "unknown",
            "new", "inserted", "selected", "updated"},
   kind : {"none", "register", "reset", "login", "google", "redeem"},
   value : Passwords \cup Subjects \cup {None}, link : Requests \cup {None}, seen : Account]

TypeOK ==
  /\ account \in Account
  /\ sessions \subseteq [maker : Requests, by : {"register", "password", "google"},
                         password : Passwords \cup Subjects \cup {None}]
  /\ links \in [Requests -> Link]
  /\ request \in [Requests -> Request]

(* Values are passwords or Google accounts, as the request calls for.       *)
ValuesOK ==
  \A r \in Requests :
    /\ request[r].kind \in {"register", "login", "redeem"} => request[r].value \in Passwords
    /\ request[r].kind = "google" => request[r].value \in Subjects

-----------------------------------------------------------------------------
(* Who holds the rows.                                                     *)

HoldsAccount(r) == Selected(r) \/ InPhase(r, "redeem", "updated")

HoldsLink(r) == InPhase(r, "redeem", "selected") \/ InPhase(r, "redeem", "updated")

Inserts(r) == InPhase(r, "google", "inserted")

AccountHeldOnce ==
  \A r, s \in Requests : HoldsAccount(r) /\ HoldsAccount(s) => r = s

InsertedOnce ==
  /\ \A r, s \in Requests : Inserts(r) /\ Inserts(s) => r = s
  /\ \A r \in Requests : Inserts(r) => ~account.exists

(* An account that does not exist is linked to nothing and nobody has it.   *)
AccountTrue ==
  /\ ~account.exists => account.subject = None
  /\ \A r \in Requests : Selected(r) => account.exists

(* What a request has read of a row it has locked is still so.              *)
SeenTrue ==
  \A r \in Requests :
    /\ InPhase(r, "login", "locked") => request[r].seen.password = account.password
    /\ InPhase(r, "google", "locked") => account.subject \in {None, request[r].value}

SessionsTrue ==
  \A x \in sessions : x.by = "password" => account.exists /\ x.password = account.password

LinksTrue ==
  /\ \A r \in Requests :
       HoldsLink(r) => request[r].link \in Requests /\ links[request[r].link].state # "used"
  /\ \A r, s \in Requests :
       HoldsLink(r) /\ HoldsLink(s) /\ request[r].link = request[s].link => r = s

IInv ==
  /\ TypeOK /\ ValuesOK
  /\ AccountHeldOnce /\ InsertedOnce /\ AccountTrue /\ SeenTrue /\ SessionsTrue
  /\ LinksTrue

-----------------------------------------------------------------------------
(* What becomes of requests and of the account.                            *)

Phases == {"unsent", "done", "delete", "insert", "mail", "session", "locked", "unknown",
           "new", "inserted", "selected", "updated"}

Kinds == {"none", "register", "reset", "login", "google", "redeem"}

LEMMA NoAccountType == NoAccount \in Account
  BY DEF NoAccount, Account

LEMMA NewAccountFacts ==
  ASSUME NEW password \in Passwords \cup {None}, NEW subject \in Subjects \cup {None}
  PROVE  /\ NewAccount(password, subject) \in Account
         /\ NewAccount(password, subject).exists
         /\ NewAccount(password, subject).password = password
         /\ NewAccount(password, subject).subject = subject
  BY DEF NewAccount, NoAccount, Account

LEMMA DoneType ==
  /\ Done \in Request
  /\ Done.phase = "done" /\ Done.kind = "none" /\ Done.value = None /\ Done.link = None
  BY NoAccountType DEF Done, Unsent, Request

LEMMA MovesFacts ==
  ASSUME TypeOK, NEW r \in Requests, NEW phase \in Phases, Moves(r, phase)
  PROVE  /\ request' \in [Requests -> Request]
         /\ \A s \in Requests : s # r => request'[s] = request[s]
         /\ request'[r].phase = phase /\ request'[r].kind = request[r].kind
         /\ request'[r].value = request[r].value /\ request'[r].link = request[r].link
         /\ request'[r].seen = request[r].seen
  BY DEF TypeOK, Moves, Request, Phases

LEMMA EndsFacts ==
  ASSUME TypeOK, NEW r \in Requests, Ends(r)
  PROVE  /\ request' \in [Requests -> Request]
         /\ \A s \in Requests : s # r => request'[s] = request[s]
         /\ request'[r].phase = "done" /\ request'[r].kind = "none"
  BY DoneType DEF TypeOK, Ends

LEMMA StartsFacts ==
  ASSUME TypeOK, NEW r \in Requests, NEW kind \in Kinds, NEW phase \in Phases,
         NEW value \in Passwords \cup Subjects \cup {None}, NEW link \in Requests \cup {None},
         Starts(r, kind, phase, value, link)
  PROVE  /\ request' \in [Requests -> Request]
         /\ \A s \in Requests : s # r => request'[s] = request[s]
         /\ request'[r].phase = phase /\ request'[r].kind = kind
         /\ request'[r].value = value /\ request'[r].link = link
         /\ request'[r].seen = account
  <1>1. account \in Account /\ request \in [Requests -> Request]
    BY DEF TypeOK
  <1>2. [phase |-> phase, kind |-> kind, value |-> value, link |-> link, seen |-> account]
          \in Request
    BY <1>1 DEF Request, Phases, Kinds
  <1> QED
    BY <1>1, <1>2 DEF Starts

(* A request that holds nothing afterwards disturbs nobody, unless it makes *)
(* the account another one.                                                 *)
SameAccount ==
  /\ account' \in Account
  /\ account'.exists = account.exists /\ account'.password = account.password
  /\ account'.subject = account.subject

OthersStay(r) ==
  /\ request' \in [Requests -> Request]
  /\ \A s \in Requests : s # r => request'[s] = request[s]

Lets(r) == OthersStay(r) /\ ~HoldsAccount(r)' /\ ~HoldsLink(r)' /\ ~Inserts(r)'

LEMMA QuietStep ==
  ASSUME IInv, NEW r \in Requests, Lets(r), SameAccount
  PROVE  /\ AccountHeldOnce' /\ InsertedOnce' /\ AccountTrue' /\ SeenTrue'
         /\ \A s \in Requests : HoldsLink(s)' => s # r /\ HoldsLink(s) /\ request'[s] = request[s]
  <1>1. AccountHeldOnce'
    BY DEF IInv, AccountHeldOnce, HoldsAccount, Selected, InPhase, Lets, OthersStay
  <1>2. InsertedOnce'
    BY DEF IInv, InsertedOnce, Inserts, InPhase, Lets, OthersStay, SameAccount
  <1>3. AccountTrue' /\ SeenTrue'
    BY DEF IInv, AccountTrue, SeenTrue, HoldsAccount, Selected, InPhase, Lets, OthersStay,
           SameAccount
  <1>4. \A s \in Requests : HoldsLink(s)' => s # r /\ HoldsLink(s) /\ request'[s] = request[s]
    BY DEF HoldsLink, InPhase, Lets, OthersStay
  <1> QED
    BY <1>1, <1>2, <1>3, <1>4

LEMMA EndsLets ==
  ASSUME IInv, NEW r \in Requests, Ends(r)
  PROVE  /\ Lets(r)
         /\ request'[r].kind = "none"
  BY EndsFacts DEF IInv, Lets, OthersStay, HoldsAccount, HoldsLink, Inserts, Selected, InPhase

LEMMA MovesLets ==
  ASSUME IInv, NEW r \in Requests, NEW phase \in {"insert", "mail", "session", "new"},
         Moves(r, phase)
  PROVE  /\ Lets(r)
         /\ request'[r].kind = request[r].kind /\ request'[r].value = request[r].value
  <1>1. phase \in Phases
    BY DEF Phases
  <1> QED
    BY <1>1, MovesFacts
       DEF IInv, Lets, OthersStay, HoldsAccount, HoldsLink, Inserts, Selected, InPhase

(* A link changes that nobody redeems, or it does not become a used one.    *)
LEMMA LinksStayTrue ==
  ASSUME IInv, NEW r \in Requests, Lets(r), SameAccount,
         \A l \in Requests : links'[l].state = "used" =>
           \/ links[l].state = "used"
           \/ HoldsLink(r) /\ request[r].link = l
  PROVE  LinksTrue'
  <1>1. \A s \in Requests : HoldsLink(s)' => s # r /\ HoldsLink(s) /\ request'[s] = request[s]
    BY QuietStep
  <1> QED
    BY <1>1 DEF IInv, LinksTrue

-----------------------------------------------------------------------------
(* One lemma for each action.                                              *)

LEMMA RegisterPreserves ==
  ASSUME IInv, NEW r \in Requests, Register(r)
  PROVE  IInv'
  <1>1. PICK p \in Passwords :
          /\ Starts(r, "register", "delete", p, None)
          /\ account' = NewAccount(p, None)
    BY DEF Register
  <1>2. /\ ~account.exists /\ ~Inserting
        /\ sessions' = sessions /\ links' = links
    BY DEF Register
  <1>3. /\ account' \in Account /\ account'.exists
        /\ account'.password = p /\ account'.subject = None
    BY <1>1, NewAccountFacts
  <1>4. /\ request' \in [Requests -> Request]
        /\ \A s \in Requests : s # r => request'[s] = request[s]
        /\ request'[r].phase = "delete" /\ request'[r].kind = "register"
        /\ request'[r].value = p
    BY <1>1, StartsFacts DEF IInv, Phases, Kinds
  <1>5. TypeOK' /\ ValuesOK'
    BY <1>2, <1>3, <1>4 DEF IInv, TypeOK, ValuesOK
  <1>6. AccountHeldOnce'
    BY <1>4 DEF IInv, AccountHeldOnce, HoldsAccount, Selected, InPhase
  <1>7. InsertedOnce'
    BY <1>2, <1>4 DEF IInv, InsertedOnce, Inserts, Inserting, InPhase
  <1>8. AccountTrue' /\ SeenTrue'
    BY <1>2, <1>3, <1>4 DEF IInv, AccountTrue, SeenTrue, Selected, InPhase
  <1>9. SessionsTrue'
    BY <1>2 DEF IInv, SessionsTrue
  <1>10. LinksTrue'
    BY <1>2, <1>4 DEF IInv, LinksTrue, HoldsLink, InPhase
  <1> QED
    BY <1>5, <1>6, <1>7, <1>8, <1>9, <1>10 DEF IInv

LEMMA RequestResetPreserves ==
  ASSUME IInv, NEW r \in Requests, RequestReset(r)
  PROVE  IInv'
  <1>1. /\ Starts(r, "reset", "delete", None, None)
        /\ account' = account /\ sessions' = sessions /\ links' = links
    BY DEF RequestReset
  <1>2. /\ OthersStay(r)
        /\ request'[r].phase = "delete" /\ request'[r].kind = "reset"
    BY <1>1, StartsFacts DEF IInv, Phases, Kinds, OthersStay
  <1>3. Lets(r)
    BY <1>2 DEF Lets, HoldsAccount, HoldsLink, Inserts, Selected, InPhase
  <1>4. SameAccount
    BY <1>1 DEF IInv, TypeOK, SameAccount
  <1>5. TypeOK' /\ ValuesOK' /\ SessionsTrue'
    BY <1>1, <1>2 DEF IInv, TypeOK, ValuesOK, SessionsTrue, OthersStay
  <1>6. LinksTrue'
    BY <1>1, <1>3, <1>4, LinksStayTrue
  <1> QED
    BY <1>3, <1>4, <1>5, <1>6, QuietStep DEF IInv

(* The steps that issue a link.                                             *)
LEMMA IssuePreserves ==
  ASSUME IInv, NEW r \in Requests, DeleteLinks(r) \/ InsertLink(r) \/ MailLink(r)
  PROVE  IInv'
  <1>1. account' = account /\ sessions' = sessions
    BY DEF DeleteLinks, InsertLink, MailLink
  <1>2. \/ Ends(r)
        \/ \E phase \in {"insert", "mail", "session"} : Moves(r, phase)
    BY DEF DeleteLinks, InsertLink, MailLink
  <1>3. /\ Lets(r)
        /\ \/ request'[r].kind = "none"
           \/ request'[r].kind = request[r].kind /\ request'[r].value = request[r].value
    BY <1>2, EndsLets, MovesLets
  <1>4. SameAccount
    BY <1>1 DEF IInv, TypeOK, SameAccount
  <1>5. /\ links' \in [Requests -> Link]
        /\ \A l \in Requests : links'[l].state = "used" => links[l].state = "used"
    <2>1. links \in [Requests -> Link] /\ NoLink \in Link /\ NoLink.state = "none"
      BY DEF IInv, TypeOK, Link, NoLink
    <2>2. CASE DeleteLinks(r)
      BY <2>1, <2>2 DEF DeleteLinks
    <2>3. CASE InsertLink(r)
      <3>1. NewLink(Purpose(r)) \in Link /\ NewLink(Purpose(r)).state = "live"
        BY DEF NewLink, Purpose, Link
      <3> QED
        BY <2>1, <2>3, <3>1 DEF InsertLink
    <2>4. CASE MailLink(r)
      BY <2>1, <2>4 DEF MailLink, Link
    <2> QED
      BY <2>2, <2>3, <2>4
  <1>6. TypeOK' /\ ValuesOK' /\ SessionsTrue'
    BY <1>1, <1>3, <1>5 DEF IInv, TypeOK, ValuesOK, SessionsTrue, Lets, OthersStay
  <1>7. LinksTrue'
    BY <1>3, <1>4, <1>5, LinksStayTrue
  <1> QED
    BY <1>3, <1>4, <1>6, <1>7, QuietStep DEF IInv

LEMMA FirstSessionPreserves ==
  ASSUME IInv, NEW r \in Requests, FirstSession(r)
  PROVE  IInv'
  <1>1. /\ sessions' = sessions \cup {Session(r, "register", request[r].value)}
        /\ Ends(r)
        /\ account' = account /\ links' = links
    BY DEF FirstSession
  <1>2. Lets(r) /\ request'[r].kind = "none"
    BY <1>1, EndsLets
  <1>3. SameAccount
    BY <1>1 DEF IInv, TypeOK, SameAccount
  <1>4. request[r].value \in Passwords \cup Subjects \cup {None}
    BY DEF IInv, TypeOK, Request
  <1>5. TypeOK'
    BY <1>1, <1>2, <1>4 DEF IInv, TypeOK, Lets, OthersStay, Session
  <1>6. ValuesOK' /\ SessionsTrue'
    BY <1>1, <1>2 DEF IInv, ValuesOK, SessionsTrue, Lets, OthersStay, Session
  <1>7. LinksTrue'
    BY <1>1, <1>2, <1>3, LinksStayTrue
  <1> QED
    BY <1>2, <1>3, <1>5, <1>6, <1>7, QuietStep DEF IInv

(* A login that is over leaves the account's password as it is.             *)
LEMMA LoginFailsPreserves ==
  ASSUME IInv, NEW r \in Requests, LoginFails(r)
  PROVE  IInv'
  <1>1. Ends(r) /\ sessions' = sessions /\ links' = links
    BY DEF LoginFails
  <1>2. Lets(r) /\ request'[r].kind = "none"
    BY <1>1, EndsLets
  <1>3. SameAccount
    <2>1. account \in Account /\ request[r].seen \in Account
      BY DEF IInv, TypeOK, Request
    <2>2. request[r].seen.failed + 1 \in Nat
          /\ (request[r].seen.failed + 1 >= Limit) \in BOOLEAN
      BY <2>1 DEF Account
    <2> QED
      BY <2>1, <2>2 DEF LoginFails, SameAccount, Account
  <1>4. TypeOK' /\ ValuesOK' /\ SessionsTrue'
    BY <1>1, <1>2, <1>3
       DEF IInv, TypeOK, ValuesOK, SessionsTrue, Lets, OthersStay, SameAccount
  <1>5. LinksTrue'
    BY <1>1, <1>2, <1>3, LinksStayTrue
  <1> QED
    BY <1>2, <1>3, <1>4, <1>5, QuietStep DEF IInv

LEMMA LoginSucceedsPreserves ==
  ASSUME IInv, NEW r \in Requests, LoginSucceeds(r)
  PROVE  IInv'
  <1>1. /\ InPhase(r, "login", "locked") /\ Valid(r)
        /\ account' = [account EXCEPT !.failed = 0, !.locked = FALSE]
        /\ sessions' = {Session(r, "password", request[r].value)}
        /\ Ends(r) /\ links' = links
    BY DEF LoginSucceeds
  <1>2. Lets(r) /\ request'[r].kind = "none"
    BY <1>1, EndsLets
  <1>3. SameAccount
    BY <1>1 DEF IInv, TypeOK, SameAccount, Account
  <1>4. request[r].value \in Passwords /\ request[r].value = account.password /\ account.exists
    BY <1>1 DEF IInv, ValuesOK, SeenTrue, AccountTrue, Selected, InPhase, Valid
  <1>5. TypeOK' /\ ValuesOK'
    BY <1>1, <1>2, <1>3, <1>4
       DEF IInv, TypeOK, ValuesOK, Lets, OthersStay, SameAccount, Session
  <1>6. SessionsTrue'
    BY <1>1, <1>3, <1>4 DEF SessionsTrue, SameAccount, Session
  <1>7. LinksTrue'
    BY <1>1, <1>2, <1>3, LinksStayTrue
  <1> QED
    BY <1>2, <1>3, <1>5, <1>6, <1>7, QuietStep DEF IInv

LEMMA FailPreserves ==
  ASSUME IInv, NEW r \in Requests, Fail(r)
  PROVE  IInv'
  <1>1. Ends(r) /\ account' = account /\ sessions' = sessions /\ links' = links
    BY DEF Fail
  <1>2. Lets(r) /\ request'[r].kind = "none"
    BY <1>1, EndsLets
  <1>3. SameAccount
    BY <1>1 DEF IInv, TypeOK, SameAccount
  <1>4. TypeOK' /\ ValuesOK' /\ SessionsTrue'
    BY <1>1, <1>2 DEF IInv, TypeOK, ValuesOK, SessionsTrue, Lets, OthersStay
  <1>5. LinksTrue'
    BY <1>1, <1>2, <1>3, LinksStayTrue
  <1> QED
    BY <1>2, <1>3, <1>4, <1>5, QuietStep DEF IInv

(* A request takes the account, which nobody else has.                      *)
LEMMA TakesAccount ==
  ASSUME IInv, NEW r \in Requests, AccountFree, account.exists, account' = account,
         sessions' = sessions, links' = links,
         OthersStay(r), InPhase(r, "login", "locked")' \/ InPhase(r, "google", "locked")',
         request'[r].kind = "login" =>
           /\ request'[r].value \in Passwords
           /\ request'[r].seen.password = account.password,
         request'[r].kind = "google" =>
           /\ request'[r].value \in Subjects
           /\ account.subject \in {None, request'[r].value}
  PROVE  IInv'
  <1>1. \A s \in Requests : ~HoldsAccount(s)
    BY DEF AccountFree, AccountShared, HoldsAccount
  <1>2. TypeOK' /\ ValuesOK' /\ SessionsTrue'
    BY DEF IInv, TypeOK, ValuesOK, SessionsTrue, OthersStay, InPhase
  <1>3. AccountHeldOnce'
    BY <1>1 DEF AccountHeldOnce, HoldsAccount, Selected, InPhase, OthersStay
  <1>4. InsertedOnce'
    BY DEF IInv, InsertedOnce, Inserts, InPhase, OthersStay
  <1>5. AccountTrue' /\ SeenTrue'
    BY DEF IInv, AccountTrue, SeenTrue, Selected, InPhase, OthersStay
  <1>6. LinksTrue'
    BY DEF IInv, LinksTrue, HoldsLink, InPhase, OthersStay
  <1> QED
    BY <1>2, <1>3, <1>4, <1>5, <1>6 DEF IInv

LEMMA LoginLockPreserves ==
  ASSUME IInv, NEW r \in Requests, LoginLock(r)
  PROVE  IInv'
  <1>1. PICK p \in Passwords : Starts(r, "login", "locked", p, None)
    BY DEF LoginLock, LoginRead
  <1>2. /\ AccountFree /\ account.exists
        /\ account' = account /\ sessions' = sessions /\ links' = links
    BY DEF LoginLock, LoginRead
  <1>3. /\ OthersStay(r)
        /\ request'[r].phase = "locked" /\ request'[r].kind = "login"
        /\ request'[r].value = p /\ request'[r].seen = account
    BY <1>1, StartsFacts DEF IInv, Phases, Kinds, OthersStay
  <1> QED
    BY <1>2, <1>3, TakesAccount DEF InPhase

LEMMA GoogleBySubjectPreserves ==
  ASSUME IInv, NEW r \in Requests, GoogleBySubject(r)
  PROVE  IInv'
  <1>1. PICK s \in Subjects :
          IF account.exists /\ account.subject = s
          THEN AccountFree /\ Starts(r, "google", "locked", s, None)
          ELSE Starts(r, "google", "unknown", s, None)
    BY DEF GoogleBySubject
  <1>2. account' = account /\ sessions' = sessions /\ links' = links
    BY DEF GoogleBySubject
  <1>3. CASE account.exists /\ account.subject = s
    <2>1. /\ OthersStay(r)
          /\ request'[r].phase = "locked" /\ request'[r].kind = "google"
          /\ request'[r].value = s
      BY <1>1, <1>3, StartsFacts DEF IInv, Phases, Kinds, OthersStay
    <2> QED
      BY <1>1, <1>2, <1>3, <2>1, TakesAccount DEF InPhase
  <1>4. CASE ~(account.exists /\ account.subject = s)
    <2>1. /\ OthersStay(r)
          /\ request'[r].phase = "unknown" /\ request'[r].kind = "google"
          /\ request'[r].value = s
      BY <1>1, <1>4, StartsFacts DEF IInv, Phases, Kinds, OthersStay
    <2>2. Lets(r)
      BY <2>1 DEF Lets, HoldsAccount, HoldsLink, Inserts, Selected, InPhase
    <2>3. SameAccount
      BY <1>2 DEF IInv, TypeOK, SameAccount
    <2>4. TypeOK' /\ ValuesOK' /\ SessionsTrue'
      BY <1>2, <2>1 DEF IInv, TypeOK, ValuesOK, SessionsTrue, OthersStay
    <2>5. LinksTrue'
      BY <1>2, <2>2, <2>3, LinksStayTrue
    <2> QED
      BY <2>2, <2>3, <2>4, <2>5, QuietStep DEF IInv
  <1> QED
    BY <1>3, <1>4

LEMMA GoogleByEmailPreserves ==
  ASSUME IInv, NEW r \in Requests, GoogleByEmail(r)
  PROVE  IInv'
  <1>1. /\ InPhase(r, "google", "unknown")
        /\ account' = account /\ sessions' = sessions /\ links' = links
    BY DEF GoogleByEmail, GoogleReadsEmail
  <1>2. request[r].kind = "google" /\ request[r].value \in Subjects
    BY <1>1 DEF IInv, ValuesOK, InPhase
  <1>3. CASE account.exists /\ account.subject \in {None, request[r].value}
    <2>1. AccountFree /\ Moves(r, "locked")
      BY <1>3 DEF GoogleByEmail, GoogleReadsEmail
    <2>2. /\ OthersStay(r)
          /\ request'[r].phase = "locked" /\ request'[r].kind = "google"
          /\ request'[r].value = request[r].value
      BY <1>2, <2>1, MovesFacts DEF IInv, Phases, OthersStay
    <2> QED
      BY <1>1, <1>2, <1>3, <2>1, <2>2, TakesAccount DEF InPhase
  <1>4. CASE ~(account.exists /\ account.subject \in {None, request[r].value})
    <2>1. Moves(r, "new") \/ Ends(r)
      BY <1>4 DEF GoogleByEmail, GoogleReadsEmail
    <2>2. /\ Lets(r)
          /\ \/ request'[r].kind = "none"
             \/ request'[r].kind = request[r].kind /\ request'[r].value = request[r].value
      BY <2>1, EndsLets, MovesLets
    <2>3. SameAccount
      BY <1>1 DEF IInv, TypeOK, SameAccount
    <2>4. TypeOK' /\ ValuesOK' /\ SessionsTrue'
      BY <1>1, <2>2 DEF IInv, TypeOK, ValuesOK, SessionsTrue, Lets, OthersStay
    <2>5. LinksTrue'
      BY <1>1, <2>2, <2>3, LinksStayTrue
    <2> QED
      BY <2>2, <2>3, <2>4, <2>5, QuietStep DEF IInv
  <1> QED
    BY <1>3, <1>4

LEMMA GoogleInsertsPreserves ==
  ASSUME IInv, NEW r \in Requests, GoogleInserts(r)
  PROVE  IInv'
  <1>1. /\ InPhase(r, "google", "new") /\ ~account.exists /\ ~Inserting
        /\ Moves(r, "inserted")
        /\ account' = account /\ sessions' = sessions /\ links' = links
    BY DEF GoogleInserts
  <1>2. /\ OthersStay(r)
        /\ request'[r].phase = "inserted" /\ request'[r].kind = "google"
        /\ request'[r].value = request[r].value /\ request[r].kind = "google"
    BY <1>1, MovesFacts DEF IInv, Phases, OthersStay, InPhase
  <1>3. TypeOK' /\ ValuesOK' /\ SessionsTrue'
    BY <1>1, <1>2 DEF IInv, TypeOK, ValuesOK, SessionsTrue, OthersStay
  <1>4. AccountHeldOnce'
    BY <1>2 DEF IInv, AccountHeldOnce, HoldsAccount, Selected, InPhase, OthersStay
  <1>5. InsertedOnce'
    BY <1>1, <1>2 DEF InsertedOnce, Inserts, Inserting, InPhase, OthersStay
  <1>6. AccountTrue' /\ SeenTrue'
    BY <1>1, <1>2 DEF IInv, AccountTrue, SeenTrue, Selected, InPhase, OthersStay
  <1>7. LinksTrue'
    BY <1>1, <1>2 DEF IInv, LinksTrue, HoldsLink, InPhase, OthersStay
  <1> QED
    BY <1>3, <1>4, <1>5, <1>6, <1>7 DEF IInv

(* The account is linked, or inserted as one that is.                       *)
LEMMA GoogleCommitsPreserves ==
  ASSUME IInv, NEW r \in Requests, GoogleCommits(r)
  PROVE  IInv'
  <1>1. /\ sessions' = {Session(r, "google", None)}
        /\ Ends(r) /\ links' = links
    BY DEF GoogleCommits
  <1>2. Lets(r) /\ request'[r].kind = "none"
    BY <1>1, EndsLets
  <1>3. request[r].kind = "google" /\ request[r].value \in Subjects
    BY DEF IInv, ValuesOK, GoogleCommits, InPhase
  <1>4. account \in Account
    BY DEF IInv, TypeOK
  <1>5. account'.exists /\ account' \in Account
        /\ \A s \in Requests \ {r} : ~Selected(s) /\ ~Inserts(s)
    <2>1. CASE InPhase(r, "google", "locked")
      <3>1. Selected(r) /\ account.exists
        BY <2>1 DEF IInv, AccountTrue, Selected
      <3>2. account' \in Account /\ account'.exists = account.exists
        BY <1>3, <1>4, <2>1 DEF GoogleCommits, InPhase, Account
      <3>3. \A s \in Requests \ {r} : ~Selected(s)
        BY <3>1 DEF IInv, AccountHeldOnce, HoldsAccount
      <3>4. \A s \in Requests : ~Inserts(s)
        BY <3>1 DEF IInv, InsertedOnce
      <3> QED
        BY <3>1, <3>2, <3>3, <3>4
    <2>2. CASE InPhase(r, "google", "inserted")
      <3>1. Inserts(r) /\ ~account.exists
        BY <2>2 DEF IInv, InsertedOnce, Inserts
      <3>2. account' = NewAccount(None, request[r].value)
        BY <2>2 DEF GoogleCommits, InPhase
      <3>3. account' \in Account /\ account'.exists
        BY <1>3, <3>2, NewAccountFacts
      <3>4. \A s \in Requests : ~Selected(s)
        BY <3>1 DEF IInv, AccountTrue
      <3>5. \A s \in Requests \ {r} : ~Inserts(s)
        BY <3>1 DEF IInv, InsertedOnce
      <3> QED
        BY <3>3, <3>4, <3>5
    <2> QED
      BY <2>1, <2>2 DEF GoogleCommits
  <1>6. TypeOK' /\ ValuesOK'
    BY <1>1, <1>2, <1>5 DEF IInv, TypeOK, ValuesOK, Lets, OthersStay, Session
  <1>7. AccountHeldOnce'
    BY <1>2 DEF IInv, AccountHeldOnce, HoldsAccount, Selected, InPhase, Lets, OthersStay
  <1>8. InsertedOnce'
    BY <1>2, <1>5 DEF InsertedOnce, Inserts, InPhase, Lets, OthersStay
  <1>9. AccountTrue' /\ SeenTrue'
    BY <1>2, <1>5 DEF AccountTrue, SeenTrue, HoldsAccount, Selected, InPhase, Lets, OthersStay
  <1>10. SessionsTrue'
    BY <1>1 DEF SessionsTrue, Session
  <1>11. LinksTrue'
    BY <1>1, <1>2 DEF IInv, LinksTrue, HoldsLink, InPhase, Lets, OthersStay
  <1> QED
    BY <1>6, <1>7, <1>8, <1>9, <1>10, <1>11 DEF IInv

LEMMA LockLinkPreserves ==
  ASSUME IInv, NEW r \in Requests, LockLink(r)
  PROVE  IInv'
  <1>1. PICK l \in Requests, p \in Passwords :
          Live(l) /\ LinkFree(l) /\ Starts(r, "redeem", "selected", p, l)
    BY DEF LockLink
  <1>2. account' = account /\ sessions' = sessions /\ links' = links
    BY DEF LockLink
  <1>3. /\ OthersStay(r)
        /\ request'[r].phase = "selected" /\ request'[r].kind = "redeem"
        /\ request'[r].value = p /\ request'[r].link = l
    BY <1>1, StartsFacts DEF IInv, Phases, Kinds, OthersStay
  <1>4. TypeOK' /\ ValuesOK' /\ SessionsTrue'
    BY <1>2, <1>3 DEF IInv, TypeOK, ValuesOK, SessionsTrue, OthersStay
  <1>5. AccountHeldOnce'
    BY <1>3 DEF IInv, AccountHeldOnce, HoldsAccount, Selected, InPhase, OthersStay
  <1>6. InsertedOnce'
    BY <1>2, <1>3 DEF IInv, InsertedOnce, Inserts, InPhase, OthersStay
  <1>7. AccountTrue' /\ SeenTrue'
    BY <1>2, <1>3 DEF IInv, AccountTrue, SeenTrue, Selected, InPhase, OthersStay
  <1>8. LinksTrue'
    <2>1. \A s \in Requests : HoldsLink(s) => request[s].link # l
      BY <1>1 DEF LinkFree, HoldsLink
    <2>2. links[l].state = "live"
      BY <1>1 DEF Live
    <2> QED
      BY <1>2, <1>3, <2>1, <2>2 DEF IInv, LinksTrue, HoldsLink, InPhase, OthersStay
  <1> QED
    BY <1>4, <1>5, <1>6, <1>7, <1>8 DEF IInv

LEMMA UpdateAccountPreserves ==
  ASSUME IInv, NEW r \in Requests, UpdateAccount(r)
  PROVE  IInv'
  <1>1. /\ InPhase(r, "redeem", "selected") /\ AccountFree /\ Moves(r, "updated")
        /\ account' = account /\ sessions' = sessions /\ links' = links
    BY DEF UpdateAccount
  <1>2. /\ OthersStay(r)
        /\ request'[r].phase = "updated" /\ request'[r].kind = "redeem"
        /\ request'[r].value = request[r].value /\ request'[r].link = request[r].link
        /\ request[r].kind = "redeem"
    BY <1>1, MovesFacts DEF IInv, Phases, OthersStay, InPhase
  <1>3. \A s \in Requests : ~HoldsAccount(s)
    BY <1>1 DEF AccountFree, AccountShared, HoldsAccount
  <1>4. TypeOK' /\ ValuesOK' /\ SessionsTrue'
    BY <1>1, <1>2 DEF IInv, TypeOK, ValuesOK, SessionsTrue, OthersStay
  <1>5. AccountHeldOnce'
    BY <1>2, <1>3 DEF AccountHeldOnce, HoldsAccount, Selected, InPhase, OthersStay
  <1>6. InsertedOnce'
    BY <1>1, <1>2 DEF IInv, InsertedOnce, Inserts, InPhase, OthersStay
  <1>7. AccountTrue' /\ SeenTrue'
    BY <1>1, <1>2 DEF IInv, AccountTrue, SeenTrue, Selected, InPhase, OthersStay
  <1>8. LinksTrue'
    BY <1>1, <1>2 DEF IInv, LinksTrue, HoldsLink, InPhase, OthersStay
  <1> QED
    BY <1>4, <1>5, <1>6, <1>7, <1>8 DEF IInv

LEMMA UsesFacts ==
  ASSUME IInv, NEW r \in Requests, NEW purpose, Uses(r, purpose)
  PROVE  /\ Lets(r) /\ request'[r].kind = "none"
         /\ HoldsAccount(r) /\ HoldsLink(r) /\ request[r].kind = "redeem"
         /\ request[r].link \in Requests /\ links[request[r].link].state # "used"
         /\ links' \in [Requests -> Link]
         /\ links'[request[r].link].state = "used"
         /\ \A l \in Requests \ {request[r].link} : links'[l] = links[l]
  <1>1. /\ InPhase(r, "redeem", "updated")
        /\ links' = [links EXCEPT ![request[r].link].state = "used"]
        /\ Ends(r)
    BY DEF Uses
  <1>2. HoldsAccount(r) /\ HoldsLink(r) /\ request[r].kind = "redeem"
    BY <1>1 DEF HoldsAccount, HoldsLink, InPhase
  <1>3. request[r].link \in Requests /\ links[request[r].link].state # "used"
    BY <1>2 DEF IInv, LinksTrue
  <1>4. links \in [Requests -> Link]
    BY DEF IInv, TypeOK
  <1> QED
    BY <1>1, <1>2, <1>3, <1>4, EndsLets DEF Link

LEMMA VerifyPreserves ==
  ASSUME IInv, NEW r \in Requests, Verify(r)
  PROVE  IInv'
  <1>1. /\ Uses(r, "verify")
        /\ account' = [account EXCEPT !.verified = TRUE]
        /\ sessions' = sessions
    BY DEF Verify
  <1>2. SameAccount
    BY <1>1 DEF IInv, TypeOK, SameAccount, Account
  <1>3. TypeOK' /\ ValuesOK' /\ SessionsTrue'
    BY <1>1, <1>2, UsesFacts
       DEF IInv, TypeOK, ValuesOK, SessionsTrue, Lets, OthersStay, SameAccount
  <1>4. LinksTrue'
    BY <1>1, <1>2, UsesFacts, LinksStayTrue
  <1> QED
    BY <1>1, <1>2, <1>3, <1>4, UsesFacts, QuietStep DEF IInv

(* The password is another one now: no request has the account to sign in,  *)
(* and no session is left.                                                  *)
LEMMA ResetPasswordPreserves ==
  ASSUME IInv, NEW r \in Requests, ResetPassword(r)
  PROVE  IInv'
  <1>1. /\ Uses(r, "reset")
        /\ account' = [account EXCEPT !.password = request[r].value, !.failed = 0,
                                      !.locked = FALSE]
        /\ sessions' = {}
    BY DEF ResetPassword
  <1>2. /\ Lets(r) /\ HoldsAccount(r) /\ HoldsLink(r) /\ request[r].kind = "redeem"
        /\ request'[r].kind = "none"
    BY <1>1, UsesFacts
  <1>3. request[r].value \in Passwords
    BY <1>2 DEF IInv, ValuesOK
  <1>4. /\ account' \in Account
        /\ account'.exists = account.exists /\ account'.subject = account.subject
    BY <1>1, <1>3 DEF IInv, TypeOK, Account
  <1>5. \A s \in Requests \ {r} : ~Selected(s)
    BY <1>2 DEF IInv, AccountHeldOnce, HoldsAccount
  <1>6. TypeOK' /\ ValuesOK'
    BY <1>1, <1>2, <1>4, UsesFacts DEF IInv, TypeOK, ValuesOK, Lets, OthersStay
  <1>7. AccountHeldOnce'
    BY <1>2 DEF IInv, AccountHeldOnce, HoldsAccount, Selected, InPhase, Lets, OthersStay
  <1>8. InsertedOnce'
    BY <1>2, <1>4 DEF IInv, InsertedOnce, Inserts, InPhase, Lets, OthersStay
  <1>9. AccountTrue' /\ SeenTrue'
    BY <1>2, <1>4, <1>5
       DEF IInv, AccountTrue, SeenTrue, HoldsAccount, Selected, InPhase, Lets, OthersStay
  <1>10. SessionsTrue'
    BY <1>1 DEF SessionsTrue
  <1>11. LinksTrue'
    <2>1. \A s \in Requests :
            HoldsLink(s)' => s # r /\ HoldsLink(s) /\ request'[s] = request[s]
      BY <1>2 DEF HoldsLink, InPhase, Lets, OthersStay
    <2> QED
      BY <1>1, <1>2, <2>1, UsesFacts DEF IInv, LinksTrue
  <1> QED
    BY <1>6, <1>7, <1>8, <1>9, <1>10, <1>11 DEF IInv

(* Sessions end, the lock of the account passes, links expire and go.       *)
LEMMA TimePreserves ==
  ASSUME IInv, EndSession \/ Unlock \/ ExpireLink \/ Cleanup
  PROVE  IInv'
  <1>1. request' = request /\ sessions' \subseteq sessions /\ SameAccount
    BY DEF IInv, TypeOK, EndSession, Unlock, ExpireLink, Cleanup, SameAccount, Account
  <1>2. /\ links' \in [Requests -> Link]
        /\ \A l \in Requests : links'[l].state = "used" => links[l].state = "used"
    <2>1. links \in [Requests -> Link] /\ NoLink \in Link /\ NoLink.state = "none"
      BY DEF IInv, TypeOK, Link, NoLink
    <2>2. CASE EndSession \/ Unlock
      BY <2>1, <2>2 DEF EndSession, Unlock
    <2>3. CASE ExpireLink
      BY <2>1, <2>3 DEF ExpireLink, Link
    <2>4. CASE Cleanup
      BY <2>1, <2>4 DEF Cleanup
    <2> QED
      BY <2>2, <2>3, <2>4
  <1>3. TypeOK' /\ ValuesOK' /\ SessionsTrue'
    BY <1>1, <1>2 DEF IInv, TypeOK, ValuesOK, SessionsTrue, SameAccount
  <1>4. AccountHeldOnce' /\ InsertedOnce' /\ AccountTrue' /\ SeenTrue'
    BY <1>1 DEF IInv, AccountHeldOnce, InsertedOnce, AccountTrue, SeenTrue, HoldsAccount,
                Inserts, Selected, InPhase, SameAccount
  <1>5. LinksTrue'
    BY <1>1, <1>2 DEF IInv, LinksTrue, HoldsLink, InPhase
  <1> QED
    BY <1>3, <1>4, <1>5 DEF IInv

-----------------------------------------------------------------------------
(* The invariant.                                                          *)

LEMMA InitIInv == Init => IInv
  <1> SUFFICES ASSUME Init PROVE IInv
    OBVIOUS
  <1>1. /\ Unsent \in Request /\ Unsent.phase = "unsent" /\ Unsent.kind = "none"
        /\ NoLink \in Link
    BY NoAccountType DEF Unsent, Request, NoLink, Link
  <1>2. account \in Account /\ account.subject = None
    <2>1. CASE account = NoAccount
      BY <2>1, NoAccountType DEF NoAccount
    <2>2. CASE \E p \in Passwords : account = NewAccount(p, None)
      BY <2>2, NewAccountFacts
    <2> QED
      BY <2>1, <2>2 DEF Init
  <1>3. TypeOK /\ ValuesOK /\ SessionsTrue
    BY <1>1, <1>2 DEF Init, TypeOK, ValuesOK, SessionsTrue
  <1>4. AccountHeldOnce /\ InsertedOnce /\ AccountTrue /\ SeenTrue
    BY <1>1, <1>2 DEF Init, AccountHeldOnce, InsertedOnce, AccountTrue, SeenTrue,
                      HoldsAccount, Inserts, Selected, InPhase
  <1>5. LinksTrue
    BY <1>1 DEF Init, LinksTrue, HoldsLink, InPhase
  <1> QED
    BY <1>3, <1>4, <1>5 DEF IInv

LEMMA NextIInv == IInv /\ [Next]_vars => IInv'
  <1> SUFFICES ASSUME IInv, [Next]_vars PROVE IInv'
    OBVIOUS
  <1>1. CASE UNCHANGED vars
    BY <1>1 DEF vars, IInv, TypeOK, ValuesOK, AccountHeldOnce, InsertedOnce, AccountTrue,
                SeenTrue, SessionsTrue, LinksTrue, HoldsAccount, HoldsLink, Inserts, Selected,
                InPhase
  <1>2. CASE EndSession \/ Unlock \/ ExpireLink \/ Cleanup
    BY <1>2, TimePreserves
  <1>3. ASSUME NEW r \in Requests,
               \/ Register(r) \/ RequestReset(r)
               \/ DeleteLinks(r) \/ InsertLink(r) \/ MailLink(r) \/ FirstSession(r)
        PROVE  IInv'
    BY <1>3, RegisterPreserves, RequestResetPreserves, IssuePreserves, FirstSessionPreserves
  <1>4. ASSUME NEW r \in Requests,
               \/ LoginLock(r) \/ LoginFails(r) \/ LoginSucceeds(r)
               \/ GoogleBySubject(r) \/ GoogleByEmail(r) \/ GoogleInserts(r)
               \/ GoogleCommits(r)
        PROVE  IInv'
    BY <1>4, LoginLockPreserves, LoginFailsPreserves, LoginSucceedsPreserves,
       GoogleBySubjectPreserves, GoogleByEmailPreserves, GoogleInsertsPreserves,
       GoogleCommitsPreserves
  <1>5. ASSUME NEW r \in Requests,
               LockLink(r) \/ UpdateAccount(r) \/ Verify(r) \/ ResetPassword(r) \/ Fail(r)
        PROVE  IInv'
    BY <1>5, LockLinkPreserves, UpdateAccountPreserves, VerifyPreserves,
       ResetPasswordPreserves, FailPreserves
  <1> QED
    BY <1>1, <1>2, <1>3, <1>4, <1>5 DEF Next

(* The rows are well typed, and whoever holds a row goes by it as it is.    *)
THEOREM Invariance == Spec => []IInv
  <1> QED
    BY InitIInv, NextIInv, PTL DEF Spec

-----------------------------------------------------------------------------
(* What follows.                                                           *)

(* No login outlives a reset of the password that it used, however the two  *)
(* requests interleave.                                                     *)
THEOREM SessionsFollow == Spec => []SessionsFollowPassword
  <1>1. IInv => SessionsFollowPassword
    BY DEF IInv, SessionsTrue, SessionsFollowPassword
  <1> QED
    BY <1>1, Invariance, PTL

(* Which steps change what the account is.                                  *)
LEMMA PasswordChanges ==
  ASSUME IInv, [Next]_vars, account.exists, account'.password # account.password
  PROVE  \E r \in Requests : ResetPassword(r)
  <1>1. account \in Account
    BY DEF IInv, TypeOK
  <1>2. /\ ~UNCHANGED vars
        /\ ~(EndSession \/ Unlock \/ ExpireLink \/ Cleanup)
    BY <1>1 DEF vars, EndSession, Unlock, ExpireLink, Cleanup, Account
  <1>3. \A r \in Requests :
          /\ ~Register(r) /\ ~RequestReset(r)
          /\ ~DeleteLinks(r) /\ ~InsertLink(r) /\ ~MailLink(r) /\ ~FirstSession(r)
    BY DEF Register, RequestReset, DeleteLinks, InsertLink, MailLink, FirstSession
  <1>4. \A r \in Requests :
          /\ ~LoginLock(r) /\ ~LoginFails(r) /\ ~LoginSucceeds(r)
          /\ ~GoogleBySubject(r) /\ ~GoogleByEmail(r) /\ ~GoogleInserts(r)
    BY <1>1 DEF LoginLock, LoginRead, LoginFails, LoginSucceeds, GoogleBySubject,
                GoogleByEmail, GoogleReadsEmail, GoogleInserts, Account
  <1>5. \A r \in Requests : ~GoogleCommits(r)
    BY <1>1 DEF IInv, InsertedOnce, Inserts, GoogleCommits, Account
  <1>6. \A r \in Requests :
          ~LockLink(r) /\ ~UpdateAccount(r) /\ ~Verify(r) /\ ~Fail(r)
    BY <1>1 DEF LockLink, UpdateAccount, Verify, Fail, Account
  <1> QED
    BY <1>2, <1>3, <1>4, <1>5, <1>6 DEF Next

(* A password is replaced only with a link that was never used before.      *)
THEOREM LinksAreUsedOnce == Spec => LinksWorkOnce
  <1>1. ASSUME IInv, [Next]_vars
        PROVE  [account.exists /\ account'.password # account.password
                  => \E l \in Requests : links[l].state # "used" /\ links'[l].state = "used"]_vars
    <2> SUFFICES ASSUME account.exists, account'.password # account.password
                 PROVE  \E l \in Requests : links[l].state # "used" /\ links'[l].state = "used"
      OBVIOUS
    <2>1. PICK r \in Requests : ResetPassword(r)
      BY <1>1, PasswordChanges
    <2>2. Uses(r, "reset")
      BY <2>1 DEF ResetPassword
    <2> QED
      BY <1>1, <2>2, UsesFacts
  <1> QED
    BY <1>1, Invariance, PTL DEF Spec, LinksWorkOnce

LEMMA SubjectStays ==
  ASSUME IInv, [Next]_vars, account.subject # None
  PROVE  account'.subject = account.subject
  <1>1. account \in Account /\ account.exists
    BY DEF IInv, TypeOK, AccountTrue
  <1>2. CASE UNCHANGED vars \/ EndSession \/ Unlock \/ ExpireLink \/ Cleanup
    BY <1>1, <1>2 DEF vars, EndSession, Unlock, ExpireLink, Cleanup, Account
  <1>3. ASSUME NEW r \in Requests,
               \/ Register(r) \/ RequestReset(r)
               \/ DeleteLinks(r) \/ InsertLink(r) \/ MailLink(r) \/ FirstSession(r)
        PROVE  account'.subject = account.subject
    BY <1>1, <1>3 DEF Register, RequestReset, DeleteLinks, InsertLink, MailLink, FirstSession
  <1>4. ASSUME NEW r \in Requests,
               \/ LoginLock(r) \/ LoginFails(r) \/ LoginSucceeds(r)
               \/ GoogleBySubject(r) \/ GoogleByEmail(r) \/ GoogleInserts(r)
        PROVE  account'.subject = account.subject
    BY <1>1, <1>4 DEF LoginLock, LoginRead, LoginFails, LoginSucceeds, GoogleBySubject,
                      GoogleByEmail, GoogleReadsEmail, GoogleInserts, Account
  <1>5. ASSUME NEW r \in Requests, GoogleCommits(r)
        PROVE  account'.subject = account.subject
    <2>1. InPhase(r, "google", "locked") /\ account.subject = request[r].value
      BY <1>1, <1>5 DEF IInv, InsertedOnce, SeenTrue, Inserts, GoogleCommits
    <2> QED
      BY <1>1, <1>5, <2>1 DEF GoogleCommits, InPhase, Account
  <1>6. ASSUME NEW r \in Requests,
               LockLink(r) \/ UpdateAccount(r) \/ Verify(r) \/ ResetPassword(r) \/ Fail(r)
        PROVE  account'.subject = account.subject
    BY <1>1, <1>6 DEF LockLink, UpdateAccount, Verify, ResetPassword, Fail, Account
  <1> QED
    BY <1>2, <1>3, <1>4, <1>5, <1>6 DEF Next

(* Two Google accounts never take an account from each other.               *)
THEOREM GoogleLinkIsKept == Spec => GoogleLinkStays
  <1>1. ASSUME IInv, [Next]_vars
        PROVE  [account.subject # None => account'.subject = account.subject]_vars
    BY <1>1, SubjectStays
  <1> QED
    BY <1>1, Invariance, PTL DEF Spec, GoogleLinkStays
=============================================================================
