--------------------------- MODULE HttpSagaProofs ---------------------------
(***************************************************************************)
(* Proofs about the saga over HTTP, for every set of orders and any number *)
(* of connections.  First the lock: a request in hand is the only one that *)
(* writes its order's row.  Then the truth of the rows: what they report   *)
(* rests on what was called and answered.  Last the abstract saga.         *)
(***************************************************************************)
EXTENDS HttpSaga, SagaRows, SequenceTheorems, TLAPS

-----------------------------------------------------------------------------
(* Sequences.                                                              *)

LEMMA AppendOne == ASSUME NEW a, NEW b PROVE Append(<<a>>, b) = <<a, b>>
  <1> DEFINE s == Append(<<a>>, b)
             t == <<a, b>>
  <1>1. s \in Seq({a, b}) /\ t \in Seq({a, b}) /\ Len(s) = 2 /\ Len(t) = 2
    OBVIOUS
  <1>2. s[1] = t[1] /\ s[2] = t[2]
    OBVIOUS
  <1> HIDE DEF s, t
  <1>3. \A i \in 1..Len(s) : s[i] = t[i]
    BY <1>1, <1>2
  <1>4. s = t
    BY <1>1, <1>3, SeqEqual
  <1> QED
    BY <1>4 DEF s, t

LEMMA AppendTwo == ASSUME NEW a, NEW b, NEW c PROVE Append(<<a, b>>, c) = <<a, b, c>>
  <1> DEFINE s == Append(<<a, b>>, c)
             t == <<a, b, c>>
  <1>1. s \in Seq({a, b, c}) /\ t \in Seq({a, b, c}) /\ Len(s) = 3 /\ Len(t) = 3
    OBVIOUS
  <1>2. s[1] = t[1] /\ s[2] = t[2] /\ s[3] = t[3]
    OBVIOUS
  <1> HIDE DEF s, t
  <1>3. \A i \in 1..Len(s) : s[i] = t[i]
    BY <1>1, <1>2
  <1>4. s = t
    BY <1>1, <1>3, SeqEqual
  <1> QED
    BY <1>4 DEF s, t

LEMMA PrefixGrows ==
  ASSUME NEW S, NEW u \in Seq(S), NEW k \in Nat, k < Len(u)
  PROVE  /\ Append(SubSeq(u, 1, k), u[k + 1]) = SubSeq(u, 1, k + 1)
         /\ Len(SubSeq(u, 1, k + 1)) = k + 1
         /\ u[k + 1] \in S
  <1> DEFINE p == SubSeq(u, 1, k)
             q == SubSeq(u, 1, k + 1)
             a == Append(p, u[k + 1])
  <1>1. \A i \in 1..Len(u) : u[i] \in S
    BY ElementOfSeq
  <1>2. p \in Seq(S) /\ Len(p) = k /\ \A i \in 1..k : p[i] = u[i]
    <2>1. \A i \in 1..k : u[i] \in S
      BY <1>1, LenProperties
    <2>2. k \in Int /\ 1 \in Int
      OBVIOUS
    <2> QED
      BY <2>1, <2>2, SubSeqProperties
  <1>3. q \in Seq(S) /\ Len(q) = k + 1 /\ \A i \in 1..(k + 1) : q[i] = u[i]
    <2>1. \A i \in 1..(k + 1) : u[i] \in S
      BY <1>1, LenProperties
    <2>2. k + 1 \in Int /\ 1 \in Int
      OBVIOUS
    <2> QED
      BY <2>1, <2>2, SubSeqProperties
  <1>4. u[k + 1] \in S
    BY <1>1, LenProperties
  <1> HIDE DEF p, q
  <1>5. a \in Seq(S) /\ Len(a) = k + 1 /\ \A i \in 1..(k + 1) : a[i] = q[i]
    BY <1>2, <1>3, <1>4
  <1> HIDE DEF a
  <1>6. a = q
    BY <1>3, <1>5, SeqEqual
  <1> QED
    BY <1>3, <1>4, <1>6 DEF a, p, q

LEMMA ShorterPrefix ==
  ASSUME NEW c \in Seq(StepNames), NEW j \in 1..Len(c)
  PROVE  /\ Len(SubSeq(c, 1, j)) = j
         /\ SubSeq(SubSeq(c, 1, j), 1, j - 1) = SubSeq(c, 1, j - 1)
  <1>1. \A i \in 1..Len(c) : c[i] \in StepNames
    BY ElementOfSeq
  <1>2. SubSeq(c, 1, j) \in Seq(StepNames) /\ Len(SubSeq(c, 1, j)) = j
    BY <1>1, SubSeqProperties
  <1>3. CASE j = 1
    BY <1>2, <1>3, SubSeqEmpty
  <1>4. CASE j > 1
    BY <1>2, <1>4, SubSeqOfSubSeq
  <1> QED
    BY <1>2, <1>3, <1>4

LEMMA LongerAllTrue ==
  ASSUME NEW S, NEW u \in Seq(S), NEW x \in S, NEW Good, x \in Good,
         \A i \in DOMAIN u : u[i] \in Good
  PROVE  \A i \in DOMAIN Append(u, x) : Append(u, x)[i] \in Good
  <1>1. /\ DOMAIN Append(u, x) = 1..(Len(u) + 1) /\ DOMAIN u = 1..Len(u)
        /\ Append(u, x)[Len(u) + 1] = x
        /\ \A i \in 1..Len(u) : Append(u, x)[i] = u[i]
        /\ Len(u) \in Nat
    BY LenProperties, AppendProperties
  <1>2. \A i \in 1..(Len(u) + 1) : i \in 1..Len(u) \/ i = Len(u) + 1
    BY <1>1
  <1> QED
    BY <1>1, <1>2

-----------------------------------------------------------------------------
(* The tables.                                                             *)

LEMMA Tables ==
  ASSUME NEW operation \in ForwardOperations
  PROVE  /\ CompletedBefore[operation] \in Seq(StepNames)
         /\ UndoAfter[operation] \in Seq(StepNames)
         /\ StepFor[operation] \in StepNames
         /\ operation # "FINALIZE_INVENTORY" =>
              /\ Successor[operation] \in ForwardOperations
              /\ Append(CompletedBefore[operation], StepFor[operation])
                   = CompletedBefore[Successor[operation]]
         /\ (CompletedBefore[operation] = <<>>) <=> (operation = "CHARGE_PAYMENT")
         /\ (UndoAfter[operation] # <<>>) <=>
              (operation \in {"RESERVE_INVENTORY", "CREATE_SHIPMENT"})
  <1> USE DEF CompletedBefore, UndoAfter, StepFor, Successor, Steps, StepNames,
              ForwardOperations
  <1>1. CASE operation = "CHARGE_PAYMENT"
    BY <1>1
  <1>2. CASE operation = "RESERVE_INVENTORY"
    BY <1>2, AppendOne
  <1>3. CASE operation = "CREATE_SHIPMENT"
    BY <1>3, AppendTwo
  <1>4. CASE operation = "FINALIZE_INVENTORY"
    BY <1>4
  <1> QED
    BY <1>1, <1>2, <1>3, <1>4

LEMMA ReverseIsOperation ==
  ASSUME NEW step \in StepNames
  PROVE  ReverseOperation[step] \in CompensatingOperations
  BY DEF StepNames, ReverseOperation, CompensatingOperations

LEMMA ForwardTables ==
  ASSUME NEW operation \in ForwardOperations
  PROVE  /\ (CompletedBefore[operation] = Steps) <=> (operation = "FINALIZE_INVENTORY")
         /\ operation # "FINALIZE_INVENTORY" =>
              Steps[Len(CompletedBefore[operation]) + 1] = StepFor[operation]
         /\ Len(UndoAfter[operation]) <= Len(CompletedBefore[operation])
         /\ UndoAfter[operation] # <<>> =>
              Len(UndoAfter[operation]) = Len(CompletedBefore[operation])
  <1> USE DEF CompletedBefore, UndoAfter, StepFor, Steps, ForwardOperations
  <1>1. CASE operation = "CHARGE_PAYMENT"
    BY <1>1
  <1>2. CASE operation = "RESERVE_INVENTORY"
    BY <1>2
  <1>3. CASE operation = "CREATE_SHIPMENT"
    BY <1>3
  <1>4. CASE operation = "FINALIZE_INVENTORY"
    BY <1>4
  <1> QED
    BY <1>1, <1>2, <1>3, <1>4

LEMMA HeldForward ==
  ASSUME NEW s, s.completedSteps \in Seq(StepNames), s.compensatedSteps = <<>>
  PROVE  Held(s) = s.completedSteps
  <1>1. Len(<<>>) = 0
    OBVIOUS
  <1>2. Len(s.completedSteps) - 0 = Len(s.completedSteps)
    OBVIOUS
  <1> QED
    BY <1>1, <1>2, SubSeqFull DEF Held

-----------------------------------------------------------------------------
(* Rows and participants.                                                  *)

LEMMA StepVocabulary ==
  ASSUME NEW step \in StepNames
  PROVE  /\ Owner(ReverseOperation[step]) = ServiceOf[step]
         /\ ReverseOperation[step] \in CompensatingOperations
         /\ ServiceOf[step] \in Services
  BY DEF StepNames, Owner, ReverseOperation, ServiceOf, CompensatingOperations, Services

LEMMA UpToTable ==
  ASSUME NEW operation \in ForwardOperations
  PROVE  /\ operation \in UpTo[operation]
         /\ UpTo[operation] \subseteq ForwardOperations
         /\ operation # "FINALIZE_INVENTORY" =>
              UpTo[operation] \subseteq UpTo[Successor[operation]]
  <1> USE DEF UpTo, Successor, ForwardOperations
  <1>1. CASE operation = "CHARGE_PAYMENT"
    BY <1>1
  <1>2. CASE operation = "RESERVE_INVENTORY"
    BY <1>2
  <1>3. CASE operation = "CREATE_SHIPMENT"
    BY <1>3
  <1>4. CASE operation = "FINALIZE_INVENTORY"
    BY <1>4
  <1> QED
    BY <1>1, <1>2, <1>3, <1>4

(* An operation, its participant and its step.                              *)
LEMMA OwnerTable ==
  ASSUME NEW operation \in Operations
  PROVE  /\ Owner(operation) \in Services
         /\ operation \in CompensatingOperations => operation = UndoFor[Owner(operation)]
         /\ operation \in ForwardOperations \ {"FINALIZE_INVENTORY"} =>
              /\ operation = DoFor[Owner(operation)]
              /\ Owner(operation) = ServiceOf[StepFor[operation]]
         /\ operation = "FINALIZE_INVENTORY" => Owner(operation) = "inventory"
  BY DEF Operations, ForwardOperations, CompensatingOperations, Owner, UndoFor, DoFor, StepFor,
         ServiceOf, Services

LEMMA NextIsOperation ==
  ASSUME NEW s, ProgressTyped(s), NextOperation(s) # None
  PROVE  /\ NextOperation(s) \in Operations
         /\ s.status = "COMPENSATING" =>
              /\ NextUndo(s) \in StepNames
              /\ NextOperation(s) = ReverseOperation[NextUndo(s)]
  <1>1. CASE s.status # "COMPENSATING"
    BY <1>1 DEF NextOperation, Operations, ProgressTyped
  <1>2. CASE s.status = "COMPENSATING"
    <2>1. ~Undone(s) /\ NextOperation(s) = ReverseOperation[NextUndo(s)]
      BY <1>2 DEF NextOperation
    <2>2. UndoAfter[s.currentOperation] \in Seq(StepNames)
      BY Tables DEF ProgressTyped
    <2>3. /\ Len(s.compensatedSteps) \in Nat
          /\ Len(s.compensatedSteps) < Len(UndoAfter[s.currentOperation])
      BY <2>1, <2>2 DEF Undone, ProgressTyped
    <2>4. NextUndo(s) \in StepNames
      BY <2>2, <2>3, PrefixGrows DEF NextUndo
    <2> QED
      BY <2>1, <2>4, ReverseIsOperation DEF Operations
  <1> QED
    BY <1>1, <1>2

(* A row whose next command has been sent.                                  *)
LEMMA SentRowTrue ==
  ASSUME NEW s, ProgressTyped(s), s.status \in Active, NextOperation(s) # None,
         NEW sent, NEW said, RowTrue(s, sent, said),
         NEW t, t.status = s.status, t.currentOperation = s.currentOperation,
         t.completedSteps = s.completedSteps, t.compensatedSteps = s.compensatedSteps
  PROVE  RowTrue(t, sent \cup {NextOperation(s)}, said)
  <1>1. CASE s.status = "IN_PROGRESS"
    BY <1>1, UpToTable DEF RowTrue, NextOperation, ProgressTyped
  <1>2. CASE s.status = "COMPENSATING"
    <2>1. NextOperation(s) \notin ForwardOperations
      BY <1>2, NextIsOperation, StepVocabulary DEF CompensatingOperations, ForwardOperations
    <2> QED
      BY <1>2, <2>1 DEF RowTrue
  <1> QED
    BY <1>1, <1>2 DEF Active

(* What rests on what was told still does when more has been told.          *)
LEMMA RowStaysTrue ==
  ASSUME NEW s, ProgressTyped(s), NEW sent, NEW said, NEW more, RowTrue(s, sent, said),
         \A service \in Services : said[service] \subseteq more[service]
  PROVE  RowTrue(s, sent, more)
  <1>1. Owner(s.currentOperation) \in Services /\ "inventory" \in Services
    BY OwnerTable DEF ProgressTyped, Operations, Services
  <1>2. /\ \A i \in DOMAIN s.completedSteps : ServiceOf[s.completedSteps[i]] \in Services
        /\ \A i \in DOMAIN s.compensatedSteps : ServiceOf[s.compensatedSteps[i]] \in Services
    BY StepVocabulary, ElementOfSeq DEF ProgressTyped
  <1> QED
    BY <1>1, <1>2 DEF RowTrue

LEMMA HoldsNothing ==
  ASSUME NEW service \in Services, NEW far, NEW said, NEW sent,
         ServiceTrue(service, far, said, sent),
         "REFUSED" \in said \/ "UNDONE" \in said \/ DoFor[service] \notin sent
  PROVE  far \in {"none", "void", "undone"}
  BY DEF ServiceTrue, Effects

(* A COMPLETED order's step is in effect at each participant.               *)
LEMMA CompletedHoldsAll ==
  ASSUME NEW s, NEW sent, NEW said, NEW far,
         s.status = "COMPLETED", s.completedSteps = Steps,
         s.currentOperation \in ForwardOperations,
         RowTrue(s, sent, said),
         \A service \in Services : ServiceTrue(service, far[service], said[service], sent)
  PROVE  far["payment"] = "done" /\ far["inventory"] = "final" /\ far["shipping"] = "done"
  <1>1. \A i \in DOMAIN Steps : "DONE" \in said[ServiceOf[Steps[i]]]
    BY DEF RowTrue
  <1>2. /\ 1 \in DOMAIN Steps /\ Steps[1] = "PAYMENT"
        /\ 3 \in DOMAIN Steps /\ Steps[3] = "SHIPPING"
    BY DEF Steps
  <1>3. /\ "DONE" \in said["payment"] /\ "DONE" \in said["shipping"]
        /\ "FINAL" \in said["inventory"]
    BY <1>1, <1>2 DEF RowTrue, ServiceOf
  <1>4. sent \subseteq ForwardOperations
    BY UpToTable DEF RowTrue
  <1>5. \A service \in Services : UndoFor[service] \notin sent
    BY <1>4 DEF Services, UndoFor, ForwardOperations
  <1>6. /\ "payment" \in Services /\ "inventory" \in Services
        /\ "shipping" \in Services
    BY DEF Services
  <1> QED
    BY <1>3, <1>5, <1>6 DEF ServiceTrue

(* A FAILED order holds nothing at any participant: its step was refused,   *)
(* undone, or never asked for.                                              *)
LEMMA FailedHoldsNone ==
  ASSUME NEW s, NEW sent, NEW said, NEW far,
         s.status = "FAILED",
         s.currentOperation \in ForwardOperations \ {"FINALIZE_INVENTORY"},
         s.compensatedSteps = UndoAfter[s.currentOperation],
         RowTrue(s, sent, said),
         \A service \in Services : ServiceTrue(service, far[service], said[service], sent)
  PROVE  \A service \in Services : far[service] \in {"none", "void", "undone"}
  <1> SUFFICES ASSUME NEW service \in Services
               PROVE  far[service] \in {"none", "void", "undone"}
    OBVIOUS
  <1> DEFINE cur == s.currentOperation
  <1>1. /\ sent \cap ForwardOperations \subseteq UpTo[cur]
        /\ "REFUSED" \in said[Owner(cur)]
        /\ \A i \in DOMAIN UndoAfter[cur] : "UNDONE" \in said[ServiceOf[UndoAfter[cur][i]]]
    BY DEF RowTrue
  <1>2. cur \in ForwardOperations \ {"FINALIZE_INVENTORY"}
    OBVIOUS
  <1>3. ServiceTrue(service, far[service], said[service], sent)
    OBVIOUS
  <1> HIDE DEF cur
  <1>4. service \in {"payment", "inventory", "shipping"}
    BY DEF Services
  <1>5. CASE cur = "CHARGE_PAYMENT"
    <2>1. service = "payment" => "REFUSED" \in said[service]
      BY <1>1, <1>5 DEF Owner
    <2>2. service # "payment" => DoFor[service] \notin sent
      BY <1>1, <1>4, <1>5 DEF DoFor, UpTo, ForwardOperations
    <2> QED
      BY <1>3, <2>1, <2>2, HoldsNothing
  <1>6. CASE cur = "RESERVE_INVENTORY"
    <2>1. service = "payment" => "UNDONE" \in said[service]
      <3>1. 1 \in DOMAIN UndoAfter[cur] /\ UndoAfter[cur][1] = "PAYMENT"
        BY <1>6 DEF UndoAfter
      <3> QED
        BY <1>1, <3>1 DEF ServiceOf
    <2>2. service = "inventory" => "REFUSED" \in said[service]
      BY <1>1, <1>6 DEF Owner
    <2>3. service = "shipping" => DoFor[service] \notin sent
      BY <1>1, <1>6 DEF DoFor, UpTo, ForwardOperations
    <2> QED
      BY <1>3, <1>4, <2>1, <2>2, <2>3, HoldsNothing
  <1>7. CASE cur = "CREATE_SHIPMENT"
    <2>1. /\ 1 \in DOMAIN UndoAfter[cur] /\ UndoAfter[cur][1] = "INVENTORY"
          /\ 2 \in DOMAIN UndoAfter[cur] /\ UndoAfter[cur][2] = "PAYMENT"
      BY <1>7 DEF UndoAfter
    <2>2. service \in {"payment", "inventory"} => "UNDONE" \in said[service]
      BY <1>1, <2>1 DEF ServiceOf
    <2>3. service = "shipping" => "REFUSED" \in said[service]
      BY <1>1, <1>7 DEF Owner
    <2> QED
      BY <1>3, <1>4, <2>2, <2>3, HoldsNothing
  <1> QED
    BY <1>2, <1>5, <1>6, <1>7 DEF ForwardOperations

-----------------------------------------------------------------------------
(* Requests, rows and locks.                                               *)

Statuses == {"ABSENT", "PENDING_PAYMENT"} \cup Active \cup Terminal

Row ==
  [status : Statuses,
   currentOperation : ForwardOperations,
   completedSteps : Seq(StepNames),
   compensatedSteps : Seq(StepNames),
   inventoryFinalized : BOOLEAN]

Progress(s) ==
  /\ s.status \in {"ABSENT", "PENDING_PAYMENT"} =>
       s.completedSteps = <<>> /\ s.compensatedSteps = <<>>
  /\ s.status \in Active => Consistent(s)
  /\ s.status = "COMPLETED" => s.completedSteps = Steps /\ s.compensatedSteps = <<>>
  /\ s.status = "FAILED" =>
       /\ s.currentOperation # "FINALIZE_INVENTORY"
       /\ s.completedSteps = CompletedBefore[s.currentOperation]
       /\ s.compensatedSteps = UndoAfter[s.currentOperation]

WorkPhases == {"deciding", "calling", "answered"}

(* A request that works on an order: what it goes by is the row as it is.   *)
GoesBy(r, s) ==
  r.phase \in WorkPhases =>
    /\ r.row = s
    /\ s.status \in Active
    /\ r.phase # "deciding" => NextOperation(s) # None
    /\ r.phase = "answered" /\ r.outcome = "REJECTED" =>
         NextOperation(s) \in P!Rejectable

(* A request in hand holds its order's lock.                                *)
Exclusive(c) ==
  request[c] # Idle =>
    /\ request[c].order \in Orders
    /\ lock[request[c].order] = c
    /\ saga[request[c].order].status # "ABSENT"
    /\ GoesBy(request[c], saga[request[c].order])

LockInv ==
  /\ saga \in [Orders -> Row]
  /\ request = [c \in Connections |-> request[c]]
  /\ lock = [o \in Orders |-> lock[o]]
  /\ stale = {}
  /\ \A o \in Orders : Progress(saga[o])
  /\ \A c \in Connections : Exclusive(c)

-----------------------------------------------------------------------------
(* Requests.                                                               *)

LEMMA NewRowFacts ==
  ASSUME NEW status \in {"ABSENT", "PENDING_PAYMENT", "IN_PROGRESS"}
  PROVE  /\ NewRow(status) \in Row /\ Progress(NewRow(status))
         /\ NewRow(status).status = status
         /\ NewRow(status).completedSteps = <<>> /\ NewRow(status).compensatedSteps = <<>>
         /\ NewRow(status).currentOperation = "CHARGE_PAYMENT"
  BY DEF NewRow, Row, Statuses, Active, Terminal, ForwardOperations, Progress, Consistent,
         ConsistentForward, CompletedBefore

LEMMA InitLockInv == Init => LockInv
  BY NewRowFacts DEF Init, LockInv, Exclusive

(* A request that moves on, keeping its order and its lock.                 *)
LEMMA MoveKeepsLocks ==
  ASSUME LockInv, NEW c \in Connections, request[c] # Idle, UNCHANGED <<saga, lock, stale>>,
         NEW r, request' = [request EXCEPT ![c] = r], r.order = request[c].order,
         GoesBy(r, saga[r.order])
  PROVE  LockInv'
  <1>1. request' = [d \in Connections |-> request'[d]]
    BY DEF LockInv
  <1>2. request'[c] = r /\ \A d \in Connections \ {c} : request'[d] = request[d]
    BY DEF LockInv
  <1>3. ASSUME NEW d \in Connections PROVE Exclusive(d)'
    BY <1>2 DEF LockInv, Exclusive
  <1> QED
    BY <1>1, <1>3 DEF LockInv

LEMMA WorkingFacts ==
  ASSUME LockInv, NEW c \in Connections, request[c].phase \in WorkPhases
  PROVE  /\ request[c] # Idle /\ request[c].order \in Orders
         /\ lock[request[c].order] = c
         /\ request[c].row = saga[request[c].order]
         /\ request[c].row \in Row /\ Progress(request[c].row)
         /\ request[c].row.status \in Active
         /\ Consistent(request[c].row)
         /\ request[c].row.currentOperation \in ForwardOperations
  <1>1. request[c] # Idle
    BY DEF WorkPhases, Idle
  <1>2. /\ request[c].order \in Orders
        /\ lock[request[c].order] = c
        /\ request[c].row = saga[request[c].order]
        /\ request[c].row.status \in Active
    BY <1>1 DEF LockInv, Exclusive, GoesBy
  <1>3. request[c].row \in Row /\ Progress(request[c].row)
    BY <1>2 DEF LockInv
  <1> QED
    BY <1>1, <1>2, <1>3 DEF Progress, Row

(* A request that writes its row: no other one goes by it.                  *)
LEMMA WriteKeepsLocks ==
  ASSUME LockInv, NEW c \in Connections, request[c].phase \in WorkPhases, UNCHANGED lock,
         NEW row \in Row, Progress(row), row.status # "ABSENT", Write(c, row),
         NEW r, request' = [request EXCEPT ![c] = r], r.order = request[c].order,
         GoesBy(r, row)
  PROVE  /\ LockInv'
         /\ saga' = [saga EXCEPT ![request[c].order] = row]
  <1> DEFINE o == request[c].order
  <1>1. request' = [d \in Connections |-> request'[d]]
    BY DEF LockInv
  <1>2. request'[c] = r /\ \A d \in Connections \ {c} : request'[d] = request[d]
    BY DEF LockInv
  <1>3. /\ o \in Orders /\ lock[o] = c
        /\ saga' = [saga EXCEPT ![o] = row]
        /\ stale' = stale \cup {d \in Connections \ {c} : Working(d) /\ request[d].order = o}
    BY WorkingFacts DEF Write
  <1>4. \A d \in Connections \ {c} : request[d] # Idle => request[d].order # o
    BY <1>3 DEF LockInv, Exclusive
  <1>5. \A d \in Connections : Working(d) => request[d] # Idle
    BY DEF Working, Idle
  <1>6. stale' = {}
    BY <1>3, <1>4, <1>5 DEF LockInv
  <1>7. /\ saga' \in [Orders -> Row] /\ saga'[o] = row
        /\ \A p \in Orders \ {o} : saga'[p] = saga[p]
    BY <1>3 DEF LockInv
  <1>8. ASSUME NEW d \in Connections PROVE Exclusive(d)'
    <2>1. CASE d = c
      BY <1>2, <1>3, <1>7, <2>1 DEF Exclusive
    <2>2. CASE d # c
      <3>1. request[d] # Idle => request[d].order \in Orders \ {o}
        BY <1>4, <2>2 DEF LockInv, Exclusive
      <3> QED
        BY <1>2, <1>7, <2>2, <3>1 DEF LockInv, Exclusive
    <2> QED
      BY <2>1, <2>2
  <1>9. \A p \in Orders : Progress(saga'[p])
    BY <1>7 DEF LockInv
  <1> QED
    BY <1>1, <1>3, <1>6, <1>7, <1>8, <1>9 DEF LockInv

LEMMA UnlockKeepsLocks ==
  ASSUME LockInv, NEW c \in Connections, Unlock(c)
  PROVE  LockInv'
  <1>1. /\ request'[c] = Idle /\ \A d \in Connections \ {c} : request'[d] = request[d]
        /\ request' = [d \in Connections |-> request'[d]]
        /\ lock' = [o \in Orders |-> lock'[o]]
        /\ \A o \in Orders : lock[o] # c => lock'[o] = lock[o]
        /\ saga' = saga /\ stale' = {}
    BY DEF LockInv, Unlock
  <1>2. ASSUME NEW d \in Connections PROVE Exclusive(d)'
    BY <1>1 DEF LockInv, Exclusive
  <1> QED
    BY <1>1, <1>2 DEF LockInv

LEMMA AcceptKeepsLocks ==
  ASSUME LockInv, NEW o \in Orders, Accept(o)
  PROVE  LockInv'
  <1>1. PICK status \in {"PENDING_PAYMENT", "IN_PROGRESS"} :
          saga' = [saga EXCEPT ![o] = NewRow(status)]
    BY DEF Accept
  <1>2. /\ saga' \in [Orders -> Row]
        /\ \A p \in Orders : Progress(saga'[p])
        /\ \A p \in Orders : saga[p].status # "ABSENT" => saga'[p] = saga[p]
    BY <1>1, NewRowFacts DEF Accept, LockInv
  <1>3. request' = request /\ lock' = lock /\ stale' = stale
    BY DEF Accept
  <1>4. ASSUME NEW c \in Connections PROVE Exclusive(c)'
    BY <1>2, <1>3 DEF LockInv, Exclusive
  <1> QED
    BY <1>2, <1>3, <1>4 DEF LockInv

LEMMA TakeLockKeepsLocks ==
  ASSUME LockInv, NEW c \in Connections, NEW o \in Orders, TakeLock(c, o)
  PROVE  LockInv'
  <1> USE ConnectionsAssumption
  <1>1. /\ request[c] = Idle /\ saga[o].status # "ABSENT" /\ lock[o] \in {None, c}
        /\ lock' = [lock EXCEPT ![o] = c]
        /\ request' = [request EXCEPT ![c] = Locking(o)]
        /\ saga' = saga /\ stale' = stale
    BY DEF TakeLock, LockFree
  <1>2. /\ lock' = [p \in Orders |-> lock'[p]] /\ lock'[o] = c
        /\ \A p \in Orders \ {o} : lock'[p] = lock[p]
        /\ request' = [d \in Connections |-> request'[d]]
        /\ request'[c] = Locking(o)
        /\ \A d \in Connections \ {c} : request'[d] = request[d]
    BY <1>1 DEF LockInv
  <1>3. ASSUME NEW d \in Connections PROVE Exclusive(d)'
    <2>1. CASE d = c
      BY <1>1, <1>2, <2>1 DEF Exclusive, Locking, GoesBy, WorkPhases
    <2>2. CASE d # c
      <3>1. request[d] # Idle => request[d].order \in Orders \ {o}
        BY <1>1, <2>2 DEF LockInv, Exclusive
      <3> QED
        BY <1>1, <1>2, <2>2, <3>1 DEF LockInv, Exclusive
    <2> QED
      BY <2>1, <2>2
  <1> QED
    BY <1>1, <1>2, <1>3 DEF LockInv

LEMMA ReadKeepsLocks ==
  ASSUME LockInv, NEW c \in Connections, Read(c)
  PROVE  LockInv'
  <1> DEFINE o == request[c].order
  <1>1. request[c] # Idle /\ UNCHANGED <<saga, lock, stale>>
    BY DEF Read, InPhase, Idle
  <1>2. CASE saga[o].status \in Active
    <2>1. request' = [request EXCEPT ![c] = Serving(o, saga[o])]
      BY <1>2 DEF Read
    <2>2. GoesBy(Serving(o, saga[o]), saga[o]) /\ Serving(o, saga[o]).order = o
      BY <1>2 DEF GoesBy, Serving
    <2> QED
      BY <1>1, <2>1, <2>2, MoveKeepsLocks
  <1>3. CASE saga[o].status \notin Active
    <2>1. request' = [request EXCEPT ![c] = Leaving(o)]
      BY <1>3 DEF Read
    <2>2. GoesBy(Leaving(o), saga[o]) /\ Leaving(o).order = o
      BY DEF GoesBy, Leaving, WorkPhases
    <2> QED
      BY <1>1, <2>1, <2>2, MoveKeepsLocks
  <1> QED
    BY <1>2, <1>3

-----------------------------------------------------------------------------
(* What a request may go by, phase by phase.                               *)

LEMMA GoesByPhases ==
  ASSUME NEW o, NEW row, row.status \in Active
  PROVE  /\ GoesBy(Leaving(o), row) /\ Leaving(o).order = o
         /\ GoesBy(Serving(o, row), row) /\ Serving(o, row).order = o
         /\ NextOperation(row) # None =>
              GoesBy(Calling(o, row), row) /\ Calling(o, row).order = o
         /\ \A outcome :
              NextOperation(row) # None
              /\ (outcome = "REJECTED" => NextOperation(row) \in P!Rejectable) =>
                GoesBy(Answered(o, row, outcome), row) /\ Answered(o, row, outcome).order = o
  BY DEF GoesBy, Leaving, Serving, Calling, Answered, WorkPhases

LEMMA LeavingGoesBy ==
  ASSUME NEW o, NEW row
  PROVE  GoesBy(Leaving(o), row) /\ Leaving(o).order = o
  BY DEF GoesBy, Leaving, WorkPhases

(* A call that is under way, or answered, is for an operation.              *)
LEMMA CallFacts ==
  ASSUME LockInv, NEW c \in Connections, request[c].phase \in {"calling", "answered"}
  PROVE  /\ request[c].phase \in WorkPhases
         /\ NextOperation(request[c].row) # None
         /\ request[c].phase = "answered" /\ request[c].outcome = "REJECTED" =>
              NextOperation(request[c].row) \in P!Rejectable
  <1>1. request[c] # Idle /\ request[c].phase \in WorkPhases
    BY DEF Idle, WorkPhases
  <1> QED
    BY <1>1 DEF LockInv, Exclusive, GoesBy

-----------------------------------------------------------------------------
(* The rows a request writes.                                              *)

LEMMA ForwardRow ==
  ASSUME NEW row \in Row, row.status = "IN_PROGRESS", Consistent(row)
  PROVE  /\ NextOperation(row) = row.currentOperation
         /\ row.currentOperation \in ForwardOperations
         /\ ~row.inventoryFinalized /\ row.compensatedSteps = <<>>
         /\ row.completedSteps = CompletedBefore[row.currentOperation]
  BY DEF Row, Consistent, ConsistentForward, NextOperation

LEMMA AdvancedRow ==
  ASSUME NEW row \in Row, row.status = "IN_PROGRESS", Consistent(row),
         row.currentOperation # "FINALIZE_INVENTORY",
         NEW t, t = [row EXCEPT !.completedSteps = Append(@, StepFor[row.currentOperation]),
                                !.currentOperation = Successor[row.currentOperation]]
  PROVE  /\ t \in Row /\ Progress(t) /\ t.status = "IN_PROGRESS"
         /\ t.completedSteps = Append(row.completedSteps, StepFor[row.currentOperation])
         /\ t.currentOperation = Successor[row.currentOperation]
         /\ t.compensatedSteps = <<>>
  <1>1. /\ row.currentOperation \in ForwardOperations
        /\ ~row.inventoryFinalized /\ row.compensatedSteps = <<>>
        /\ row.completedSteps = CompletedBefore[row.currentOperation]
    BY ForwardRow
  <1>2. /\ StepFor[row.currentOperation] \in StepNames
        /\ Successor[row.currentOperation] \in ForwardOperations
        /\ Append(row.completedSteps, StepFor[row.currentOperation])
             = CompletedBefore[Successor[row.currentOperation]]
    BY <1>1, Tables
  <1>3. Append(row.completedSteps, StepFor[row.currentOperation]) \in Seq(StepNames)
    BY <1>2, Tables
  <1>4. /\ t \in Row /\ t.status = "IN_PROGRESS"
        /\ t.completedSteps = Append(row.completedSteps, StepFor[row.currentOperation])
        /\ t.currentOperation = Successor[row.currentOperation]
        /\ t.compensatedSteps = row.compensatedSteps
        /\ t.inventoryFinalized = row.inventoryFinalized
    BY <1>2, <1>3 DEF Row
  <1>5. Progress(t)
    BY <1>1, <1>2, <1>4 DEF Progress, Active, Terminal, Consistent, ConsistentForward
  <1> QED
    BY <1>1, <1>4, <1>5

LEMMA CompletedRow ==
  ASSUME NEW row \in Row, row.status = "IN_PROGRESS", Consistent(row),
         row.currentOperation = "FINALIZE_INVENTORY",
         NEW t, t = [row EXCEPT !.status = "COMPLETED", !.inventoryFinalized = TRUE]
  PROVE  /\ t \in Row /\ Progress(t) /\ t.status = "COMPLETED"
         /\ t.completedSteps = row.completedSteps
         /\ t.currentOperation = row.currentOperation
         /\ t.compensatedSteps = <<>>
  <1>1. row.compensatedSteps = <<>> /\ row.completedSteps = Steps
    BY ForwardRow DEF CompletedBefore
  <1>2. /\ t \in Row /\ t.status = "COMPLETED"
        /\ t.completedSteps = row.completedSteps
        /\ t.currentOperation = row.currentOperation
        /\ t.compensatedSteps = row.compensatedSteps
    BY DEF Row, Statuses, Terminal
  <1> QED
    BY <1>1, <1>2 DEF Progress, Active

(* The row of an order whose first step was rejected, or a later one.       *)
LEMMA TurnedRow ==
  ASSUME NEW row \in Row, row.status = "IN_PROGRESS", Consistent(row),
         NextOperation(row) \in P!Rejectable,
         NEW status, status = IF row.completedSteps = <<>> THEN "FAILED" ELSE "COMPENSATING",
         NEW t, t = [row EXCEPT !.status = status]
  PROVE  /\ t \in Row /\ Progress(t) /\ t.status = status
         /\ t.completedSteps = row.completedSteps
         /\ t.currentOperation = row.currentOperation
         /\ t.compensatedSteps = <<>>
  <1> DEFINE o == row.currentOperation
  <1>1. /\ o \in ForwardOperations /\ o # "FINALIZE_INVENTORY"
        /\ ~row.inventoryFinalized /\ row.compensatedSteps = <<>>
        /\ row.completedSteps = CompletedBefore[o]
    BY ForwardRow DEF P!Rejectable
  <1>2. /\ t \in Row /\ t.status = status
        /\ t.completedSteps = row.completedSteps
        /\ t.currentOperation = o
        /\ t.compensatedSteps = row.compensatedSteps
        /\ t.inventoryFinalized = row.inventoryFinalized
    BY DEF Row, Statuses, Active, Terminal
  <1>3. /\ UndoAfter[o] \in Seq(StepNames)
        /\ (row.completedSteps = <<>>) <=> (o = "CHARGE_PAYMENT")
        /\ (UndoAfter[o] # <<>>) <=> (o \in {"RESERVE_INVENTORY", "CREATE_SHIPMENT"})
    BY <1>1, Tables
  <1>4. CASE row.completedSteps = <<>>
    <2>1. t.status = "FAILED" /\ UndoAfter[o] = <<>>
      BY <1>2, <1>3, <1>4
    <2> HIDE DEF o
    <2> QED
      BY <1>1, <1>2, <2>1 DEF Progress, Active
  <1>5. CASE row.completedSteps # <<>>
    <2>1. UndoAfter[o] # <<>>
      BY <1>1, <1>3, <1>5 DEF ForwardOperations
    <2>2. Len(<<>>) = 0
      OBVIOUS
    <2>3. SubSeq(UndoAfter[o], 1, 0) = <<>> /\ 0 <= Len(UndoAfter[o])
      BY <1>3, SubSeqEmpty, LenProperties
    <2>4. t.status = "COMPENSATING"
      BY <1>2, <1>5
    <2>5. ConsistentCompensation(t)
      BY <1>1, <1>2, <2>1, <2>2, <2>3 DEF ConsistentCompensation
    <2> QED
      BY <1>1, <1>2, <2>4, <2>5 DEF Progress, Consistent, Active
  <1> QED
    BY <1>1, <1>2, <1>4, <1>5

(* The row of an order of which one more step was undone.                   *)
LEMMA CompensatedRow ==
  ASSUME NEW row \in Row, row.status = "COMPENSATING", Consistent(row),
         NextOperation(row) # None,
         NEW t, t = [row EXCEPT !.compensatedSteps = Append(@, NextUndo(row))]
  PROVE  /\ t \in Row /\ Progress(t) /\ t.status = "COMPENSATING"
         /\ t.completedSteps = row.completedSteps
         /\ t.currentOperation = row.currentOperation
         /\ NextUndo(row) \in StepNames
         /\ NextOperation(row) = ReverseOperation[NextUndo(row)]
         /\ t.compensatedSteps = Append(row.compensatedSteps, NextUndo(row))
         /\ Len(row.compensatedSteps) < Len(UndoAfter[row.currentOperation])
  <1> DEFINE undo == UndoAfter[row.currentOperation]
             k == Len(row.compensatedSteps)
  <1>1. ConsistentCompensation(row) /\ row.currentOperation \in ForwardOperations
    BY DEF Consistent, Row
  <1>2. /\ ~Undone(row)
        /\ NextOperation(row) = ReverseOperation[NextUndo(row)]
    BY DEF NextOperation
  <1>3. /\ undo \in Seq(StepNames) /\ k \in Nat /\ k < Len(undo)
        /\ row.compensatedSteps = SubSeq(undo, 1, k)
    BY <1>1, <1>2, Tables DEF Undone, ConsistentCompensation, Row
  <1>4. NextUndo(row) = undo[k + 1]
    BY DEF NextUndo
  <1>5. /\ Append(row.compensatedSteps, NextUndo(row)) = SubSeq(undo, 1, k + 1)
        /\ Len(SubSeq(undo, 1, k + 1)) = k + 1
        /\ NextUndo(row) \in StepNames
    <2> HIDE DEF undo, k
    <2> QED
      BY <1>3, <1>4, PrefixGrows
  <1>6. /\ t \in Row /\ t.status = "COMPENSATING"
        /\ t.completedSteps = row.completedSteps
        /\ t.currentOperation = row.currentOperation
        /\ t.compensatedSteps = Append(row.compensatedSteps, NextUndo(row))
        /\ t.inventoryFinalized = row.inventoryFinalized
    <2>1. Append(row.compensatedSteps, NextUndo(row)) \in Seq(StepNames)
      BY <1>5 DEF Row
    <2> QED
      BY <2>1 DEF Row
  <1>7. Len(t.compensatedSteps) = k + 1 /\ t.compensatedSteps = SubSeq(undo, 1, k + 1)
    BY <1>5, <1>6
  <1>8. ConsistentCompensation(t)
    <2> HIDE DEF k
    <2>1. k + 1 <= Len(undo)
      BY <1>3, LenProperties
    <2> QED
      BY <1>1, <1>6, <1>7, <2>1 DEF ConsistentCompensation
  <1> QED
    BY <1>2, <1>3, <1>5, <1>6, <1>8 DEF Progress, Consistent, Active

(* The row of an order of which everything was undone.                      *)
LEMMA ClosedRow ==
  ASSUME NEW row \in Row, row.status = "COMPENSATING", Consistent(row), Undone(row),
         NEW t, t = [row EXCEPT !.status = "FAILED"]
  PROVE  /\ t \in Row /\ Progress(t) /\ t.status = "FAILED"
         /\ t.completedSteps = row.completedSteps
         /\ t.currentOperation = row.currentOperation
         /\ t.compensatedSteps = row.compensatedSteps
         /\ row.compensatedSteps = UndoAfter[row.currentOperation]
  <1> DEFINE undo == UndoAfter[row.currentOperation]
             k == Len(row.compensatedSteps)
  <1>1. ConsistentCompensation(row) /\ row.currentOperation \in ForwardOperations
    BY DEF Consistent, Row
  <1>2. /\ undo \in Seq(StepNames) /\ k \in Nat /\ k = Len(undo)
        /\ row.compensatedSteps = SubSeq(undo, 1, k)
        /\ undo # <<>>
    <2>1. undo \in Seq(StepNames) /\ k \in Nat
      BY <1>1, Tables DEF Row
    <2> QED
      BY <1>1, <2>1, LenProperties DEF Undone, ConsistentCompensation
  <1>3. row.compensatedSteps = undo
    <2> HIDE DEF undo, k
    <2> QED
      BY <1>2, SubSeqFull
  <1>4. row.currentOperation # "FINALIZE_INVENTORY"
    BY <1>2 DEF UndoAfter
  <1>5. /\ t \in Row /\ t.status = "FAILED"
        /\ t.completedSteps = row.completedSteps
        /\ t.currentOperation = row.currentOperation
        /\ t.compensatedSteps = row.compensatedSteps
    BY DEF Row, Statuses, Terminal
  <1> QED
    BY <1>1, <1>3, <1>4, <1>5 DEF Progress, Active, ConsistentCompensation

-----------------------------------------------------------------------------
(* The steps of a request.                                                 *)

LEMMA DispatchKeepsLocks ==
  ASSUME LockInv, NEW c \in Connections, Dispatch(c)
  PROVE  LockInv'
  <1> DEFINE r == request[c]
  <1>1. /\ r.phase \in WorkPhases /\ NextOperation(r.row) # None
        /\ Write(c, r.row) /\ UNCHANGED lock
        /\ request' = [request EXCEPT ![c] = Calling(r.order, r.row)]
    BY DEF Dispatch, InPhase, WorkPhases
  <1>2. r.row \in Row /\ Progress(r.row) /\ r.row.status \in Active
    BY <1>1, WorkingFacts
  <1>3. r.row.status # "ABSENT"
    BY <1>2 DEF Active
  <1>4. GoesBy(Calling(r.order, r.row), r.row) /\ Calling(r.order, r.row).order = r.order
    BY <1>1, <1>2, GoesByPhases
  <1> QED
    BY <1>1, <1>2, <1>3, <1>4, WriteKeepsLocks

LEMMA AnswerKeepsLocks ==
  ASSUME LockInv, NEW c \in Connections, NEW outcome, Answer(c, outcome),
         outcome = "REJECTED" => NextOperation(request[c].row) \in P!Rejectable
  PROVE  LockInv'
  <1> DEFINE r == request[c]
             told0 == Received(outcome)
             t == Answered(r.order, r.row, told0)
  <1>1. r.phase = "calling" /\ UNCHANGED <<saga, lock, stale>>
        /\ request' = [request EXCEPT ![c] = t]
    BY DEF Answer, InPhase
  <1>2. /\ r # Idle /\ r.row.status \in Active /\ NextOperation(r.row) # None
        /\ r.row = saga[r.order]
    BY <1>1, WorkingFacts, CallFacts DEF WorkPhases
  <1>3. told0 = "REJECTED" => outcome = "REJECTED"
    BY DEF Received
  <1> HIDE DEF told0
  <1>4. GoesBy(t, r.row) /\ t.order = r.order
    BY <1>2, <1>3, GoesByPhases
  <1> QED
    BY <1>1, <1>2, <1>4, MoveKeepsLocks

LEMMA DefinitiveAnswer ==
  ASSUME NEW c \in Connections, AnswerDefinitively(c)
  PROVE  \E outcome \in {"SUCCEEDED", "REJECTED"} :
           /\ Answer(c, outcome)
           /\ CommandFor(request[c].order, request[c].row) \in calls
           /\ P!Answers(request[c].order, NextOperation(request[c].row), outcome)
  <1>1. PICK outcome \in {"SUCCEEDED", "REJECTED"}, x \in calls :
          /\ Answer(c, outcome)
          /\ x = CommandFor(request[c].order, request[c].row)
          /\ P!Answers(x.order, x.operation, outcome)
    BY DEF AnswerDefinitively
  <1>2. x.order = request[c].order /\ x.operation = NextOperation(request[c].row)
    BY <1>1 DEF CommandFor
  <1> QED
    BY <1>1, <1>2

LEMMA AnswersKeepLocks ==
  ASSUME LockInv, NEW c \in Connections, AnswerDefinitively(c) \/ AnswerOtherwise(c)
  PROVE  LockInv'
  <1>1. CASE AnswerDefinitively(c)
    <2>1. PICK outcome \in {"SUCCEEDED", "REJECTED"} :
            /\ Answer(c, outcome)
            /\ P!Answers(request[c].order, NextOperation(request[c].row), outcome)
      BY <1>1, DefinitiveAnswer
    <2>2. outcome = "REJECTED" => NextOperation(request[c].row) \in P!Rejectable
      BY <2>1 DEF P!Answers
    <2> QED
      BY <2>1, <2>2, AnswerKeepsLocks
  <1>2. CASE AnswerOtherwise(c)
    BY <1>2, AnswerKeepsLocks DEF AnswerOtherwise
  <1> QED
    BY <1>1, <1>2

(* A request that writes what follows from a result and goes on or is over. *)
LEMMA ContinueKeepsLocks ==
  ASSUME LockInv, NEW c \in Connections, request[c].phase \in WorkPhases,
         NEW row \in Row, Progress(row), row.status \in Active, Continue(c, row)
  PROVE  LockInv' /\ saga' = [saga EXCEPT ![request[c].order] = row]
  <1>1. /\ Write(c, row) /\ UNCHANGED lock
        /\ request' = [request EXCEPT ![c] = Serving(request[c].order, row)]
    BY DEF Continue
  <1>2. row.status # "ABSENT"
    BY DEF Active
  <1>3. /\ GoesBy(Serving(request[c].order, row), row)
        /\ Serving(request[c].order, row).order = request[c].order
    BY GoesByPhases
  <1> QED
    BY <1>1, <1>2, <1>3, WriteKeepsLocks

LEMMA StopKeepsLocks ==
  ASSUME LockInv, NEW c \in Connections, request[c].phase \in WorkPhases,
         NEW row \in Row, Progress(row), row.status # "ABSENT", Stop(c, row)
  PROVE  LockInv' /\ saga' = [saga EXCEPT ![request[c].order] = row]
  <1>1. /\ Write(c, row) /\ UNCHANGED lock
        /\ request' = [request EXCEPT ![c] = Leaving(request[c].order)]
    BY DEF Stop
  <1>2. /\ GoesBy(Leaving(request[c].order), row)
        /\ Leaving(request[c].order).order = request[c].order
    BY LeavingGoesBy
  <1> QED
    BY <1>1, <1>2, WriteKeepsLocks

(* What follows from a result: the lock, and the row that is written.       *)
Writes(c, row) == LockInv' /\ saga' = [saga EXCEPT ![request[c].order] = row]

LEMMA ResultFacts ==
  ASSUME LockInv, NEW c \in Connections, NEW status, NEW outcomes, Result(c, status, outcomes)
  PROVE  LET row == request[c].row
         IN /\ request[c].phase \in WorkPhases
            /\ row \in Row /\ row.status = status /\ Consistent(row)
            /\ Progress(row) /\ row.status \in Active
            /\ NextOperation(row) # None
            /\ request[c].outcome = "REJECTED" => NextOperation(row) \in P!Rejectable
  BY WorkingFacts, CallFacts DEF Result, InPhase

LEMMA StopInDoubtWrites ==
  ASSUME LockInv, NEW c \in Connections, StopInDoubt(c)
  PROVE  Writes(c, request[c].row)
  <1>1. PICK status, outcomes : Result(c, status, outcomes)
    BY DEF StopInDoubt
  <1>2. request[c].row.status # "ABSENT"
    BY <1>1, ResultFacts DEF Active
  <1> QED
    BY <1>1, <1>2, ResultFacts, StopKeepsLocks DEF StopInDoubt, Writes

LEMMA TurnAroundWrites ==
  ASSUME LockInv, NEW c \in Connections, TurnAround(c)
  PROVE  LET row == request[c].row
             status == IF row.completedSteps = <<>> THEN "FAILED" ELSE "COMPENSATING"
         IN Writes(c, [row EXCEPT !.status = status])
  <1> DEFINE row == request[c].row
             status == IF row.completedSteps = <<>> THEN "FAILED" ELSE "COMPENSATING"
             t == [row EXCEPT !.status = status]
  <1>1. Result(c, "IN_PROGRESS", {"REJECTED"})
    BY DEF TurnAround
  <1>2. /\ request[c].phase \in WorkPhases
        /\ row \in Row /\ row.status = "IN_PROGRESS" /\ Consistent(row)
        /\ NextOperation(row) \in P!Rejectable
    BY <1>1, ResultFacts DEF Result
  <1>3. t \in Row /\ Progress(t) /\ t.status = status
    BY <1>2, TurnedRow
  <1>4. ASSUME row.completedSteps = <<>> PROVE Writes(c, t)
    <2>1. Stop(c, t) /\ t.status # "ABSENT"
      BY <1>3, <1>4 DEF TurnAround
    <2> HIDE DEF row, t
    <2> QED
      BY <1>2, <1>3, <2>1, StopKeepsLocks DEF Writes
  <1>5. ASSUME row.completedSteps # <<>> PROVE Writes(c, t)
    <2>1. Continue(c, t) /\ t.status \in Active
      BY <1>3, <1>5 DEF TurnAround, Active
    <2> HIDE DEF row, t
    <2> QED
      BY <1>2, <1>3, <2>1, ContinueKeepsLocks DEF Writes
  <1> QED
    BY <1>4, <1>5

LEMMA AdvanceWrites ==
  ASSUME LockInv, NEW c \in Connections, Advance(c)
  PROVE  LET row == request[c].row
         IN Writes(c, [row EXCEPT !.completedSteps = Append(@, StepFor[row.currentOperation]),
                                  !.currentOperation = Successor[row.currentOperation]])
  <1> DEFINE row == request[c].row
             t == [row EXCEPT !.completedSteps = Append(@, StepFor[row.currentOperation]),
                              !.currentOperation = Successor[row.currentOperation]]
  <1>1. /\ Result(c, "IN_PROGRESS", {"SUCCEEDED"})
        /\ row.currentOperation # "FINALIZE_INVENTORY" /\ Continue(c, t)
    BY DEF Advance
  <1>2. /\ request[c].phase \in WorkPhases
        /\ row \in Row /\ row.status = "IN_PROGRESS" /\ Consistent(row)
    BY <1>1, ResultFacts
  <1>3. t \in Row /\ Progress(t) /\ t.status \in Active
    BY <1>1, <1>2, AdvancedRow DEF Active
  <1> HIDE DEF row, t
  <1>4. Writes(c, t)
    BY <1>1, <1>2, <1>3, ContinueKeepsLocks DEF Writes
  <1> QED
    BY <1>4 DEF t, row

LEMMA CompleteWrites ==
  ASSUME LockInv, NEW c \in Connections, Complete(c)
  PROVE  Writes(c, [request[c].row EXCEPT !.status = "COMPLETED", !.inventoryFinalized = TRUE])
  <1> DEFINE row == request[c].row
             t == [row EXCEPT !.status = "COMPLETED", !.inventoryFinalized = TRUE]
  <1>1. /\ Result(c, "IN_PROGRESS", {"SUCCEEDED"})
        /\ row.currentOperation = "FINALIZE_INVENTORY" /\ Stop(c, t)
    BY DEF Complete
  <1>2. /\ request[c].phase \in WorkPhases
        /\ row \in Row /\ row.status = "IN_PROGRESS" /\ Consistent(row)
    BY <1>1, ResultFacts
  <1>3. t \in Row /\ Progress(t) /\ t.status # "ABSENT"
    BY <1>1, <1>2, CompletedRow
  <1> HIDE DEF row, t
  <1>4. Writes(c, t)
    BY <1>1, <1>2, <1>3, StopKeepsLocks DEF Writes
  <1> QED
    BY <1>4 DEF t, row

LEMMA CompensateWrites ==
  ASSUME LockInv, NEW c \in Connections, Compensate(c)
  PROVE  LET row == request[c].row
         IN Writes(c, [row EXCEPT !.compensatedSteps = Append(@, NextUndo(row))])
  <1> DEFINE row == request[c].row
             t == [row EXCEPT !.compensatedSteps = Append(@, NextUndo(row))]
  <1>1. Result(c, "COMPENSATING", {"SUCCEEDED"}) /\ Continue(c, t)
    BY DEF Compensate
  <1>2. /\ request[c].phase \in WorkPhases /\ NextOperation(row) # None
        /\ row \in Row /\ row.status = "COMPENSATING" /\ Consistent(row)
    BY <1>1, ResultFacts
  <1>3. t \in Row /\ Progress(t) /\ t.status \in Active
    BY <1>2, CompensatedRow DEF Active
  <1> HIDE DEF row, t
  <1>4. Writes(c, t)
    BY <1>1, <1>2, <1>3, ContinueKeepsLocks DEF Writes
  <1> QED
    BY <1>4 DEF t, row

LEMMA CloseWrites ==
  ASSUME LockInv, NEW c \in Connections, Close(c)
  PROVE  Writes(c, [request[c].row EXCEPT !.status = "FAILED"])
  <1> DEFINE row == request[c].row
             t == [row EXCEPT !.status = "FAILED"]
  <1>1. /\ request[c].phase \in WorkPhases
        /\ row.status = "COMPENSATING" /\ Undone(row) /\ Stop(c, t)
    BY DEF Close, InPhase, WorkPhases
  <1>2. row \in Row /\ Consistent(row)
    BY <1>1, WorkingFacts
  <1>3. t \in Row /\ Progress(t) /\ t.status # "ABSENT"
    BY <1>1, <1>2, ClosedRow
  <1> HIDE DEF row, t
  <1>4. Writes(c, t)
    BY <1>1, <1>2, <1>3, StopKeepsLocks DEF Writes
  <1> QED
    BY <1>4 DEF t, row

LEMMA SameKeepsLocks ==
  ASSUME LockInv, UNCHANGED <<saga, request, lock, stale>>
  PROVE  LockInv'
  <1>1. saga' = saga /\ request' = request /\ lock' = lock /\ stale' = stale
    OBVIOUS
  <1>2. ASSUME NEW c \in Connections PROVE Exclusive(c)'
    BY <1>1 DEF LockInv, Exclusive
  <1> QED
    BY <1>1, <1>2 DEF LockInv

LEMMA NextLockInv == LockInv /\ [Next]_vars => LockInv'
  <1> SUFFICES ASSUME LockInv, [Next]_vars PROVE LockInv'
    OBVIOUS
  <1>1. ASSUME NEW o \in Orders, Accept(o) PROVE LockInv'
    BY <1>1, AcceptKeepsLocks
  <1>2. ASSUME NEW o \in Orders, NEW c \in Connections, TakeLock(c, o) PROVE LockInv'
    BY <1>2, TakeLockKeepsLocks
  <1>3. ASSUME NEW c \in Connections, Read(c) PROVE LockInv'
    BY <1>3, ReadKeepsLocks
  <1>4. ASSUME NEW c \in Connections, Leave(c) \/ Die(c) PROVE LockInv'
    BY <1>4, UnlockKeepsLocks DEF Leave, Die
  <1>5. ASSUME NEW c \in Connections, Decide(c) PROVE LockInv'
    BY <1>5, DispatchKeepsLocks, CloseWrites DEF Decide, Writes
  <1>6. ASSUME NEW c \in Connections, AnswerDefinitively(c) \/ AnswerOtherwise(c) PROVE LockInv'
    BY <1>6, AnswersKeepLocks
  <1>7. ASSUME NEW c \in Connections, Apply(c) PROVE LockInv'
    BY <1>7, TurnAroundWrites, AdvanceWrites, CompleteWrites, CompensateWrites DEF Apply, Writes
  <1>8. ASSUME NEW c \in Connections, StopInDoubt(c) PROVE LockInv'
    BY <1>8, StopInDoubtWrites DEF Writes
  <1>9. ASSUME NEW x \in calls, Execute(x) PROVE LockInv'
    BY <1>9, SameKeepsLocks DEF Execute
  <1>10. CASE UNCHANGED vars
    BY <1>10, SameKeepsLocks DEF vars
  <1> QED
    BY <1>1, <1>2, <1>3, <1>4, <1>5, <1>6, <1>7, <1>8, <1>9, <1>10 DEF Next

(* The row a request goes by is the row as it is, whoever died before it    *)
(* and however many requests ask for the order: nobody else writes it.      *)
THEOREM OneWriterHolds == Spec => []OneWriter
  <1>1. LockInv => OneWriter
    <2> SUFFICES ASSUME LockInv, NEW c \in Connections, Working(c)
                 PROVE  stale = {} /\ request[c].row = saga[request[c].order]
      BY DEF OneWriter, LockInv
    <2>1. request[c].phase \in WorkPhases
      BY DEF Working, WorkPhases
    <2> QED
      BY <2>1, WorkingFacts DEF LockInv
  <1> QED
    BY <1>1, InitLockInv, NextLockInv, PTL DEF Spec

-----------------------------------------------------------------------------
(* The truth of the rows: what was called, done and told.                  *)

Sent(o) == {operation \in Operations : [order |-> o, operation |-> operation] \in calls}
Said(o) == [service \in Services |-> told[service][o]]

(* A result in hand was told by the participant of its operation.           *)
ResultTrue(r) ==
  r.phase = "answered" /\ r.outcome \in {"SUCCEEDED", "REJECTED"} =>
    LET operation == NextOperation(r.row)
    IN P!Says(operation, r.outcome) \in Said(r.order)[Owner(operation)]

OrderTrue(o) ==
  /\ RowTrue(saga[o], Sent(o), Said(o))
  /\ \A service \in Services :
       ServiceTrue(service, effect[service][o], told[service][o], Sent(o))

ParticipantsOK ==
  /\ calls \subseteq [order : Orders, operation : Operations]
  /\ effect \in [Services -> [Orders -> Effects]]
  /\ told \in [Services -> [Orders -> SUBSET Tellings]]

TruthInv ==
  /\ ParticipantsOK
  /\ \A o \in Orders : OrderTrue(o)
  /\ \A c \in Connections : ResultTrue(request[c])

LEMMA Vocabulary ==
  ASSUME NEW operation \in Operations
  PROVE  /\ P!Owner(operation) = Owner(operation)
         /\ operation \in CompensatingOperations => P!Says(operation, "SUCCEEDED") = "UNDONE"
         /\ operation \in ForwardOperations \ {"FINALIZE_INVENTORY"} =>
              P!Says(operation, "SUCCEEDED") = "DONE"
         /\ operation = "FINALIZE_INVENTORY" => P!Says(operation, "SUCCEEDED") = "FINAL"
         /\ P!Says(operation, "REJECTED") = "REFUSED"
         /\ \A outcome : P!Says(operation, outcome) \in Tellings
         /\ P!CompensatingOperations = CompensatingOperations
  BY DEF Operations, ForwardOperations, CompensatingOperations, Owner, Tellings, P!Says, P!Owner,
         P!CompensatingOperations

LEMMA ServiceMoves ==
  ASSUME NEW operation \in Operations, NEW sent, operation \in sent,
         NEW far, NEW said,
         ServiceTrue(Owner(operation), far, said, sent),
         NEW next, next = P!Brings(operation, far), next # far,
         next \in P!The(Owner(operation))!Follows[far],
         next = "done" => "REFUSED" \notin said
  PROVE  ServiceTrue(Owner(operation), next, said, sent)
  <1>1. far \in Effects
    BY DEF ServiceTrue
  <1>2. \/ far = "none" /\ next \in {"void", "done"}
        \/ far = "done" /\ next \in {"undone", "final"}
    BY <1>1 DEF Effects, P!The!Follows
  <1>3. /\ next \in {"void", "undone"} => operation \in CompensatingOperations
        /\ next = "final" => operation = "FINALIZE_INVENTORY"
        /\ next = "done" => operation \in ForwardOperations \ {"FINALIZE_INVENTORY"}
    BY <1>2, Vocabulary, OwnerTable DEF P!Brings, Operations
  <1> QED
    BY <1>2, <1>3, Vocabulary, OwnerTable DEF ServiceTrue, Effects

LEMMA ServiceTells ==
  ASSUME NEW service, NEW sent, NEW far, NEW said,
         ServiceTrue(service, far, said, sent),
         NEW results, results \subseteq P!The(service)!TrueOf[far]
  PROVE  ServiceTrue(service, far, said \cup results, sent)
  <1>1. far \in Effects
    BY DEF ServiceTrue
  <1>2. CASE far = "none"
    BY <1>2 DEF ServiceTrue, P!The!TrueOf, Tellings
  <1>3. CASE far = "void"
    BY <1>3 DEF ServiceTrue, P!The!TrueOf, Tellings
  <1>4. CASE far = "done"
    BY <1>4 DEF ServiceTrue, P!The!TrueOf, Tellings
  <1>5. CASE far = "undone"
    BY <1>5 DEF ServiceTrue, P!The!TrueOf, Tellings
  <1>6. CASE far = "final"
    BY <1>6 DEF ServiceTrue, P!The!TrueOf, Tellings
  <1> QED
    BY <1>1, <1>2, <1>3, <1>4, <1>5, <1>6 DEF Effects

(* A participant executes a call, and nothing it told becomes untrue.       *)
LEMMA ExecuteIsTrue ==
  ASSUME LockInv, TruthInv, NEW x \in calls, Execute(x)
  PROVE  TruthInv'
  <1>0. PICK o \in Orders, operation \in Operations :
          x = [order |-> o, operation |-> operation]
    BY DEF TruthInv, ParticipantsOK
  <1>1. operation \in Sent(o) /\ P!Owner(operation) = Owner(operation)
    BY <1>0, Vocabulary DEF Sent
  <1>2. /\ P!Executes(o, operation)
        /\ saga' = saga /\ request' = request /\ calls' = calls
    BY <1>0 DEF Execute
  <1>3. PICK service \in Services :
          /\ service = Owner(operation)
          /\ effect[service][o] # P!Brings(operation, effect[service][o])
          /\ effect' = [effect EXCEPT ![service][o] = P!Brings(operation, effect[service][o])]
          /\ told' = told
          /\ P!The(service)!Step(o)
    <2>1. PICK service \in {P!Owner(operation)} :
            /\ effect[service][o] # P!Brings(operation, effect[service][o])
            /\ effect' = [effect EXCEPT ![service][o] = P!Brings(operation, @)]
            /\ told' = told
            /\ P!The(service)!Step(o)
      BY <1>2 DEF P!Executes
    <2>2. service \in Services /\ service = Owner(operation)
      BY <1>1, OwnerTable
    <2> QED
      BY <2>1, <2>2
  <1> PICK next : next = P!Brings(operation, effect[service][o])
    OBVIOUS
  <1>4. ServiceTrue(service, effect[service][o], told[service][o], Sent(o))
    BY DEF TruthInv, OrderTrue
  <1>5. /\ next \in P!The(service)!Follows[effect[service][o]]
        /\ next = "done" => "REFUSED" \notin told[service][o]
    <2>1. PICK far \in P!The(service)!Follows[effect[service][o]] :
            /\ far = "done" => "REFUSED" \notin told[service][o]
            /\ effect'[service] = [effect[service] EXCEPT ![o] = far]
      BY <1>3 DEF P!The!Step
    <2>2. effect'[service][o] = far /\ effect'[service][o] = next
      BY <1>3, <2>1 DEF TruthInv, ParticipantsOK
    <2> QED
      BY <2>1, <2>2
  <1>6. ServiceTrue(service, next, told[service][o], Sent(o))
    BY <1>1, <1>3, <1>4, <1>5, ServiceMoves
  <1>7. \A q \in Services : \A p \in Orders :
          effect'[q][p] = IF q = service /\ p = o THEN next ELSE effect[q][p]
    BY <1>3 DEF TruthInv, ParticipantsOK
  <1>8. ParticipantsOK'
    BY <1>2, <1>3, <1>6 DEF TruthInv, ParticipantsOK, ServiceTrue
  <1>9. \A p \in Orders : Said(p)' = Said(p) /\ Sent(p)' = Sent(p)
    BY <1>2, <1>3 DEF Said, Sent
  <1>10. ASSUME NEW p \in Orders PROVE OrderTrue(p)'
    BY <1>2, <1>3, <1>6, <1>7, <1>9 DEF TruthInv, OrderTrue
  <1>11. ASSUME NEW c \in Connections PROVE ResultTrue(request[c])'
    BY <1>2, <1>3 DEF TruthInv, ResultTrue, Said
  <1> QED
    BY <1>8, <1>10, <1>11 DEF TruthInv

LEMMA RowsTyped ==
  ASSUME NEW row \in Row
  PROVE  ProgressTyped(row)
  BY DEF Row, ProgressTyped

(* Results that were told stay told.                                        *)
LEMMA ResultStaysTrue ==
  ASSUME LockInv, TruthInv, NEW c \in Connections, NEW more,
         \A q \in Services : \A p \in Orders : told[q][p] \subseteq more[q][p]
  PROVE  LET r == request[c]
             operation == NextOperation(r.row)
         IN r.phase = "answered" /\ r.outcome \in {"SUCCEEDED", "REJECTED"} =>
              P!Says(operation, r.outcome) \in more[Owner(operation)][r.order]
  <1> DEFINE r == request[c]
             operation == NextOperation(r.row)
  <1> SUFFICES ASSUME r.phase = "answered", r.outcome \in {"SUCCEEDED", "REJECTED"}
               PROVE  P!Says(operation, r.outcome) \in more[Owner(operation)][r.order]
    OBVIOUS
  <1>1. r.order \in Orders /\ operation \in Operations
    BY WorkingFacts, CallFacts, NextIsOperation, RowsTyped DEF WorkPhases
  <1>2. Owner(operation) \in Services
    BY <1>1, OwnerTable
  <1>3. P!Says(operation, r.outcome) \in told[Owner(operation)][r.order]
    BY <1>2 DEF TruthInv, ResultTrue, Said
  <1> HIDE DEF operation, r
  <1> QED
    BY <1>1, <1>2, <1>3

(* A participant answers a call, and what it tells is true.                 *)
LEMMA DefinitivelyIsTrue ==
  ASSUME LockInv, TruthInv, NEW c \in Connections, AnswerDefinitively(c)
  PROVE  TruthInv'
  <1> PICK o : o = request[c].order
    OBVIOUS
  <1> PICK operation : operation = NextOperation(request[c].row)
    OBVIOUS
  <1>1. PICK outcome \in {"SUCCEEDED", "REJECTED"} :
          Answer(c, outcome) /\ P!Answers(o, operation, outcome)
    BY DefinitiveAnswer
  <1>2. /\ request[c].phase = "calling" /\ saga' = saga /\ calls' = calls
        /\ request' = [request EXCEPT ![c] = Answered(o, request[c].row, Received(outcome))]
    BY <1>1 DEF Answer, InPhase
  <1>3. o \in Orders /\ operation \in Operations
    BY <1>2, WorkingFacts, CallFacts, NextIsOperation, RowsTyped DEF WorkPhases
  <1>4. PICK service \in Services :
          /\ service = Owner(operation)
          /\ told' = [told EXCEPT ![service][o] = @ \cup {P!Says(operation, outcome)}]
          /\ effect' = effect
          /\ P!The(service)!Step(o)
    <2>1. PICK service \in {P!Owner(operation)} :
            /\ told' = [told EXCEPT ![service][o] = @ \cup {P!Says(operation, outcome)}]
            /\ effect' = effect
            /\ P!The(service)!Step(o)
      BY <1>1 DEF P!Answers
    <2>2. service \in Services /\ service = Owner(operation)
      BY <1>3, Vocabulary, OwnerTable
    <2> QED
      BY <2>1, <2>2
  <1> PICK word \in Tellings : word = P!Says(operation, outcome)
    BY <1>3, Vocabulary
  <1>5. \A q \in Services : \A p \in Orders :
          told'[q][p] = IF q = service /\ p = o THEN told[q][p] \cup {word} ELSE told[q][p]
    BY <1>4 DEF TruthInv, ParticipantsOK
  <1>6. word \in told[service][o] \cup P!The(service)!TrueOf[effect[service][o]]
    <2>1. PICK results \in SUBSET P!The(service)!TrueOf[effect'[service][o]] :
            told'[service] = [told[service] EXCEPT ![o] = @ \cup results]
      BY <1>4 DEF P!The!Step
    <2>2. told'[service][o] = told[service][o] \cup results
      BY <1>3, <2>1 DEF TruthInv, ParticipantsOK
    <2> QED
      BY <1>3, <1>4, <1>5, <2>1, <2>2
  <1>7. ServiceTrue(service, effect[service][o], told[service][o] \cup {word}, Sent(o))
    <2>1. ServiceTrue(service, effect[service][o], told[service][o], Sent(o))
      BY <1>3 DEF TruthInv, OrderTrue
    <2>2. CASE word \in told[service][o]
      <3>1. told[service][o] \cup {word} = told[service][o]
        BY <2>2
      <3> QED
        BY <2>1, <3>1
    <2>3. CASE word \in P!The(service)!TrueOf[effect[service][o]]
      <3>1. {word} \subseteq P!The(service)!TrueOf[effect[service][o]]
        BY <2>3
      <3> QED
        BY <2>1, <3>1, ServiceTells
    <2> QED
      BY <1>6, <2>2, <2>3
  <1>8. ParticipantsOK'
    BY <1>2, <1>3, <1>4 DEF TruthInv, ParticipantsOK
  <1>9. ASSUME NEW p \in Orders PROVE OrderTrue(p)'
    <2>1. \A q \in Services : Said(p)[q] \subseteq Said(p)'[q]
      BY <1>5 DEF Said
    <2>2. Sent(p)' = Sent(p)
      BY <1>2 DEF Sent
    <2>3. ProgressTyped(saga[p])
      BY RowsTyped DEF LockInv
    <2>4. RowTrue(saga[p], Sent(p), Said(p)')
      BY <2>1, <2>3, RowStaysTrue DEF TruthInv, OrderTrue
    <2>5. \A q \in Services : ServiceTrue(q, effect[q][p], told'[q][p], Sent(p))
      BY <1>5, <1>7 DEF TruthInv, OrderTrue
    <2> QED
      BY <1>2, <1>4, <2>2, <2>4, <2>5 DEF OrderTrue
  <1>10. ASSUME NEW d \in Connections PROVE ResultTrue(request[d])'
    <2>1. CASE d = c
      <3>1. request'[c] = Answered(o, request[c].row, Received(outcome))
        BY <1>2 DEF LockInv
      <3>2. /\ request'[c].order = o /\ request'[c].row = request[c].row
            /\ request'[c].outcome = Received(outcome)
        BY <3>1 DEF Answered
      <3>3. Received(outcome) \in {"SUCCEEDED", "REJECTED"} => Received(outcome) = outcome
        BY DEF Received
      <3>4. word \in Said(o)'[service]
        BY <1>3, <1>5 DEF Said
      <3> QED
        BY <1>4, <2>1, <3>2, <3>3, <3>4 DEF ResultTrue
    <2>2. CASE d # c
      <3>1. request'[d] = request[d]
        BY <1>2, <2>2 DEF LockInv
      <3>2. \A q \in Services : \A p \in Orders : told[q][p] \subseteq told'[q][p]
        BY <1>5
      <3> DEFINE r == request[d]
                 op == NextOperation(r.row)
      <3>3. r.phase = "answered" /\ r.outcome \in {"SUCCEEDED", "REJECTED"} =>
              P!Says(op, r.outcome) \in told'[Owner(op)][r.order] /\ Owner(op) \in Services
        <4>1. r.phase = "answered" => op \in Operations
          BY WorkingFacts, CallFacts, NextIsOperation, RowsTyped DEF WorkPhases
        <4> QED
          BY <3>2, <4>1, ResultStaysTrue, OwnerTable
      <3> QED
        BY <3>1, <3>3 DEF ResultTrue, Said
    <2> QED
      BY <2>1, <2>2
  <1> QED
    BY <1>8, <1>9, <1>10 DEF TruthInv

-----------------------------------------------------------------------------
(* The steps of orders and requests: what they write rests on what was told.*)

LEMMA OwnStepIsTrue ==
  ASSUME TruthInv, UNCHANGED participants, calls \subseteq calls',
         calls' \subseteq [order : Orders, operation : Operations],
         \A p \in Orders : RowTrue(saga'[p], Sent(p)', Said(p)),
         \A d \in Connections :
           request'[d] = request[d]
           \/ (request'[d].phase = "answered" => request'[d].outcome \in {"UNKNOWN", "FAILED"})
  PROVE  TruthInv'
  <1>1. effect' = effect /\ told' = told
    BY DEF participants
  <1>2. ParticipantsOK'
    BY <1>1 DEF TruthInv, ParticipantsOK
  <1>3. \A p \in Orders : Said(p)' = Said(p) /\ Sent(p) \subseteq Sent(p)'
    BY <1>1 DEF Said, Sent
  <1>4. ASSUME NEW p \in Orders PROVE OrderTrue(p)'
    <2>1. \A q \in Services : ServiceTrue(q, effect[q][p], told[q][p], Sent(p)')
      BY <1>3 DEF TruthInv, OrderTrue, ServiceTrue
    <2> QED
      BY <1>1, <1>3, <2>1 DEF OrderTrue
  <1>5. ASSUME NEW d \in Connections PROVE ResultTrue(request[d])'
    BY <1>1 DEF TruthInv, ResultTrue, Said
  <1> QED
    BY <1>2, <1>4, <1>5 DEF TruthInv

(* A request moves on: its rows and its calls are what they were.           *)
LEMMA MoveIsTrue ==
  ASSUME LockInv, TruthInv, UNCHANGED <<saga, calls, participants>>,
         NEW c \in Connections, NEW r, request' = [request EXCEPT ![c] = r],
         r.phase = "answered" => r.outcome \in {"UNKNOWN", "FAILED"}
  PROVE  TruthInv'
  <1>1. \A d \in Connections : request'[d] = request[d] \/ request'[d] = r
    BY DEF LockInv
  <1>2. \A p \in Orders : Sent(p)' = Sent(p)
    BY DEF Sent
  <1>3. \A p \in Orders : RowTrue(saga'[p], Sent(p)', Said(p))
    BY <1>2 DEF TruthInv, OrderTrue
  <1>4. calls' \subseteq [order : Orders, operation : Operations]
    BY DEF TruthInv, ParticipantsOK
  <1> QED
    BY <1>1, <1>3, <1>4, OwnStepIsTrue

(* A request writes a row and goes on or is over.                           *)
LEMMA WriteIsTrue ==
  ASSUME LockInv, TruthInv, UNCHANGED <<calls, participants>>,
         NEW c \in Connections, NEW o \in Orders, NEW row,
         Continue(c, row) \/ Stop(c, row),
         saga' = [saga EXCEPT ![o] = row], RowTrue(row, Sent(o), Said(o))
  PROVE  TruthInv'
  <1>1. \A d \in Connections : request'[d] = request[d] \/ request'[d].phase # "answered"
    BY DEF LockInv, Continue, Stop, Serving, Leaving
  <1>2. \A p \in Orders : Sent(p)' = Sent(p)
    BY DEF Sent
  <1>3. \A p \in Orders : RowTrue(saga'[p], Sent(p)', Said(p))
    BY <1>2 DEF TruthInv, OrderTrue, LockInv
  <1>4. calls' \subseteq [order : Orders, operation : Operations]
    BY DEF TruthInv, ParticipantsOK
  <1> QED
    BY <1>1, <1>3, <1>4, OwnStepIsTrue

LEMMA AcceptIsTrue ==
  ASSUME LockInv, TruthInv, NEW o \in Orders, Accept(o)
  PROVE  TruthInv'
  <1>1. /\ request' = request /\ calls' = calls /\ UNCHANGED participants
        /\ saga[o].status = "ABSENT"
    BY DEF Accept
  <1>2. PICK status \in {"PENDING_PAYMENT", "IN_PROGRESS"} :
          saga' = [saga EXCEPT ![o] = NewRow(status)]
    BY DEF Accept
  <1>3. \A p \in Orders : Sent(p)' = Sent(p)
    BY <1>1 DEF Sent
  <1>4. RowTrue(NewRow(status), Sent(o), Said(o))
    <2>1. Sent(o) = {}
      BY <1>1 DEF TruthInv, OrderTrue, RowTrue
    <2>2. /\ NewRow(status).status = status
          /\ NewRow(status).completedSteps = <<>> /\ NewRow(status).compensatedSteps = <<>>
      BY NewRowFacts
    <2> QED
      BY <2>1, <2>2 DEF RowTrue
  <1>5. \A p \in Orders : RowTrue(saga'[p], Sent(p)', Said(p))
    BY <1>2, <1>3, <1>4 DEF TruthInv, OrderTrue, LockInv
  <1> QED
    BY <1>1, <1>5, OwnStepIsTrue DEF TruthInv, ParticipantsOK

LEMMA DispatchIsTrue ==
  ASSUME LockInv, TruthInv, NEW c \in Connections, Dispatch(c)
  PROVE  TruthInv'
  <1> PICK o, row : o = request[c].order /\ row = request[c].row
    OBVIOUS
  <1>1. /\ request[c].phase \in WorkPhases /\ NextOperation(row) # None
        /\ Write(c, row) /\ UNCHANGED participants
        /\ calls' = calls \cup {[order |-> o, operation |-> NextOperation(row)]}
        /\ request' = [request EXCEPT ![c] = Calling(o, row)]
    BY DEF Dispatch, InPhase, WorkPhases, CommandFor
  <1>2. o \in Orders /\ row \in Row /\ row = saga[o] /\ row.status \in Active
    BY <1>1, WorkingFacts
  <1>3. saga' = saga
    BY <1>1, <1>2 DEF Write, LockInv
  <1>4. NextOperation(row) \in Operations
    BY <1>1, <1>2, NextIsOperation, RowsTyped
  <1>5. calls' \subseteq [order : Orders, operation : Operations]
    BY <1>1, <1>2, <1>4 DEF TruthInv, ParticipantsOK
  <1>6. \A d \in Connections : request'[d] = request[d] \/ request'[d].phase # "answered"
    BY <1>1 DEF LockInv, Calling
  <1>7. /\ Sent(o)' = Sent(o) \cup {NextOperation(row)}
        /\ \A p \in Orders \ {o} : Sent(p)' = Sent(p)
    BY <1>1, <1>4 DEF Sent
  <1>8. RowTrue(row, Sent(o)', Said(o))
    BY <1>1, <1>2, <1>7, SentRowTrue, RowsTyped DEF TruthInv, OrderTrue
  <1>9. \A p \in Orders : RowTrue(saga'[p], Sent(p)', Said(p))
    BY <1>2, <1>3, <1>7, <1>8 DEF TruthInv, OrderTrue
  <1> QED
    BY <1>1, <1>5, <1>6, <1>9, OwnStepIsTrue

LEMMA ReadIsTrue ==
  ASSUME LockInv, TruthInv, NEW c \in Connections, Read(c) \/ Unlock(c)
  PROVE  TruthInv'
  <1>1. UNCHANGED <<saga, calls, participants>>
    BY DEF Read, Unlock
  <1> PICK o : o = request[c].order
    OBVIOUS
  <1>2. /\ Serving(o, saga[o]).phase # "answered"
        /\ Leaving(o).phase # "answered" /\ Idle.phase # "answered"
    BY DEF Serving, Leaving, Idle
  <1>3. \/ request' = [request EXCEPT ![c] = Serving(o, saga[o])]
        \/ request' = [request EXCEPT ![c] = Leaving(o)]
        \/ request' = [request EXCEPT ![c] = Idle]
    BY DEF Read, Unlock
  <1> QED
    BY <1>1, <1>2, <1>3, MoveIsTrue

LEMMA OtherwiseIsTrue ==
  ASSUME LockInv, TruthInv, NEW c \in Connections, AnswerOtherwise(c)
  PROVE  TruthInv'
  <1>1. PICK outcome \in {"UNKNOWN", "FAILED"} : Answer(c, outcome)
    BY DEF AnswerOtherwise
  <1>2. Received(outcome) \in {"UNKNOWN", "FAILED"}
    BY DEF Received
  <1>3. request' = [request EXCEPT ![c] =
                      Answered(request[c].order, request[c].row, Received(outcome))]
        /\ UNCHANGED <<saga, calls, participants>>
    BY <1>1 DEF Answer, AnswerOtherwise
  <1> PICK r : r = Answered(request[c].order, request[c].row, Received(outcome))
    OBVIOUS
  <1>4. r.outcome \in {"UNKNOWN", "FAILED"}
    BY <1>2 DEF Answered
  <1> QED
    BY <1>3, <1>4, MoveIsTrue

LEMMA TakeLockIsTrue ==
  ASSUME LockInv, TruthInv, NEW c \in Connections, NEW o \in Orders, TakeLock(c, o)
  PROVE  TruthInv'
  <1>1. UNCHANGED <<saga, calls, participants>>
        /\ request' = [request EXCEPT ![c] = Locking(o)]
    BY DEF TakeLock
  <1>2. Locking(o).phase # "answered"
    BY DEF Locking
  <1> QED
    BY <1>1, <1>2, MoveIsTrue

(* What a result that a request goes by says.                               *)
LEMMA ToldBy ==
  ASSUME LockInv, TruthInv, NEW c \in Connections, NEW status,
         NEW outcome \in {"SUCCEEDED", "REJECTED"}, Result(c, status, {outcome}),
         NEW o, o = request[c].order, NEW row, row = request[c].row
  PROVE  /\ o \in Orders /\ row = saga[o]
         /\ row \in Row /\ row.status = status /\ Consistent(row)
         /\ NextOperation(row) # None /\ NextOperation(row) \in Operations
         /\ outcome = "REJECTED" => NextOperation(row) \in P!Rejectable
         /\ P!Says(NextOperation(row), outcome) \in Said(o)[Owner(NextOperation(row))]
         /\ RowTrue(row, Sent(o), Said(o))
  <1>1. /\ o \in Orders /\ row = saga[o]
        /\ row \in Row /\ row.status = status /\ Consistent(row)
        /\ NextOperation(row) # None
        /\ outcome = "REJECTED" => NextOperation(row) \in P!Rejectable
    BY ResultFacts, WorkingFacts DEF Result
  <1>2. NextOperation(row) \in Operations
    BY <1>1, NextIsOperation, RowsTyped
  <1>3. P!Says(NextOperation(row), outcome) \in Said(o)[Owner(NextOperation(row))]
    BY DEF TruthInv, ResultTrue, Result, InPhase
  <1> QED
    BY <1>1, <1>2, <1>3 DEF TruthInv, OrderTrue

(* The steps of which a participant of the order said the word.             *)
SaidOf(o, word) == {step \in StepNames : word \in Said(o)[ServiceOf[step]]}

LEMMA SaidSteps ==
  ASSUME NEW o, NEW s, NEW sent, ProgressTyped(s), RowTrue(s, sent, Said(o))
  PROVE  /\ \A i \in DOMAIN s.completedSteps : s.completedSteps[i] \in SaidOf(o, "DONE")
         /\ \A i \in DOMAIN s.compensatedSteps : s.compensatedSteps[i] \in SaidOf(o, "UNDONE")
  BY ElementOfSeq DEF ProgressTyped, RowTrue, SaidOf

LEMMA TurnAroundIsTrue ==
  ASSUME LockInv, TruthInv, NEW c \in Connections, TurnAround(c)
  PROVE  TruthInv'
  <1> PICK o, row : o = request[c].order /\ row = request[c].row
    OBVIOUS
  <1> DEFINE status == IF row.completedSteps = <<>> THEN "FAILED" ELSE "COMPENSATING"
             t == [row EXCEPT !.status = status]
  <1>1. Result(c, "IN_PROGRESS", {"REJECTED"}) /\ UNCHANGED <<calls, participants>>
        /\ (Stop(c, t) \/ Continue(c, t))
    BY DEF TurnAround, Stop, Continue
  <1>2. /\ o \in Orders /\ row \in Row /\ row.status = "IN_PROGRESS" /\ Consistent(row)
        /\ NextOperation(row) \in P!Rejectable
        /\ P!Says(NextOperation(row), "REJECTED") \in Said(o)[Owner(NextOperation(row))]
        /\ NextOperation(row) \in Operations
        /\ RowTrue(row, Sent(o), Said(o))
    BY <1>1, ToldBy
  <1>3. saga' = [saga EXCEPT ![o] = t]
    BY TurnAroundWrites DEF Writes
  <1>4. /\ t.status \in {"FAILED", "COMPENSATING"}
        /\ t.completedSteps = row.completedSteps
        /\ t.currentOperation = row.currentOperation
        /\ t.compensatedSteps = <<>> /\ row.compensatedSteps = <<>>
        /\ NextOperation(row) = row.currentOperation
    BY <1>2, TurnedRow, ForwardRow
  <1>5. "REFUSED" \in Said(o)[Owner(row.currentOperation)]
    BY <1>2, <1>4, Vocabulary
  <1> HIDE DEF t
  <1>6. RowTrue(t, Sent(o), Said(o))
    BY <1>2, <1>4, <1>5 DEF RowTrue
  <1> QED
    BY <1>1, <1>2, <1>3, <1>6, WriteIsTrue

LEMMA AdvanceIsTrue ==
  ASSUME LockInv, TruthInv, NEW c \in Connections, Advance(c)
  PROVE  TruthInv'
  <1> PICK o, row : o = request[c].order /\ row = request[c].row
    OBVIOUS
  <1> DEFINE step == StepFor[row.currentOperation]
             t == [row EXCEPT !.completedSteps = Append(@, StepFor[row.currentOperation]),
                              !.currentOperation = Successor[row.currentOperation]]
  <1>1. /\ Result(c, "IN_PROGRESS", {"SUCCEEDED"}) /\ UNCHANGED <<calls, participants>>
        /\ row.currentOperation # "FINALIZE_INVENTORY" /\ Continue(c, t)
    BY DEF Advance, Continue
  <1>2. /\ o \in Orders /\ row \in Row /\ row.status = "IN_PROGRESS" /\ Consistent(row)
        /\ P!Says(NextOperation(row), "SUCCEEDED") \in Said(o)[Owner(NextOperation(row))]
        /\ NextOperation(row) \in Operations
        /\ RowTrue(row, Sent(o), Said(o))
    BY <1>1, ToldBy
  <1>3. saga' = [saga EXCEPT ![o] = t]
    BY AdvanceWrites DEF Writes
  <1>4. /\ t.status = "IN_PROGRESS"
        /\ t.completedSteps = Append(row.completedSteps, step)
        /\ t.currentOperation = Successor[row.currentOperation]
        /\ t.compensatedSteps = <<>>
        /\ NextOperation(row) = row.currentOperation
        /\ row.currentOperation \in ForwardOperations
    BY <1>1, <1>2, AdvancedRow, ForwardRow
  <1>5. step \in SaidOf(o, "DONE")
    <2>1. step \in StepNames
      BY <1>4, Tables
    <2> QED
      BY <1>1, <1>2, <1>4, <2>1, Vocabulary, OwnerTable DEF SaidOf
  <1>6. \A i \in DOMAIN row.completedSteps : row.completedSteps[i] \in SaidOf(o, "DONE")
    BY <1>2, RowsTyped, SaidSteps
  <1> HIDE DEF t, step
  <1>7. \A i \in DOMAIN t.completedSteps : t.completedSteps[i] \in SaidOf(o, "DONE")
    <2>1. step \in StepNames /\ row.completedSteps \in Seq(StepNames)
      BY <1>2, <1>5 DEF SaidOf, Row
    <2> QED
      BY <1>4, <1>5, <1>6, <2>1, LongerAllTrue
  <1>8. Sent(o) \subseteq UpTo[t.currentOperation]
    BY <1>1, <1>2, <1>4, UpToTable DEF RowTrue
  <1>9. RowTrue(t, Sent(o), Said(o))
    BY <1>4, <1>7, <1>8 DEF RowTrue, SaidOf
  <1> QED
    BY <1>1, <1>2, <1>3, <1>9, WriteIsTrue

LEMMA CompleteIsTrue ==
  ASSUME LockInv, TruthInv, NEW c \in Connections, Complete(c)
  PROVE  TruthInv'
  <1> PICK o, row : o = request[c].order /\ row = request[c].row
    OBVIOUS
  <1> DEFINE t == [row EXCEPT !.status = "COMPLETED", !.inventoryFinalized = TRUE]
  <1>1. /\ Result(c, "IN_PROGRESS", {"SUCCEEDED"}) /\ UNCHANGED <<calls, participants>>
        /\ row.currentOperation = "FINALIZE_INVENTORY" /\ Stop(c, t)
    BY DEF Complete, Stop
  <1>2. /\ o \in Orders /\ row \in Row /\ row.status = "IN_PROGRESS" /\ Consistent(row)
        /\ P!Says(NextOperation(row), "SUCCEEDED") \in Said(o)[Owner(NextOperation(row))]
        /\ NextOperation(row) \in Operations
        /\ RowTrue(row, Sent(o), Said(o))
    BY <1>1, ToldBy
  <1>3. saga' = [saga EXCEPT ![o] = t]
    BY CompleteWrites DEF Writes
  <1>4. /\ t.status = "COMPLETED"
        /\ t.completedSteps = row.completedSteps
        /\ t.currentOperation = row.currentOperation
        /\ t.compensatedSteps = <<>>
        /\ NextOperation(row) = row.currentOperation
    BY <1>1, <1>2, CompletedRow, ForwardRow
  <1>5. "FINAL" \in Said(o)["inventory"]
    BY <1>1, <1>2, <1>4, Vocabulary, OwnerTable
  <1> HIDE DEF t
  <1>6. RowTrue(t, Sent(o), Said(o))
    BY <1>2, <1>4, <1>5 DEF RowTrue
  <1> QED
    BY <1>1, <1>2, <1>3, <1>6, WriteIsTrue

LEMMA CompensateIsTrue ==
  ASSUME LockInv, TruthInv, NEW c \in Connections, Compensate(c)
  PROVE  TruthInv'
  <1> PICK o, row : o = request[c].order /\ row = request[c].row
    OBVIOUS
  <1> DEFINE t == [row EXCEPT !.compensatedSteps = Append(@, NextUndo(row))]
  <1>1. /\ Result(c, "COMPENSATING", {"SUCCEEDED"}) /\ UNCHANGED <<calls, participants>>
        /\ Continue(c, t)
    BY DEF Compensate, Continue
  <1>2. /\ o \in Orders /\ row \in Row /\ row.status = "COMPENSATING" /\ Consistent(row)
        /\ P!Says(NextOperation(row), "SUCCEEDED") \in Said(o)[Owner(NextOperation(row))]
        /\ NextOperation(row) \in Operations /\ NextOperation(row) # None
        /\ RowTrue(row, Sent(o), Said(o))
    BY <1>1, ToldBy
  <1>3. saga' = [saga EXCEPT ![o] = t]
    BY CompensateWrites DEF Writes
  <1>4. /\ t.status = "COMPENSATING"
        /\ t.completedSteps = row.completedSteps
        /\ t.currentOperation = row.currentOperation
        /\ NextUndo(row) \in StepNames
        /\ NextOperation(row) = ReverseOperation[NextUndo(row)]
        /\ t.compensatedSteps = Append(row.compensatedSteps, NextUndo(row))
    BY <1>2, CompensatedRow
  <1>5. NextUndo(row) \in SaidOf(o, "UNDONE")
    BY <1>2, <1>4, Vocabulary, StepVocabulary DEF SaidOf
  <1>6. \A i \in DOMAIN row.compensatedSteps : row.compensatedSteps[i] \in SaidOf(o, "UNDONE")
    BY <1>2, RowsTyped, SaidSteps
  <1> HIDE DEF t
  <1>7. \A i \in DOMAIN t.compensatedSteps : t.compensatedSteps[i] \in SaidOf(o, "UNDONE")
    <2>1. row.compensatedSteps \in Seq(StepNames)
      BY <1>2 DEF Row
    <2> QED
      BY <1>4, <1>5, <1>6, <2>1, LongerAllTrue
  <1>8. RowTrue(t, Sent(o), Said(o))
    BY <1>2, <1>4, <1>7 DEF RowTrue, SaidOf
  <1> QED
    BY <1>1, <1>2, <1>3, <1>8, WriteIsTrue

LEMMA CloseIsTrue ==
  ASSUME LockInv, TruthInv, NEW c \in Connections, Close(c)
  PROVE  TruthInv'
  <1> PICK o, row : o = request[c].order /\ row = request[c].row
    OBVIOUS
  <1> DEFINE t == [row EXCEPT !.status = "FAILED"]
  <1>1. /\ request[c].phase \in WorkPhases /\ UNCHANGED <<calls, participants>>
        /\ row.status = "COMPENSATING" /\ Undone(row) /\ Stop(c, t)
    BY DEF Close, InPhase, WorkPhases, Stop
  <1>2. o \in Orders /\ row \in Row /\ Consistent(row) /\ RowTrue(row, Sent(o), Said(o))
    BY <1>1, WorkingFacts DEF TruthInv, OrderTrue
  <1>3. saga' = [saga EXCEPT ![o] = t]
    BY CloseWrites DEF Writes
  <1>4. /\ t.status = "FAILED"
        /\ t.completedSteps = row.completedSteps
        /\ t.currentOperation = row.currentOperation
        /\ t.compensatedSteps = row.compensatedSteps
    BY <1>1, <1>2, ClosedRow
  <1> HIDE DEF t
  <1>5. RowTrue(t, Sent(o), Said(o))
    BY <1>1, <1>2, <1>4 DEF RowTrue
  <1> QED
    BY <1>1, <1>2, <1>3, <1>5, WriteIsTrue

LEMMA StopInDoubtIsTrue ==
  ASSUME LockInv, TruthInv, NEW c \in Connections, StopInDoubt(c)
  PROVE  TruthInv'
  <1> PICK o, row : o = request[c].order /\ row = request[c].row
    OBVIOUS
  <1>1. /\ request[c].phase \in WorkPhases /\ UNCHANGED <<calls, participants>>
        /\ Stop(c, row)
    BY DEF StopInDoubt, Result, InPhase, WorkPhases, Stop
  <1>2. o \in Orders /\ RowTrue(row, Sent(o), Said(o))
    BY <1>1, WorkingFacts DEF TruthInv, OrderTrue
  <1>3. saga' = [saga EXCEPT ![o] = row]
    BY StopInDoubtWrites DEF Writes
  <1> QED
    BY <1>1, <1>2, <1>3, WriteIsTrue

-----------------------------------------------------------------------------
(* The theorem of truth.                                                   *)

LEMMA InitIsTrue == Init => TruthInv
  <1> SUFFICES ASSUME Init PROVE TruthInv
    OBVIOUS
  <1>1. /\ effect = [service \in Services |-> [o \in Orders |-> "none"]]
        /\ told = [service \in Services |-> [o \in Orders |-> {}]]
        /\ calls = {}
    BY DEF Init, P!Init, P!Services, Services
  <1>2. ParticipantsOK
    BY <1>1 DEF ParticipantsOK, Effects
  <1>3. ASSUME NEW o \in Orders PROVE OrderTrue(o)
    <2>1. Sent(o) = {}
      BY <1>1 DEF Sent
    <2>2. /\ saga[o].status = "ABSENT"
          /\ saga[o].completedSteps = <<>> /\ saga[o].compensatedSteps = <<>>
      BY DEF Init, NewRow
    <2>3. RowTrue(saga[o], {}, Said(o))
      BY <2>2 DEF RowTrue
    <2>4. \A service \in Services : ServiceTrue(service, effect[service][o], told[service][o], {})
      BY <1>1 DEF ServiceTrue, Effects
    <2> QED
      BY <2>1, <2>3, <2>4 DEF OrderTrue
  <1>4. \A c \in Connections : ResultTrue(request[c])
    BY DEF Init, Idle, ResultTrue
  <1> QED
    BY <1>2, <1>3, <1>4 DEF TruthInv

LEMMA NextIsTrue == LockInv /\ TruthInv /\ [Next]_vars => TruthInv'
  <1> SUFFICES ASSUME LockInv, TruthInv, [Next]_vars PROVE TruthInv'
    OBVIOUS
  <1>1. ASSUME NEW o \in Orders, Accept(o) PROVE TruthInv'
    BY <1>1, AcceptIsTrue
  <1>2. ASSUME NEW o \in Orders, NEW c \in Connections, TakeLock(c, o) PROVE TruthInv'
    BY <1>2, TakeLockIsTrue
  <1>3. ASSUME NEW c \in Connections, Read(c) \/ Leave(c) \/ Die(c) PROVE TruthInv'
    BY <1>3, ReadIsTrue DEF Leave, Die
  <1>4. ASSUME NEW c \in Connections, Decide(c) PROVE TruthInv'
    BY <1>4, DispatchIsTrue, CloseIsTrue DEF Decide
  <1>5. ASSUME NEW c \in Connections, AnswerDefinitively(c) \/ AnswerOtherwise(c) PROVE TruthInv'
    BY <1>5, DefinitivelyIsTrue, OtherwiseIsTrue
  <1>6. ASSUME NEW c \in Connections, Apply(c) PROVE TruthInv'
    BY <1>6, TurnAroundIsTrue, AdvanceIsTrue, CompleteIsTrue, CompensateIsTrue DEF Apply
  <1>7. ASSUME NEW c \in Connections, StopInDoubt(c) PROVE TruthInv'
    BY <1>7, StopInDoubtIsTrue
  <1>8. ASSUME NEW x \in calls, Execute(x) PROVE TruthInv'
    BY <1>8, ExecuteIsTrue
  <1>9. CASE UNCHANGED vars
    <2>1. \A p \in Orders : RowTrue(saga'[p], Sent(p)', Said(p))
      BY <1>9 DEF vars, Sent, TruthInv, OrderTrue
    <2> QED
      BY <1>9, <2>1, OwnStepIsTrue DEF vars, TruthInv, ParticipantsOK
  <1> QED
    BY <1>1, <1>2, <1>3, <1>4, <1>5, <1>6, <1>7, <1>8, <1>9 DEF Next

LEMMA EndingsFollow == LockInv /\ TruthInv => EndingsTrue
  <1> SUFFICES ASSUME LockInv, TruthInv, NEW o \in Orders
               PROVE  /\ saga[o].status = "COMPLETED" =>
                           /\ effect["payment"][o] = "done"
                           /\ effect["inventory"][o] = "final"
                           /\ effect["shipping"][o] = "done"
                      /\ saga[o].status = "FAILED" =>
                           \A service \in Services :
                             effect[service][o] \in {"none", "void", "undone"}
    BY DEF EndingsTrue
  <1> DEFINE far == [service \in Services |-> effect[service][o]]
  <1>1. RowTrue(saga[o], Sent(o), Said(o))
    BY DEF TruthInv, OrderTrue
  <1>2. \A service \in Services :
          ServiceTrue(service, far[service], Said(o)[service], Sent(o))
    BY DEF TruthInv, OrderTrue, Said
  <1>3. saga[o].currentOperation \in ForwardOperations /\ Progress(saga[o])
    BY DEF LockInv, Row
  <1> HIDE DEF far
  <1>4. CASE saga[o].status = "COMPLETED"
    <2>1. far["payment"] = "done" /\ far["inventory"] = "final" /\ far["shipping"] = "done"
      BY <1>1, <1>2, <1>3, <1>4, CompletedHoldsAll DEF Progress
    <2> QED
      BY <1>4, <2>1 DEF far, Services
  <1>5. CASE saga[o].status = "FAILED"
    <2>1. \A service \in Services : far[service] \in {"none", "void", "undone"}
      BY <1>1, <1>2, <1>3, <1>5, FailedHoldsNone DEF Progress
    <2> QED
      BY <1>5, <2>1 DEF far
  <1> QED
    BY <1>4, <1>5

(* The rows, the requests that go by them, the calls they made and what was *)
(* told of those belong together.                                           *)
THEOREM Invariance == Spec => [](LockInv /\ TruthInv)
  <1> QED
    BY InitLockInv, InitIsTrue, NextLockInv, NextIsTrue, PTL DEF Spec

(* A COMPLETED order is paid, shipped and its stock taken; a FAILED one     *)
(* holds nothing, whatever call of a request long gone is still executed.   *)
THEOREM EndingsAreTrue == Spec => []EndingsTrue
  <1> QED
    BY Invariance, EndingsFollow, PTL

-----------------------------------------------------------------------------
(* The abstract saga.                                                      *)

(* A row as the abstract saga sees it.                                      *)
View(s) == [s EXCEPT !.status = SagaStatus(s)]

LEMMA ViewFacts ==
  ASSUME NEW s \in Row
  PROVE  View(s).status = SagaStatus(s) /\ Held(View(s)) = Held(s)
  BY DEF View, Row, Held

LEMMA RowStepIsAbstract ==
  ASSUME saga \in [Orders -> Row], NEW o \in Orders, NEW t \in Row,
         saga' = [saga EXCEPT ![o] = t], RowStep(View(saga[o]), View(t))
  PROVE  [Abstract!Next]_(Abstract!vars)
  <1> DEFINE status == [p \in Orders |-> SagaStatus(saga[p])]
             held == [p \in Orders |-> Held(saga[p])]
             statusNext == [p \in Orders |-> SagaStatus(saga'[p])]
             heldNext == [p \in Orders |-> Held(saga'[p])]
  <1> PICK from, to : from = View(saga[o]) /\ to = View(t)
    OBVIOUS
  <1>1. /\ status = [status EXCEPT ![o] = status[o]] /\ held = [held EXCEPT ![o] = held[o]]
        /\ \A p \in Orders : saga'[p] = IF p = o THEN t ELSE saga[p]
    OBVIOUS
  <1>2. /\ from.status = status[o] /\ Held(from) = held[o]
        /\ statusNext = [status EXCEPT ![o] = to.status]
        /\ heldNext = [held EXCEPT ![o] = Held(to)]
        /\ RowStep(from, to)
    BY <1>1, ViewFacts
  <1> HIDE DEF status, held, statusNext, heldNext
  <1>4. CASE Keeps(from, to)
    <2>1. statusNext = status /\ heldNext = held
      BY <1>1, <1>2, <1>4 DEF Keeps
    <2> QED
      BY <2>1 DEF Abstract!vars, status, held, statusNext, heldNext
  <1>5. CASE Opens(from, to)
    <2>1. Abstract!Move(o, "ABSENT", to.status)
      BY <1>2, <1>5 DEF Opens, Abstract!Move, status, statusNext
    <2>2. to.status \in {"PENDING_PAYMENT", "IN_PROGRESS"} /\ heldNext = held
      BY <1>1, <1>2, <1>5 DEF Opens
    <2>3. Abstract!Accept(o)
      BY <2>1, <2>2 DEF Abstract!Accept, held, heldNext
    <2> QED
      BY <2>3 DEF Abstract!Next
  <1>6. CASE Confirms(from, to)
    <2>1. Abstract!ConfirmPayment(o)
      BY <1>2, <1>6
         DEF Confirms, Abstract!ConfirmPayment, Abstract!Move, status, held, statusNext, heldNext
    <2> QED
      BY <2>1 DEF Abstract!Next
  <1>7. CASE Advances(from, to)
    <2>1. Abstract!Advance(o)
      BY <1>2, <1>7
         DEF Advances, Abstract!Advance, Abstract!Move, Abstract!Steps, Steps, status, held,
             statusNext, heldNext
    <2> QED
      BY <2>1 DEF Abstract!Next
  <1>8. CASE Completes(from, to)
    <2>1. Abstract!Complete(o)
      BY <1>2, <1>8
         DEF Completes, Abstract!Complete, Abstract!Move, Abstract!Steps, Steps, status, held,
             statusNext, heldNext
    <2> QED
      BY <2>1 DEF Abstract!Next
  <1>9. CASE Rejects(from, to)
    <2>1. Abstract!Reject(o)
      BY <1>2, <1>9
         DEF Rejects, Abstract!Reject, Abstract!Move, Abstract!Steps, Steps, status, held,
             statusNext, heldNext
    <2> QED
      BY <2>1 DEF Abstract!Next
  <1>10. CASE Undoes(from, to)
    <2>1. Abstract!Undo(o)
      BY <1>2, <1>10
         DEF Undoes, Abstract!Undo, Abstract!Move, status, held, statusNext, heldNext
    <2> QED
      BY <2>1 DEF Abstract!Next
  <1> QED
    BY <1>2, <1>4, <1>5, <1>6, <1>7, <1>8, <1>9, <1>10 DEF RowStep

LEMMA KeptRowsAreAbstract ==
  ASSUME saga' = saga
  PROVE  [Abstract!Next]_(Abstract!vars)
  BY DEF Abstract!vars

(* What a row that is being undone still holds.                             *)
LEMMA HeldLength ==
  ASSUME NEW row \in Row, ConsistentCompensation(row)
  PROVE  /\ Len(row.compensatedSteps) \in 0..Len(row.completedSteps)
         /\ Len(Held(row)) = Len(row.completedSteps) - Len(row.compensatedSteps)
         /\ Undone(row) <=> Len(Held(row)) = 0
         /\ Undone(row) <=> Held(row) = <<>>
  <1> DEFINE c == row.completedSteps
             k == Len(row.compensatedSteps)
             undo == UndoAfter[row.currentOperation]
  <1>1. /\ c \in Seq(StepNames) /\ row.compensatedSteps \in Seq(StepNames)
        /\ row.currentOperation \in ForwardOperations
    BY DEF Row
  <1>2. undo # <<>> /\ c = CompletedBefore[row.currentOperation] /\ k <= Len(undo)
    BY DEF ConsistentCompensation
  <1>3. Len(undo) = Len(c) /\ k \in Nat /\ Len(c) \in Nat
    BY <1>1, <1>2, ForwardTables, LenProperties
  <1>4. Held(row) = SubSeq(c, 1, Len(c) - k)
    BY DEF Held
  <1>5. Undone(row) <=> k >= Len(undo)
    BY DEF Undone
  <1> HIDE DEF c, k, undo
  <1>6. CASE k = Len(c)
    <2>1. Held(row) = <<>>
      BY <1>1, <1>3, <1>4, <1>6, SubSeqEmpty
    <2>2. Len(<<>>) = 0
      OBVIOUS
    <2> QED
      BY <1>2, <1>3, <1>5, <1>6, <2>1, <2>2 DEF c, k
  <1>7. CASE k # Len(c)
    <2>1. Len(c) - k \in 1..Len(c)
      BY <1>2, <1>3, <1>7
    <2>2. Len(Held(row)) = Len(c) - k
      BY <1>1, <1>4, <2>1, ShorterPrefix
    <2>3. Held(row) # <<>>
      <3>1. Len(<<>>) = 0
        OBVIOUS
      <3> QED
        BY <2>1, <2>2, <3>1
    <2> QED
      BY <1>2, <1>3, <1>5, <1>7, <2>1, <2>2, <2>3 DEF c, k
  <1> QED
    BY <1>6, <1>7

(* A forward row holds what is complete, and is what it says it is.         *)
LEMMA ForwardView ==
  ASSUME NEW row \in Row, row.status # "COMPENSATING", row.compensatedSteps = <<>>
  PROVE  View(row).status = row.status /\ Held(View(row)) = row.completedSteps
  BY ViewFacts, HeldForward DEF SagaStatus, Row

LEMMA AcceptIsAbstract ==
  ASSUME LockInv, NEW o \in Orders, Accept(o)
  PROVE  [Abstract!Next]_(Abstract!vars)
  <1>1. PICK status \in {"PENDING_PAYMENT", "IN_PROGRESS"} :
          saga' = [saga EXCEPT ![o] = NewRow(status)]
    BY DEF Accept
  <1>2. /\ saga \in [Orders -> Row] /\ saga[o] \in Row /\ saga[o].status = "ABSENT"
        /\ saga[o].completedSteps = <<>> /\ saga[o].compensatedSteps = <<>>
    BY DEF Accept, LockInv, Progress
  <1>3. /\ NewRow(status) \in Row /\ NewRow(status).status = status
        /\ NewRow(status).completedSteps = <<>> /\ NewRow(status).compensatedSteps = <<>>
    BY NewRowFacts
  <1>4. RowStep(View(saga[o]), View(NewRow(status)))
    BY <1>2, <1>3, ForwardView DEF RowStep, Opens
  <1> QED
    BY <1>1, <1>2, <1>3, <1>4, RowStepIsAbstract

LEMMA TurnAroundIsAbstract ==
  ASSUME LockInv, NEW c \in Connections, TurnAround(c)
  PROVE  [Abstract!Next]_(Abstract!vars)
  <1> PICK o, row : o = request[c].order /\ row = request[c].row
    OBVIOUS
  <1> DEFINE status == IF row.completedSteps = <<>> THEN "FAILED" ELSE "COMPENSATING"
             t == [row EXCEPT !.status = status]
  <1>1. Result(c, "IN_PROGRESS", {"REJECTED"})
    BY DEF TurnAround
  <1>2. /\ o \in Orders /\ row = saga[o] /\ saga \in [Orders -> Row]
        /\ row \in Row /\ row.status = "IN_PROGRESS" /\ Consistent(row)
        /\ NextOperation(row) \in P!Rejectable
    BY <1>1, ResultFacts, WorkingFacts DEF LockInv, Result
  <1>3. saga' = [saga EXCEPT ![o] = t]
    BY TurnAroundWrites DEF Writes
  <1>4. /\ t \in Row /\ t.status = status
        /\ t.completedSteps = row.completedSteps /\ t.compensatedSteps = <<>>
        /\ row.compensatedSteps = <<>>
        /\ row.currentOperation \in ForwardOperations
        /\ row.currentOperation # "FINALIZE_INVENTORY"
        /\ row.completedSteps = CompletedBefore[row.currentOperation]
    BY <1>2, TurnedRow, ForwardRow DEF P!Rejectable
  <1>5. row.completedSteps # Steps
    BY <1>4, ForwardTables
  <1> HIDE DEF t
  <1>6. /\ View(row).status = "IN_PROGRESS" /\ Held(View(row)) = row.completedSteps
    BY <1>2, <1>4, ForwardView
  <1>7. View(t).status = status /\ Held(View(t)) = row.completedSteps
    <2>1. Held(t) = row.completedSteps
      BY <1>4, HeldForward DEF Row
    <2> QED
      BY <1>4, <2>1, ViewFacts DEF SagaStatus
  <1>8. RowStep(View(row), View(t))
    BY <1>5, <1>6, <1>7 DEF RowStep, Rejects
  <1> QED
    BY <1>2, <1>3, <1>4, <1>8, RowStepIsAbstract

LEMMA AdvanceIsAbstract ==
  ASSUME LockInv, NEW c \in Connections, Advance(c)
  PROVE  [Abstract!Next]_(Abstract!vars)
  <1> PICK o, row : o = request[c].order /\ row = request[c].row
    OBVIOUS
  <1> DEFINE t == [row EXCEPT !.completedSteps = Append(@, StepFor[row.currentOperation]),
                              !.currentOperation = Successor[row.currentOperation]]
  <1>1. /\ Result(c, "IN_PROGRESS", {"SUCCEEDED"})
        /\ row.currentOperation # "FINALIZE_INVENTORY"
    BY DEF Advance
  <1>2. /\ o \in Orders /\ row = saga[o] /\ saga \in [Orders -> Row]
        /\ row \in Row /\ row.status = "IN_PROGRESS" /\ Consistent(row)
    BY <1>1, ResultFacts, WorkingFacts DEF LockInv
  <1>3. saga' = [saga EXCEPT ![o] = t]
    BY AdvanceWrites DEF Writes
  <1>4. /\ t \in Row /\ t.status = "IN_PROGRESS" /\ t.compensatedSteps = <<>>
        /\ t.completedSteps = Append(row.completedSteps, StepFor[row.currentOperation])
    BY <1>1, <1>2, AdvancedRow
  <1>5. /\ row.compensatedSteps = <<>> /\ row.currentOperation \in ForwardOperations
        /\ row.completedSteps = CompletedBefore[row.currentOperation]
    BY <1>2, ForwardRow
  <1>6. /\ row.completedSteps # Steps
        /\ Steps[Len(row.completedSteps) + 1] = StepFor[row.currentOperation]
    BY <1>1, <1>5, ForwardTables
  <1> HIDE DEF t
  <1>7. /\ View(row).status = "IN_PROGRESS" /\ Held(View(row)) = row.completedSteps
        /\ View(t).status = "IN_PROGRESS" /\ Held(View(t)) = t.completedSteps
    BY <1>2, <1>4, <1>5, ForwardView
  <1>8. RowStep(View(row), View(t))
    BY <1>4, <1>6, <1>7 DEF RowStep, Advances
  <1> QED
    BY <1>2, <1>3, <1>4, <1>8, RowStepIsAbstract

LEMMA CompleteIsAbstract ==
  ASSUME LockInv, NEW c \in Connections, Complete(c)
  PROVE  [Abstract!Next]_(Abstract!vars)
  <1> PICK o, row : o = request[c].order /\ row = request[c].row
    OBVIOUS
  <1> DEFINE t == [row EXCEPT !.status = "COMPLETED", !.inventoryFinalized = TRUE]
  <1>1. /\ Result(c, "IN_PROGRESS", {"SUCCEEDED"})
        /\ row.currentOperation = "FINALIZE_INVENTORY"
    BY DEF Complete
  <1>2. /\ o \in Orders /\ row = saga[o] /\ saga \in [Orders -> Row]
        /\ row \in Row /\ row.status = "IN_PROGRESS" /\ Consistent(row)
    BY <1>1, ResultFacts, WorkingFacts DEF LockInv
  <1>3. saga' = [saga EXCEPT ![o] = t]
    BY CompleteWrites DEF Writes
  <1>4. /\ t \in Row /\ t.status = "COMPLETED" /\ t.compensatedSteps = <<>>
        /\ t.completedSteps = row.completedSteps
    BY <1>1, <1>2, CompletedRow
  <1>5. row.compensatedSteps = <<>> /\ row.completedSteps = Steps
    BY <1>1, <1>2, ForwardRow DEF CompletedBefore
  <1> HIDE DEF t
  <1>6. /\ View(row).status = "IN_PROGRESS" /\ Held(View(row)) = Steps
        /\ View(t).status = "COMPLETED" /\ Held(View(t)) = Steps
    BY <1>2, <1>4, <1>5, ForwardView
  <1>7. RowStep(View(row), View(t))
    BY <1>6 DEF RowStep, Completes
  <1> QED
    BY <1>2, <1>3, <1>4, <1>7, RowStepIsAbstract

LEMMA CompensateIsAbstract ==
  ASSUME LockInv, NEW c \in Connections, Compensate(c)
  PROVE  [Abstract!Next]_(Abstract!vars)
  <1> PICK o, row : o = request[c].order /\ row = request[c].row
    OBVIOUS
  <1> DEFINE t == [row EXCEPT !.compensatedSteps = Append(@, NextUndo(row))]
             k == Len(row.compensatedSteps)
             n == Len(row.completedSteps)
  <1>1. Result(c, "COMPENSATING", {"SUCCEEDED"})
    BY DEF Compensate
  <1>2. /\ o \in Orders /\ row = saga[o] /\ saga \in [Orders -> Row]
        /\ row \in Row /\ row.status = "COMPENSATING" /\ Consistent(row)
        /\ NextOperation(row) # None
    BY <1>1, ResultFacts, WorkingFacts DEF LockInv
  <1>3. saga' = [saga EXCEPT ![o] = t]
    BY CompensateWrites DEF Writes
  <1>4. /\ t \in Row /\ t.status = "COMPENSATING" /\ Progress(t)
        /\ t.completedSteps = row.completedSteps /\ NextUndo(row) \in StepNames
        /\ t.compensatedSteps = Append(row.compensatedSteps, NextUndo(row))
    BY <1>2, CompensatedRow
  <1>5. /\ ConsistentCompensation(row) /\ ~Undone(row)
        /\ ConsistentCompensation(t)
    BY <1>2, <1>4 DEF Consistent, NextOperation, Progress, Active
  <1>6. Len(t.compensatedSteps) = k + 1
    BY <1>2, <1>4 DEF Row
  <1> HIDE DEF t
  <1>7. /\ k \in 0..n /\ Len(Held(row)) = n - k /\ Held(row) # <<>>
        /\ Len(Held(t)) = n - (k + 1)
        /\ (Held(t) = <<>>) <=> (Len(Held(t)) = 0)
        /\ n \in Nat /\ row.completedSteps \in Seq(StepNames)
    <2>1. row.completedSteps \in Seq(StepNames)
      BY <1>2 DEF Row
    <2> QED
      BY <1>2, <1>4, <1>5, <1>6, <2>1, HeldLength, LenProperties
  <1>8. Held(t) = SubSeq(Held(row), 1, Len(Held(row)) - 1)
    <2>1. /\ Held(row) = SubSeq(row.completedSteps, 1, n - k)
          /\ Held(t) = SubSeq(row.completedSteps, 1, n - (k + 1))
      BY <1>4, <1>6 DEF Held
    <2>2. Len(Held(row)) # 0
      BY <1>2, <1>5, HeldLength
    <2> HIDE DEF k, n
    <2>3. n - k \in 1..n /\ n - (k + 1) = (n - k) - 1
      BY <1>7, <2>2
    <2> QED
      BY <1>7, <2>1, <2>3, ShorterPrefix DEF n
  <1>9. /\ View(row).status = "COMPENSATING" /\ Held(View(row)) = Held(row)
        /\ View(t).status = IF Len(Held(row)) = 1 THEN "FAILED" ELSE "COMPENSATING"
        /\ Held(View(t)) = Held(t)
    <2>1. (Held(t) = <<>>) <=> (Len(Held(row)) = 1)
      <3> HIDE DEF k, n
      <3> QED
        BY <1>7
    <2> QED
      BY <1>2, <1>4, <1>7, <2>1, ViewFacts DEF SagaStatus
  <1>10. RowStep(View(row), View(t))
    BY <1>8, <1>9 DEF RowStep, Undoes
  <1> QED
    BY <1>2, <1>3, <1>4, <1>10, RowStepIsAbstract

(* Once everything is undone the abstract saga has failed already.          *)
LEMMA CloseIsAbstract ==
  ASSUME LockInv, NEW c \in Connections, Close(c)
  PROVE  [Abstract!Next]_(Abstract!vars)
  <1> PICK o, row : o = request[c].order /\ row = request[c].row
    OBVIOUS
  <1> DEFINE t == [row EXCEPT !.status = "FAILED"]
  <1>1. /\ request[c].phase \in WorkPhases
        /\ row.status = "COMPENSATING" /\ Undone(row) /\ ConsistentCompensation(row)
    BY DEF Close, InPhase, WorkPhases
  <1>2. /\ o \in Orders /\ row = saga[o] /\ saga \in [Orders -> Row]
        /\ row \in Row /\ Consistent(row)
    BY <1>1, WorkingFacts DEF LockInv
  <1>3. saga' = [saga EXCEPT ![o] = t]
    BY CloseWrites DEF Writes
  <1>4. /\ t \in Row /\ t.status = "FAILED"
        /\ Held(t) = Held(row) /\ Held(row) = <<>>
    BY <1>1, <1>2, ClosedRow, HeldLength DEF Held
  <1> HIDE DEF t
  <1>5. RowStep(View(row), View(t))
    BY <1>1, <1>2, <1>4, ViewFacts DEF SagaStatus, RowStep, Keeps
  <1> QED
    BY <1>2, <1>3, <1>4, <1>5, RowStepIsAbstract

LEMMA InitIsAbstract == Init => Abstract!Init
  <1> SUFFICES ASSUME Init PROVE Abstract!Init
    OBVIOUS
  <1>1. \A o \in Orders : SagaStatus(saga[o]) = "ABSENT" /\ Held(saga[o]) = <<>>
    <2> TAKE o \in Orders
    <2>1. /\ saga[o] \in Row /\ saga[o].status = "ABSENT"
          /\ saga[o].completedSteps = <<>> /\ saga[o].compensatedSteps = <<>>
      BY NewRowFacts DEF Init
    <2> QED
      BY <2>1, HeldForward DEF SagaStatus, Row
  <1> QED
    BY <1>1 DEF Abstract!Init

LEMMA NextIsAbstract == LockInv /\ [Next]_vars => [Abstract!Next]_(Abstract!vars)
  <1> SUFFICES ASSUME LockInv, [Next]_vars PROVE [Abstract!Next]_(Abstract!vars)
    OBVIOUS
  <1>1. ASSUME NEW o \in Orders, Accept(o) PROVE [Abstract!Next]_(Abstract!vars)
    BY <1>1, AcceptIsAbstract
  <1>2. ASSUME NEW c \in Connections, Decide(c) PROVE [Abstract!Next]_(Abstract!vars)
    <2>1. CASE Dispatch(c)
      <3>1. request[c].phase \in WorkPhases /\ Write(c, request[c].row)
        BY <2>1 DEF Dispatch, InPhase, WorkPhases
      <3>2. saga' = saga
        BY <3>1, WorkingFacts DEF Write, LockInv
      <3> QED
        BY <3>2, KeptRowsAreAbstract
    <2> QED
      BY <1>2, <2>1, CloseIsAbstract DEF Decide
  <1>3. ASSUME NEW c \in Connections, Apply(c) PROVE [Abstract!Next]_(Abstract!vars)
    BY <1>3, TurnAroundIsAbstract, AdvanceIsAbstract, CompleteIsAbstract, CompensateIsAbstract
       DEF Apply
  <1>4. ASSUME NEW c \in Connections, StopInDoubt(c) PROVE saga' = saga
    <2>1. request[c].phase \in WorkPhases
      BY <1>4 DEF StopInDoubt, Result, InPhase, WorkPhases
    <2> QED
      BY <1>4, <2>1, StopInDoubtWrites, WorkingFacts DEF Writes, LockInv
  <1>5. ASSUME \/ \E o \in Orders, c \in Connections : TakeLock(c, o)
               \/ \E c \in Connections : Read(c) \/ Leave(c) \/ Die(c)
               \/ \E c \in Connections : AnswerDefinitively(c) \/ AnswerOtherwise(c)
               \/ \E x \in calls : Execute(x)
               \/ UNCHANGED vars
        PROVE  saga' = saga
    BY <1>5 DEF TakeLock, Read, Leave, Die, Unlock, AnswerDefinitively, AnswerOtherwise, Answer,
                Execute, vars
  <1> QED
    BY <1>1, <1>2, <1>3, <1>4, <1>5, KeptRowsAreAbstract DEF Next

(* Driven by requests, too, whichever of them die, the saga goes through    *)
(* the abstract saga's steps in its order and ends all or nothing.          *)
THEOREM HttpImplementsSaga == Spec => ImplementsSaga
  <1> QED
    BY InitLockInv, NextLockInv, InitIsAbstract, NextIsAbstract, PTL
       DEF Spec, ImplementsSaga, Abstract!Spec
=============================================================================
